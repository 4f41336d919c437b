----------------------------- MODULE MvpLoopProofs -----------------------------
(***************************************************************************)
(* Theorems about the owner's review loop, for every set of criteria and   *)
(* every bound and cap; except for MvpTypes and FailuresMarkedOverlapping, *)
(* which are about overlapping requests, while one runs at a time.         *)
(*                                                                         *)
(* MvpInv holds for any order of calls, whatever writes fail or tear.  A    *)
(* request saves the whole block it read before its wait, so the           *)
(* invariant says of a waiting request that this is still the block on     *)
(* file; of the block that what was accepted lies in its scope, and its    *)
(* scope in the build once one was made and in every attempt of its loop   *)
(* that may be put back over it; and of the loops that each slice has      *)
(* rebuilt at most one, the loop in use counted as rebuilt.                *)
(*                                                                         *)
(* ReviewInv adds what only holds while writes succeed and the client      *)
(* runs no tests under a pending review: the status fits the state of the  *)
(* loop, the build of a loop at its tests has what the owner asked for     *)
(* last, a failing run they have not seen is one the loop was charged      *)
(* for, and a waiting request finds the loop where it left it.             *)
(***************************************************************************)
EXTENDS MvpLoop, FiniteSetTheorems, TLAPS

\* One request runs at a time.
OneAtATime == \A c, d \in Calls : c = d

\* What is on file for one loop, as far as its type matters.
Dirs == [file          : {"absent", "ok", "torn"},
         state         : States,
         count         : Nat,
         last          : Tools!Rows,
         loopBacks     : Nat,
         escalated     : BOOLEAN,
         escalationDoc : BOOLEAN]

\* Where a tool call may leave loop l that moves it to one of targets.
Near(l, targets) ==
  {m \in Dirs : /\ m.state \in targets \union {l.state}
                /\ l.file # "absent" => m.file # "absent"
                /\ "torn" \notin Faults => m.file = l.file}

-----------------------------------------------------------------------------
(* What the tools leave behind                                             *)

LEMMA SameStates == Tools!States = States
BY DEF Tools!States, Tools!ForwardStates, Tools!TerminalStates,
       States, ForwardStates, TerminalStates

\* A call leaves one of the directories it passes through, possibly torn.
LEMMA OutcomesNear ==
  ASSUME NEW l \in Dirs, NEW targets, NEW writes, Len(writes) \in Nat,
         \A i \in 1 .. Len(writes) : writes[i].disk \in Near(l, targets)
  PROVE  Tools!Outcomes(l, writes) \subseteq Near(l, targets)
<1>1. \A i \in 0 .. Len(writes) : Tools!After(l, writes, i) \in Near(l, targets)
  BY DEF Tools!After, Near
<1>2. Tools!Completed(l, writes) \in Near(l, targets)
  BY <1>1 DEF Tools!Completed
<1>3. Tools!Stopped(l, writes) \subseteq Near(l, targets)
  BY <1>1 DEF Tools!Stopped
<1>4. ASSUME "torn" \in Faults
      PROVE  Tools!Torn(l, writes) \subseteq Near(l, targets)
  <2>1. \A m \in Near(l, targets) : [m EXCEPT !.file = "torn"] \in Near(l, targets)
    BY <1>4 DEF Near, Dirs
  <2>2. \A i \in 1 .. Len(writes) : i - 1 \in 0 .. Len(writes)
    OBVIOUS
  <2> QED BY <1>1, <2>1, <2>2 DEF Tools!Torn
<1> QED BY <1>2, <1>3, <1>4 DEF Tools!Outcomes

\* Two writes, and a write in front of two, as sequences.
LEMMA TwoWrites ==
  ASSUME NEW a, NEW b
  PROVE  Len(<<a, b>>) = 2 /\ <<a, b>>[1] = a /\ <<a, b>>[2] = b
OBVIOUS

LEMMA ThreeWrites ==
  ASSUME NEW a, NEW b, NEW c, NEW w, w = <<a>> \o <<b, c>>
  PROVE  Len(w) = 3 /\ w[1] = a /\ w[2] = b /\ w[3] = c
<1>1. <<a>> \in Seq({a, b, c}) /\ <<b, c>> \in Seq({a, b, c})
  OBVIOUS
<1> QED BY <1>1

\* Logging a row and moving, from a directory near l.
LEMMA MoveNear ==
  ASSUME NEW l \in Dirs, NEW targets, NEW m \in Near(l, targets),
         NEW row \in Tools!Rows, row.to \in targets
  PROVE  /\ Tools!Logged(m, row) \in Near(l, targets)
         /\ Tools!StateSet(Tools!Logged(m, row), row.to) \in Near(l, targets)
         /\ Tools!StateSet(Tools!Logged(m, row), row.to).state = row.to
         /\ Tools!StateSet(Tools!Logged(m, row), row.to).count = m.count
         /\ Tools!StateSet(Tools!Logged(m, row), row.to).file = m.file
<1> DEFINE logged == Tools!Logged(m, row)
<1>1. m \in Dirs /\ row.to \in States
  BY SameStates DEF Near, Tools!Rows
<1>2. /\ logged \in Dirs /\ logged.file = m.file /\ logged.state = m.state
      /\ logged.count = m.count
  <2>1. \A r \in Tools!Rows, n \in Nat, b \in BOOLEAN :
          [m EXCEPT !.last = r, !.loopBacks = n, !.escalated = b] \in Dirs
    BY <1>1 DEF Dirs
  <2>2. (IF row.type = "LOOP_BACK" THEN m.loopBacks + 1 ELSE m.loopBacks) \in Nat
    BY <1>1 DEF Dirs
  <2>3. (m.escalated \/ row.type = "ESCALATE") \in BOOLEAN
    OBVIOUS
  <2>4. logged \in Dirs
    BY <2>1, <2>2, <2>3 DEF Tools!Logged
  <2>5. /\ logged.file = m.file /\ logged.state = m.state
        /\ logged.count = m.count
    BY <1>1 DEF Dirs, Tools!Logged
  <2> QED BY <2>4, <2>5
<1>3. logged \in Near(l, targets)
  BY <1>2 DEF Near
<1> HIDE DEF logged
<1>4. Tools!StateSet(logged, row.to) \in Near(l, targets)
  BY <1>1, <1>3 DEF Near, Dirs, Tools!StateSet
<1>5. /\ Tools!StateSet(logged, row.to).state = row.to
      /\ Tools!StateSet(logged, row.to).count = m.count
      /\ Tools!StateSet(logged, row.to).file = m.file
  BY <1>2 DEF Dirs, Tools!StateSet
<1> QED BY <1>3, <1>4, <1>5 DEF logged

\* A call that is refused leaves the loop alone.
LEMMA RefusedNear ==
  ASSUME NEW l \in Dirs, NEW targets
  PROVE  Tools!Outcomes(l, <<>>) \subseteq Near(l, targets)
BY OutcomesNear

\* advance_state, complete or cut short.
LEMMA AdvanceNear ==
  ASSUME NEW l \in Dirs, NEW to \in States,
         NEW type \in {"NORMAL", "VACUOUS_SKIP"}, NEW writes,
         writes = Tools!AdvanceState(l, to, type)
  PROVE  /\ Tools!Outcomes(l, writes) \subseteq Near(l, {to})
         /\ l.file = "ok" =>
              /\ Tools!Completed(l, writes).state = to
              /\ Tools!Completed(l, writes).count = l.count
              /\ Tools!Completed(l, writes).file = "ok"
              /\ writes # <<>>
<1>1. CASE l.file # "ok"
  BY <1>1, RefusedNear DEF Tools!AdvanceState
<1>2. CASE l.file = "ok"
  <2> DEFINE row == Tools!Row(l.state, to, type)
             one == Tools!Logged(l, row)
             two == Tools!StateSet(one, row.to)
  <2>1. row \in Tools!Rows /\ row.to = to
    BY SameStates DEF Dirs, Tools!Row, Tools!Rows, Tools!RowTypes
  <2>2. l \in Near(l, {to})
    BY DEF Near
  <2>3. /\ one \in Near(l, {to}) /\ two \in Near(l, {to})
        /\ two.state = to /\ two.count = l.count /\ two.file = "ok"
    BY <1>2, <2>1, <2>2, MoveNear
  <2>4. writes = <<Tools!Write("log", one), Tools!Write("graph", two)>>
    BY <1>2 DEF Tools!AdvanceState, Tools!Move
  <2> HIDE DEF one, two
  <2>5. Len(writes) = 2 /\ writes[1].disk = one /\ writes[2].disk = two
    BY <2>4, TwoWrites DEF Tools!Write
  <2>6. Tools!Outcomes(l, writes) \subseteq Near(l, {to})
    BY <2>3, <2>5, OutcomesNear
  <2>7. Tools!Completed(l, writes) = two /\ writes # <<>>
    BY <2>5 DEF Tools!Completed, Tools!After
  <2> QED BY <2>3, <2>6, <2>7
<1> QED BY <1>1, <1>2

\* advance_state, complete.
LEMMA AdvanceDone ==
  ASSUME NEW l \in Dirs, l.file = "ok", NEW to \in States, NEW writes,
         writes = Tools!AdvanceState(l, to, "NORMAL")
  PROVE  /\ Tools!Completed(l, writes).state = to
         /\ Tools!Completed(l, writes).count = l.count
         /\ Tools!Completed(l, writes).file = "ok"
         /\ writes # <<>>
<1>1. Tools!Completed(l, writes).state = to
  BY AdvanceNear
<1>2. Tools!Completed(l, writes).count = l.count
  BY AdvanceNear, Zenon
<1>3. Tools!Completed(l, writes).file = "ok"
  BY AdvanceNear, Zenon
<1>4. writes # <<>>
  BY AdvanceNear
<1> QED BY <1>1, <1>2, <1>3, <1>4

\* loop_back, complete or cut short: one charge and back to the builder, or
\* with the cap used up the escalation.
LEMMA LoopBackNear ==
  ASSUME NEW l \in Dirs, NEW writes, writes = Tools!LoopBack(l)
  PROVE  /\ Tools!Outcomes(l, writes) \subseteq Near(l, {"BUILDER", "ESCALATED"})
         /\ l.file = "ok" =>
              /\ Tools!Completed(l, writes).file = "ok" /\ writes # <<>>
              /\ \/ /\ Tools!Completed(l, writes).state = "BUILDER"
                    /\ Tools!Completed(l, writes).count = l.count + 1
                 \/ /\ Tools!Completed(l, writes).state = "ESCALATED"
                    /\ Tools!Completed(l, writes).count = l.count
<1> DEFINE T == {"BUILDER", "ESCALATED"}
<1>1. CASE l.file # "ok"
  BY <1>1, RefusedNear DEF Tools!LoopBack
<1>2. ASSUME l.file = "ok", NEW m \in Near(l, T), m.file = "ok",
             NEW row \in Tools!Rows, row.to \in T, NEW f,
             writes = <<Tools!Write(f, m)>> \o Tools!Move(m, row)
      PROVE  /\ Tools!Outcomes(l, writes) \subseteq Near(l, T)
             /\ Tools!Completed(l, writes).state = row.to
             /\ Tools!Completed(l, writes).count = m.count
             /\ Tools!Completed(l, writes).file = "ok" /\ writes # <<>>
  <2> DEFINE one == Tools!Logged(m, row)
             two == Tools!StateSet(one, row.to)
  <2>1. /\ one \in Near(l, T) /\ two \in Near(l, T)
        /\ two.state = row.to /\ two.count = m.count /\ two.file = "ok"
    BY <1>2, MoveNear
  <2>2. writes = <<Tools!Write(f, m)>> \o <<Tools!Write("log", one), Tools!Write("graph", two)>>
    BY <1>2 DEF Tools!Move
  <2> HIDE DEF one, two
  <2>3. /\ Len(writes) = 3
        /\ writes[1].disk = m /\ writes[2].disk = one /\ writes[3].disk = two
    BY <2>2, ThreeWrites DEF Tools!Write
  <2>4. Tools!Outcomes(l, writes) \subseteq Near(l, T)
    <3>1. \A i \in 1 .. Len(writes) : writes[i].disk \in Near(l, T)
      BY <1>2, <2>1, <2>3
    <3> QED BY <2>3, <3>1, OutcomesNear
  <2>5. Tools!Completed(l, writes) = two /\ writes # <<>>
    BY <2>3 DEF Tools!Completed, Tools!After
  <2> QED BY <2>1, <2>4, <2>5
<1>3. CASE l.file = "ok" /\ Tools!CapExceeded(l)
  <2> DEFINE m   == Tools!Documented(l)
             row == Tools!Row(m.state, "ESCALATED", "ESCALATE")
  <2>1. m \in Near(l, T) /\ m.file = "ok" /\ m.count = l.count /\ m.state = l.state
    BY <1>3 DEF Near, Dirs, Tools!Documented
  <2>2. row \in Tools!Rows /\ row.to = "ESCALATED"
    BY <2>1, SameStates DEF Near, Dirs, Tools!Row, Tools!Rows, Tools!RowTypes, States, TerminalStates
  <2>3. writes = <<Tools!Write("doc", m)>> \o Tools!Move(m, row)
    BY <1>3, <2>1 DEF Tools!LoopBack, Tools!TryAdvanceForLoopBack, Tools!TriggerEscalation
  <2> HIDE DEF m, row
  <2> QED BY <1>2, <1>3, <2>1, <2>2, <2>3
<1>4. CASE l.file = "ok" /\ ~Tools!CapExceeded(l)
  <2> DEFINE m   == Tools!Charged(l)
             row == Tools!Row(m.state, "BUILDER", "LOOP_BACK")
  <2>1. m \in Near(l, T) /\ m.file = "ok" /\ m.count = l.count + 1 /\ m.state = l.state
    BY <1>4 DEF Near, Dirs, Tools!Charged
  <2>2. row \in Tools!Rows /\ row.to = "BUILDER"
    BY <2>1, SameStates DEF Near, Dirs, Tools!Row, Tools!Rows, Tools!RowTypes, States, ForwardStates
  <2>3. writes = <<Tools!Write("graph", m)>> \o Tools!Move(m, row)
    BY <1>4, <2>1 DEF Tools!LoopBack, Tools!TryAdvanceForLoopBack
  <2> HIDE DEF m, row
  <2> QED BY <1>2, <1>4, <2>1, <2>2, <2>3
<1> QED BY <1>1, <1>3, <1>4

\* The answer at Gate 1, complete or cut short.
LEMMA Gate1Near ==
  ASSUME NEW l \in Dirs, NEW response \in GateResponses[1], NEW writes,
         writes = Tools!Respond(l, 1, response)
  PROVE  /\ Tools!Outcomes(l, writes) \subseteq Near(l, {"TEST_DESIGN", "ESCALATED"})
         /\ l.file = "ok" =>
              /\ Tools!Completed(l, writes).state \in {"TEST_DESIGN", "ESCALATED"}
              /\ Tools!Completed(l, writes).count = l.count
              /\ Tools!Completed(l, writes).file = "ok"
<1> DEFINE T == {"TEST_DESIGN", "ESCALATED"}
<1>1. CASE l.file # "ok"
  BY <1>1, RefusedNear DEF Tools!Respond
<1>2. CASE l.file = "ok"
  <2> DEFINE row == Tools!Row(Tools!GateHost[1], Tools!GateNext(1, response),
                              Tools!GateRowType(response))
             one == Tools!Logged(l, row)
             two == Tools!StateSet(one, row.to)
  <2>0. response \in {"APPROVE", "REJECT"}
    BY DEF GateResponses, GateIds
  <2>1. row \in Tools!Rows /\ row.to \in T
    <3>1. Tools!GateHost[1] = "ENV_REPORT"
      BY DEF Tools!GateHost, Tools!GateIds
    <3>2. Tools!GateNext(1, response) \in T
      BY <2>0 DEF Tools!GateNext
    <3>3. Tools!GateRowType(response) \in Tools!RowTypes
      BY DEF Tools!GateRowType, Tools!RowTypes
    <3> QED BY <3>1, <3>2, <3>3, SameStates
            DEF Tools!Row, Tools!Rows, States, ForwardStates, TerminalStates
  <2>2. l \in Near(l, T)
    BY DEF Near
  <2>3. /\ one \in Near(l, T) /\ two \in Near(l, T)
        /\ two.state \in T /\ two.count = l.count /\ two.file = "ok"
    BY <1>2, <2>1, <2>2, MoveNear
  <2>4. writes = <<Tools!Write("log", one), Tools!Write("graph", two)>>
    BY <1>2, <2>0 DEF Tools!Respond, Tools!Move
  <2> HIDE DEF one, two
  <2>5. Len(writes) = 2 /\ writes[1].disk = one /\ writes[2].disk = two
    BY <2>4, TwoWrites DEF Tools!Write
  <2>6. Tools!Outcomes(l, writes) \subseteq Near(l, T)
    BY <2>3, <2>5, OutcomesNear
  <2>7. Tools!Completed(l, writes) = two
    BY <2>5 DEF Tools!Completed, Tools!After
  <2> QED BY <2>3, <2>6, <2>7
<1> QED BY <1>1, <1>2

-----------------------------------------------------------------------------
(* The walk of a new loop                                                  *)

\* The recursion of Walked has a solution, so Walked is one.
LEMMA WalkUnfolds ==
  /\ Walked[1] = Tools!Completed(Tools!NoLoop, Tools!StartLoop(Tools!NoLoop, FALSE))
  /\ \A i \in 1 .. 5 : Walked[i + 1] = Tools!Completed(Walked[i], Hop(Walked[i], i))
<1> DEFINE start   == Tools!Completed(Tools!NoLoop, Tools!StartLoop(Tools!NoLoop, FALSE))
           F(d, i) == Tools!Completed(d, Hop(d, i))
           Body(f) == [i \in 1 .. Len(SliceWalk) |->
                         IF i = 1 THEN start ELSE F(f[i - 1], i - 1)]
           w2 == F(start, 1)
           w3 == F(w2, 2)
           w4 == F(w3, 3)
           w5 == F(w4, 4)
           w6 == F(w5, 5)
           w  == [i \in 1 .. Len(SliceWalk) |->
                    IF i = 1 THEN start ELSE IF i = 2 THEN w2 ELSE
                    IF i = 3 THEN w3 ELSE IF i = 4 THEN w4 ELSE
                    IF i = 5 THEN w5 ELSE w6]
<1>1. Walked = CHOOSE f : f = Body(f)
  BY DEF Walked
<1>2. Len(SliceWalk) = 6
  BY DEF SliceWalk
<1> HIDE DEF start, F
<1>3. w = Body(w)
  <2>1. /\ w[1] = start /\ w[2] = w2 /\ w[3] = w3
        /\ w[4] = w4 /\ w[5] = w5 /\ w[6] = w6
    BY <1>2
  <2>2. \A i \in 1 .. Len(SliceWalk) : w[i] = IF i = 1 THEN start ELSE F(w[i - 1], i - 1)
    <3>1. 1 .. Len(SliceWalk) = {1, 2, 3, 4, 5, 6}
      BY <1>2
    <3>2. /\ 2 - 1 = 1 /\ 3 - 1 = 2 /\ 4 - 1 = 3 /\ 5 - 1 = 4 /\ 6 - 1 = 5
      OBVIOUS
    <3> HIDE DEF w
    <3> QED BY <2>1, <3>1, <3>2
  <2> QED BY <2>2
<1> HIDE DEF w
<1>4. Walked = Body(Walked)
  BY <1>1, <1>3
<1>5. \A i \in 1 .. 6 : Walked[i] = IF i = 1 THEN start ELSE F(Walked[i - 1], i - 1)
  BY <1>2, <1>4
<1>6. \A i \in 1 .. 5 : i + 1 \in 1 .. 6 /\ i + 1 # 1 /\ (i + 1) - 1 = i
  OBVIOUS
<1>7. Walked[1] = start
  BY <1>5
<1>8. \A i \in 1 .. 5 : Walked[i + 1] = F(Walked[i], i)
  <2>1. TAKE i \in 1 .. 5
  <2>2. PICK j \in 1 .. 6 : j = i + 1 /\ j # 1 /\ j - 1 = i
    BY <1>6
  <2>3. Walked[j] = F(Walked[j - 1], j - 1)
    BY <1>5, <2>2
  <2> QED BY <2>2, <2>3
<1> QED BY <1>7, <1>8 DEF start, F

\* After i states of the walk the loop is at the last of them, uncharged.
LEMMA WalkedAt ==
  \A i \in 1 .. 6 : /\ Walked[i] \in Dirs
                    /\ Walked[i].file = "ok" /\ Walked[i].count = 0
                    /\ Walked[i].state = SliceWalk[i]
<1> DEFINE P(i) == /\ Walked[i] \in Dirs
                   /\ Walked[i].file = "ok" /\ Walked[i].count = 0
                   /\ Walked[i].state = SliceWalk[i]
<1>1. P(1)
  <2>1. Tools!NoLoop \in Dirs
    BY SameStates DEF Tools!NoLoop, Dirs, Tools!Row, Tools!Rows, Tools!RowTypes,
                      States, ForwardStates
  <2>2. /\ Tools!Created(Tools!NoLoop) \in Dirs
        /\ Tools!Created(Tools!NoLoop).file = "ok"
        /\ Tools!Created(Tools!NoLoop).count = 0
        /\ Tools!Created(Tools!NoLoop).state = "OWNER_INTENT"
    BY <2>1 DEF Tools!Created, Dirs, States, ForwardStates
  <2> DEFINE made == Tools!Created(Tools!NoLoop)
             writes == Tools!StartLoop(Tools!NoLoop, FALSE)
  <2>3. writes = <<Tools!Write("graph", made)>> \o <<>>
    BY DEF Tools!StartLoop
  <2> HIDE DEF made, writes
  <2>4. Len(writes) = 1 /\ writes[1].disk = made
    <3>1. <<Tools!Write("graph", made)>> \in Seq({Tools!Write("graph", made)})
      OBVIOUS
    <3> QED BY <2>3, <3>1 DEF Tools!Write
  <2>5. Walked[1] = Tools!Completed(Tools!NoLoop, writes)
    BY WalkUnfolds DEF writes
  <2>6. Walked[1] = made
    BY <2>4, <2>5 DEF Tools!Completed, Tools!After
  <2> QED BY <2>2, <2>6 DEF made, SliceWalk
<1>2. ASSUME NEW i \in 1 .. 5, P(i) PROVE P(i + 1)
  <2>1. SliceWalk[i + 1] \in States
    BY DEF SliceWalk, States, ForwardStates
  <2> DEFINE writes == Hop(Walked[i], i)
  <2>2. writes = Tools!AdvanceState(Walked[i], SliceWalk[i + 1], "VACUOUS_SKIP")
    BY DEF Hop
  <2>3. /\ Tools!Outcomes(Walked[i], writes) \subseteq Dirs
        /\ Tools!Completed(Walked[i], writes).state = SliceWalk[i + 1]
        /\ Tools!Completed(Walked[i], writes).count = 0
        /\ Tools!Completed(Walked[i], writes).file = "ok"
    BY <1>2, <2>1, <2>2, AdvanceNear DEF Near
  <2>4. Tools!Completed(Walked[i], writes) \in Dirs
    BY <2>3 DEF Tools!Outcomes
  <2> QED BY <2>3, <2>4, WalkUnfolds
<1>3. P(2) BY <1>1, <1>2
<1>4. P(3) BY <1>2, <1>3
<1>5. P(4) BY <1>2, <1>4
<1>6. P(5) BY <1>2, <1>5
<1>7. P(6) BY <1>2, <1>6
<1> HIDE DEF P
<1>8. \A i \in 1 .. 6 : P(i)
  <2>1. \A i \in 1 .. 6 : i = 1 \/ i = 2 \/ i = 3 \/ i = 4 \/ i = 5 \/ i = 6
    OBVIOUS
  <2> QED BY <1>1, <1>3, <1>4, <1>5, <1>6, <1>7, <2>1
<1> QED BY <1>8 DEF P

\* A slice that could not be opened leaves a loop that exists and has no
\* charge.
LEMMA AbandonedLoops ==
  \A part \in Abandoned : part \in Dirs /\ part.file = "ok" /\ part.count = 0
<1>1. Len(SliceWalk) = 6
  BY DEF SliceWalk
<1>2. ASSUME NEW i \in 1 .. 5, NEW part \in Tools!Stopped(Walked[i], Hop(Walked[i], i))
      PROVE  part \in Dirs /\ part.file = "ok" /\ part.count = 0
  <2> DEFINE l   == Walked[i]
             row == Tools!Row(l.state, SliceWalk[i + 1], "VACUOUS_SKIP")
             one == Tools!Logged(l, row)
             two == Tools!StateSet(one, row.to)
  <2>1. l \in Dirs /\ l.file = "ok" /\ l.count = 0
    BY WalkedAt
  <2>2. SliceWalk[i + 1] \in States
    BY DEF SliceWalk, States, ForwardStates
  <2>3. Hop(l, i) = <<Tools!Write("log", one), Tools!Write("graph", two)>>
    BY <2>1 DEF Hop, Tools!AdvanceState, Tools!Move
  <2>4. one \in Dirs /\ one.file = "ok" /\ one.count = 0
    <3>1. \A r, n, b : LET d == [l EXCEPT !.last = r, !.loopBacks = n, !.escalated = b]
                       IN  d.file = l.file /\ d.count = l.count
      BY <2>1 DEF Dirs
    <3>2. row \in Tools!Rows /\ row.to = SliceWalk[i + 1]
      BY <2>1, <2>2, SameStates DEF Dirs, Tools!Row, Tools!Rows, Tools!RowTypes
    <3>3. one \in Near(l, {row.to})
      <4>1. l \in Near(l, {row.to})
        BY <2>1 DEF Near
      <4> QED BY <2>1, <3>2, <4>1, MoveNear
    <3> QED BY <2>1, <3>1, <3>3 DEF Near, Tools!Logged
  <2> HIDE DEF one, two
  <2>5. Len(Hop(l, i)) = 2 /\ Hop(l, i)[1].disk = one
    BY <2>3, TwoWrites DEF Tools!Write
  <2>6. part = l \/ part = one
    <3>1. PICK k \in 0 .. Len(Hop(l, i)) - 1 : part = Tools!After(l, Hop(l, i), k)
      BY <1>2 DEF Tools!Stopped
    <3>2. k = 0 \/ k = 1
      BY <2>5, <3>1
    <3> QED BY <2>5, <3>1, <3>2 DEF Tools!After
  <2> QED BY <2>1, <2>4, <2>6
<1>3. /\ 6 - 1 = 5
      /\ Walked[6] \in Dirs /\ Walked[6].file = "ok" /\ Walked[6].count = 0
  BY WalkedAt
<1>4. BreakingHops \subseteq 1 .. 5
  BY MvpAssumption
<1> QED BY <1>1, <1>2, <1>3, <1>4 DEF Abandoned

-----------------------------------------------------------------------------
(* The inductive invariant, for any order of calls and any failed write    *)

Reports == {"none", "PASS_REVIEW", "FAIL_REVIEW"}

Statuses == {"INACTIVE", "SCOPE_DERIVED", "BUILDING",
             "AWAITING_OWNER_REVIEW", "ACCEPTED", "CAP_REACHED"}

Blocks == [status : Statuses, loop : LoopIds, scope : SUBSET Criteria,
           index : Nat, failing : BOOLEAN]

Builds == [criteria : SUBSET Criteria, changes : Nat]

Artifacts == [spec : BOOLEAN, scope : SUBSET Criteria, plan : SUBSET Criteria,
              feedback : Nat, report : Reports, best : SUBSET Builds]

Stages == {"idle", "deriveScope", "designTests", "buildProject", "runTests",
           "ownerReview", "reengage"}

Slots == [stage : Stages, saved : Blocks, criteria : SUBSET Criteria,
          changes : Nat, report : Reports, count : Nat]

\* The states of a loop whose slice is open.
OpenStates == {s \in States : \A i \in 1 .. 5 : s # SliceWalk[i]}

\* The loops that may have been rebuilt: those charged, and the one in use.
Rebuilt == {l \in LoopIds : orch[l].count > 0} \union {mvp.loop}

\* The loop in use is past the walk, and each slice has rebuilt one loop.
LoopsOK ==
  /\ orch \in [LoopIds -> Dirs]
  /\ mvp.loop \in LoopIds /\ mvp.index \in Nat
  /\ orch[mvp.loop].file # "absent"
  /\ "torn" \notin Faults => orch[mvp.loop].file = "ok"
  /\ orch[mvp.loop].state \in OpenStates
  /\ mvp.index <= MaxSlices
  /\ Cardinality(Rebuilt) <= mvp.index

\* What was accepted is in the scope, the scope in the build it was tested
\* and reviewed with and in every attempt of its loop that is kept, and
\* mvp_scope.json says what the block says.
BlockOK ==
  /\ mvp \in Blocks /\ disk \in [LoopIds -> Artifacts] /\ files \in Builds
  /\ accepted \subseteq Criteria
  /\ signed \in [LoopIds -> Reports] /\ unseen \in [LoopIds -> 0 .. 2]
  /\ disk[mvp.loop].spec
  /\ mvp.status # "INACTIVE" => disk[mvp.loop].scope = mvp.scope
  /\ mvp.status = "INACTIVE" => accepted = {}
  /\ mvp.status # "INACTIVE" => accepted \subseteq mvp.scope
  /\ mvp.status \notin {"INACTIVE", "SCOPE_DERIVED"} =>
       mvp.scope \subseteq files.criteria
  /\ orch[mvp.loop].state = "RUN_TESTS" => mvp.scope \subseteq files.criteria
  /\ \A b \in disk[mvp.loop].best : mvp.scope \subseteq b.criteria
  /\ mvp.status = "INACTIVE" =>
       orch[mvp.loop].state = "TEST_DESIGN" /\ disk[mvp.loop].best = {}
  /\ AcceptedKept
  /\ FailingAcceptanceMarked

\* A waiting request will save the state that is on file, unless it is the
\* design of the tests, which only moves the loop.
Placed(slot) ==
  /\ slot.saved.loop = mvp.loop
  /\ slot.stage # "designTests" => slot.saved = mvp
  /\ slot.stage \notin {"idle", "deriveScope"} => mvp.status # "INACTIVE"
  /\ slot.stage = "deriveScope" => mvp.status = "INACTIVE"
  /\ slot.stage = "runTests" => orch[mvp.loop].state = "RUN_TESTS"
  /\ slot.stage = "buildProject" => slot.criteria = EffectiveCriteria(mvp)
  /\ slot.stage = "ownerReview" => mvp.status = "AWAITING_OWNER_REVIEW"
  /\ slot.stage = "reengage" => mvp.status = "ACCEPTED" /\ SliceAllowed(mvp)

CallsOK ==
  /\ calls \in [Calls -> Slots]
  /\ \A c \in Calls : ~Idle(c) => Placed(calls[c])

MvpInv == CallsOK /\ LoopsOK /\ BlockOK

-----------------------------------------------------------------------------
(* The loop in use                                                         *)

LEMMA OpenStatesListed ==
  OpenStates = {"ENV_REPORT", "TEST_DESIGN", "BUILDER", "RUN_TESTS",
                "REVIEWER_CODE_AND_SECURITY", "DOCUMENTATION", "QUALITY_JUDGE",
                "DEPLOYMENT_OR_END", "LIVE_DELIVERABLE", "COMPLETE",
                "ESCALATED", "ABORTED_BY_OWNER"}
<1>1. /\ SliceWalk[1] = "OWNER_INTENT" /\ SliceWalk[2] = "ARCHITECT_DESIGN"
      /\ SliceWalk[3] = "SPEC_WRITER_FORMALIZE"
      /\ SliceWalk[4] = "REVIEWER_SPEC" /\ SliceWalk[5] = "COST_ESTIMATE"
  BY DEF SliceWalk
<1>2. 1 .. 5 = {1, 2, 3, 4, 5}
  OBVIOUS
<1> QED BY <1>1, <1>2 DEF OpenStates, States, ForwardStates, TerminalStates

\* A tool call on the loop in use.
LEMMA LoopMoved ==
  ASSUME LoopsOK, NEW targets, targets \subseteq OpenStates,
         NEW after \in Near(orch[mvp.loop], targets),
         orch' = [orch EXCEPT ![mvp.loop] = after],
         mvp'.loop = mvp.loop, mvp'.index = mvp.index
  PROVE  /\ LoopsOK'
         /\ orch'[mvp.loop].state \in targets \union {orch[mvp.loop].state}
<1>1. after \in Dirs /\ orch' \in [LoopIds -> Dirs] /\ orch'[mvp.loop] = after
  BY DEF LoopsOK, Near
<1>2. Rebuilt' = Rebuilt
  BY DEF LoopsOK, Rebuilt
<1>3. /\ after.state \in OpenStates /\ after.file # "absent"
      /\ "torn" \notin Faults => after.file = "ok"
      /\ after.state \in targets \union {orch[mvp.loop].state}
  BY DEF LoopsOK, Near
<1> QED BY <1>1, <1>2, <1>3 DEF LoopsOK

LEMMA LoopsStay ==
  ASSUME LoopsOK, orch' = orch, mvp'.loop = mvp.loop, mvp'.index = mvp.index
  PROVE  LoopsOK'
<1>1. Rebuilt' = Rebuilt
  BY DEF Rebuilt
<1> QED BY <1>1 DEF LoopsOK

LEMMA AdvanceMoves ==
  ASSUME LoopsOK, NEW to \in OpenStates, NEW after,
         Moves(mvp.loop, AdvanceTo(mvp.loop, to), after),
         mvp'.loop = mvp.loop, mvp'.index = mvp.index
  PROVE  LoopsOK' /\ orch'[mvp.loop].state \in {to, orch[mvp.loop].state}
<1>1. to \in States /\ orch[mvp.loop] \in Dirs
  BY DEF OpenStates, LoopsOK
<1>2. Tools!Outcomes(orch[mvp.loop], AdvanceTo(mvp.loop, to)) \subseteq Near(orch[mvp.loop], {to})
  BY <1>1, AdvanceNear DEF AdvanceTo
<1>3. LoopsOK' /\ orch'[mvp.loop].state \in {to} \union {orch[mvp.loop].state}
  BY <1>2, LoopMoved DEF Moves
<1> QED BY <1>3

LEMMA BackMoves ==
  ASSUME LoopsOK, NEW after, Moves(mvp.loop, Tools!LoopBack(orch[mvp.loop]), after),
         mvp'.loop = mvp.loop, mvp'.index = mvp.index
  PROVE  /\ LoopsOK'
         /\ orch'[mvp.loop].state \in {"BUILDER", "ESCALATED", orch[mvp.loop].state}
<1>1. orch[mvp.loop] \in Dirs
  BY DEF LoopsOK
<1>2. Tools!Outcomes(orch[mvp.loop], Tools!LoopBack(orch[mvp.loop]))
        \subseteq Near(orch[mvp.loop], {"BUILDER", "ESCALATED"})
  BY <1>1, LoopBackNear
<1>3. {"BUILDER", "ESCALATED"} \subseteq OpenStates
  BY OpenStatesListed
<1>4. /\ LoopsOK'
      /\ orch'[mvp.loop].state \in {"BUILDER", "ESCALATED"} \union {orch[mvp.loop].state}
  BY <1>2, <1>3, LoopMoved DEF Moves
<1> QED BY <1>4

-----------------------------------------------------------------------------
(* The requests                                                            *)

LEMMA FirstLoopId == 1 \in LoopIds /\ LoopIds \subseteq Nat
BY MvpAssumption DEF LoopIds

LEMMA IdleTyped == IdleCall \in Slots
<1>1. Slice1 \in Blocks
  BY FirstLoopId DEF Slice1, Blocks, Statuses
<1> QED BY <1>1 DEF IdleCall, Slots, Stages, Reports

\* A turn that ends its request leaves no request waiting.
LEMMA FinishedCalls ==
  ASSUME OneAtATime, calls \in [Calls -> Slots], NEW c \in Calls, Finish(c)
  PROVE  CallsOK'
<1>1. calls' \in [Calls -> Slots] /\ calls'[c] = IdleCall
  BY IdleTyped DEF Finish
<1>2. \A d \in Calls : calls'[d].stage = "idle"
  BY <1>1 DEF OneAtATime, IdleCall
<1> QED BY <1>1, <1>2 DEF CallsOK, Idle

\* A turn that ends in a wait.
LEMMA WaitingCalls ==
  ASSUME OneAtATime, MvpInv, NEW c \in Calls, NEW stage \in Stages,
         NEW criteria \in SUBSET Criteria, NEW changes \in Nat,
         WaitFor(c, stage, criteria, changes), mvp' = mvp,
         orch' = orch,
         stage \notin {"idle", "deriveScope"} => mvp.status # "INACTIVE",
         stage = "deriveScope" => mvp.status = "INACTIVE",
         stage = "runTests" => orch[mvp.loop].state = "RUN_TESTS",
         stage = "buildProject" => criteria = EffectiveCriteria(mvp),
         stage = "ownerReview" => mvp.status = "AWAITING_OWNER_REVIEW",
         stage = "reengage" => mvp.status = "ACCEPTED" /\ SliceAllowed(mvp)
  PROVE  CallsOK'
<1> DEFINE slot == [stage |-> stage, saved |-> mvp, criteria |-> criteria,
                    changes |-> changes, report |-> disk[mvp.loop].report,
                    count |-> orch[mvp.loop].count]
<1>1. calls' = [calls EXCEPT ![c] = slot]
  BY DEF WaitFor
<1>2. slot \in Slots
  <2>1. mvp \in Blocks /\ disk[mvp.loop].report \in Reports /\ orch[mvp.loop].count \in Nat
    BY DEF MvpInv, LoopsOK, BlockOK, Artifacts, Dirs
  <2> QED BY <2>1 DEF Slots
<1>3. /\ slot.saved = mvp /\ slot.stage = stage /\ slot.criteria = criteria
  OBVIOUS
<1> HIDE DEF slot
<1>4. calls' \in [Calls -> Slots] /\ calls'[c] = slot
  BY <1>1, <1>2 DEF MvpInv, CallsOK
<1>5. Placed(calls[c])'
  BY <1>3, <1>4 DEF Placed, EffectiveCriteria, SliceAllowed
<1>6. \A d \in Calls : d = c
  BY DEF OneAtATime
<1> QED BY <1>4, <1>5, <1>6 DEF CallsOK

\* The criteria and the changes a stage works from.
LEMMA InputsTyped ==
  ASSUME MvpInv
  PROVE  EffectiveCriteria(mvp) \in SUBSET Criteria /\ ChangesFor(mvp) \in Nat
BY DEF MvpInv, BlockOK, Blocks, Artifacts, EffectiveCriteria, ChangesFor

\* What a waiting request knows.
LEMMA Waiter ==
  ASSUME MvpInv, NEW c \in Calls, ~Idle(c)
  PROVE  /\ calls[c] \in Slots /\ Placed(calls[c])
         /\ calls[c].saved \in Blocks /\ calls[c].saved.loop = mvp.loop
BY DEF MvpInv, CallsOK, Slots, Placed

LEMMA CallsStep ==
  ASSUME OneAtATime, MvpInv, [MvpNext]_mvpVars
  PROVE  CallsOK'
<1> USE DEF MvpInv
<1>0. calls \in [Calls -> Slots]
  BY DEF CallsOK
<1>1. ASSUME NEW c \in Calls,
             \/ GiveUp(c) \/ DesignTests(c)
             \/ FinishBuild(c) \/ FailBuild(c) \/ RejectRebuild(c)
             \/ TestsPass(c) \/ TestsFail(c) \/ ReplyUnclear(c)
             \/ ReplyAccept(c) \/ ReplyRefine(c) \/ Reengage(c)
      PROVE  CallsOK'
  <2>1. Finish(c)
    BY <1>1 DEF GiveUp, DesignTests, FinishBuild, FailBuild, RejectRebuild,
                TestsPass, TestsFail, ReplyUnclear, ReplyAccept, ReplyRefine,
                Reengage
  <2> QED BY <1>0, <2>1, FinishedCalls
<1>2. ASSUME NEW c \in Calls, BeginDesign(c) PROVE CallsOK'
  <2>1. {"deriveScope", "designTests"} \subseteq Stages /\ 0 \in Nat
    BY DEF Stages
  <2> QED BY <1>2, <2>1, WaitingCalls, InputsTyped DEF BeginDesign
<1>3. ASSUME NEW c \in Calls, BeginBuild(c) PROVE CallsOK'
  <2>1. "buildProject" \in Stages
    BY DEF Stages
  <2>2. mvp.status # "INACTIVE"
    BY <1>3 DEF BeginBuild, At, BlockOK
  <2> QED BY <1>3, <2>1, <2>2, WaitingCalls, InputsTyped DEF BeginBuild
<1>4. ASSUME NEW c \in Calls, BeginTests(c) \/ BeginReview(c) \/ BeginReengage(c)
      PROVE  CallsOK'
  <2>1. {"runTests", "ownerReview", "reengage"} \subseteq Stages /\ 0 \in Nat
        /\ {} \in SUBSET Criteria
    BY DEF Stages
  <2>2. CASE BeginTests(c)
    <3>1. mvp.status # "INACTIVE"
      BY <2>2 DEF BeginTests, At, BlockOK
    <3> QED BY <2>1, <2>2, <3>1, WaitingCalls DEF BeginTests, At
  <2>3. CASE BeginReview(c) \/ BeginReengage(c)
    BY <2>1, <2>3, WaitingCalls DEF BeginReview, BeginReengage
  <2> QED BY <1>4, <2>2, <2>3
<1>5. ASSUME NEW c \in Calls, DeriveScope(c) PROVE CallsOK'
  <2>1. CASE Finish(c)
    BY <1>0, <2>1, FinishedCalls
  <2>2. CASE ~Finish(c)
    <3>1. PICK scope \in SUBSET Criteria :
            /\ Waiting(c, "deriveScope")
            /\ mvp' = [calls[c].saved EXCEPT !.status = "SCOPE_DERIVED", !.scope = scope]
            /\ calls' = [calls EXCEPT ![c].stage = "designTests", ![c].criteria = scope]
      BY <1>5, <2>2 DEF DeriveScope
    <3>2. calls[c] \in Slots /\ calls[c].saved.loop = mvp.loop
      BY <3>1, Waiter DEF Waiting, Idle
    <3>3. mvp'.loop = mvp.loop /\ mvp'.status = "SCOPE_DERIVED"
      BY <3>1, <3>2 DEF Slots, Blocks
    <3>4. /\ calls' \in [Calls -> Slots]
          /\ calls'[c].stage = "designTests" /\ calls'[c].saved = calls[c].saved
      <4> DEFINE slot == [calls[c] EXCEPT !.stage = "designTests", !.criteria = scope]
      <4>1. slot \in Slots /\ slot.stage = "designTests" /\ slot.saved = calls[c].saved
        BY <3>1, <3>2 DEF Slots, Stages
      <4>2. calls' = [calls EXCEPT ![c] = slot]
        BY <1>0, <3>1, <3>2 DEF Slots
      <4> HIDE DEF slot
      <4> QED BY <1>0, <4>1, <4>2
    <3>5. Placed(calls[c])'
      BY <3>2, <3>3, <3>4 DEF Placed
    <3>6. \A d \in Calls : d = c
      BY DEF OneAtATime
    <3> QED BY <3>4, <3>5, <3>6 DEF CallsOK
  <2> QED BY <2>1, <2>2
<1>6. ASSUME calls' = calls, mvp' = mvp,
             orch' = orch \/ orch[mvp.loop].state # "RUN_TESTS"
      PROVE  CallsOK'
  BY <1>6 DEF CallsOK, Idle, Placed, EffectiveCriteria, SliceAllowed
<1>7. CASE RespondGate1 \/ ReviewersReject
  BY <1>6, <1>7 DEF RespondGate1, ReviewersReject, At
<1>8. CASE UNCHANGED mvpVars
  BY <1>6, <1>8 DEF mvpVars
<1>9. CASE \E c \in Calls : MvpTurn(c)
  BY <1>1, <1>2, <1>3, <1>4, <1>5, <1>9 DEF MvpTurn
<1> QED BY <1>7, <1>8, <1>9 DEF MvpNext

-----------------------------------------------------------------------------
(* The steps                                                               *)

\* The declared transitions, as a condition on one step.
Edge == mvp'.status # mvp.status => mvp'.status \in MvpTransitions[mvp.status]

SliceInv == LoopsOK /\ BlockOK

\* A request that restores the state restores what is on file.
LEMMA Restores ==
  ASSUME MvpInv, NEW c \in Calls,
         NEW stage \in Stages \ {"idle", "designTests"}, Waiting(c, stage)
  PROVE  calls[c].saved = mvp /\ mvp \in Blocks /\ calls[c] \in Slots /\ Placed(calls[c])
<1>1. calls[c].stage = stage /\ ~Idle(c)
  BY DEF Waiting, Idle
<1> QED BY <1>1, Waiter DEF Placed, MvpInv, BlockOK

\* A save happens or not.
LEMMA Saves ==
  ASSUME NEW block, SaveState(block)
  PROVE  mvp' = mvp \/ mvp' = block
BY DEF SaveState

\* A block with a new status.
LEMMA Restatus ==
  ASSUME mvp \in Blocks, NEW s \in Statuses, mvp' = [mvp EXCEPT !.status = s]
  PROVE  /\ mvp' \in Blocks /\ mvp'.status = s /\ mvp'.loop = mvp.loop
         /\ mvp'.scope = mvp.scope /\ mvp'.index = mvp.index
         /\ mvp'.failing = mvp.failing
BY DEF Blocks

\* A change of the artifacts of the loop in use.
LEMMA Rewritten ==
  ASSUME BlockOK, NEW a \in Artifacts, disk' = [disk EXCEPT ![mvp.loop] = a]
  PROVE  disk' \in [LoopIds -> Artifacts] /\ disk'[mvp.loop] = a
BY DEF BlockOK, Blocks

\* A step within one slice: the scope stays, a build covers the scope and
\* what was accepted, and an acceptance follows a review.
LEMMA BlockKept ==
  ASSUME BlockOK,
         mvp' \in Blocks, mvp'.loop = mvp.loop, mvp'.scope = mvp.scope,
         mvp'.status = "INACTIVE" <=> mvp.status = "INACTIVE",
         mvp.status = "SCOPE_DERIVED" /\ mvp'.status # "SCOPE_DERIVED" =>
           mvp.scope \subseteq files'.criteria,
         disk' \in [LoopIds -> Artifacts], disk'[mvp.loop].spec,
         disk'[mvp.loop].scope = disk[mvp.loop].scope
           \/ mvp.status = "INACTIVE",
         files' \in Builds,
         \A k \in mvp.scope \union accepted :
           k \in files.criteria => k \in files'.criteria,
         \/ orch'[mvp.loop].state = orch[mvp.loop].state
         \/ /\ mvp.status # "INACTIVE"
            /\ orch'[mvp.loop].state = "RUN_TESTS" => mvp.scope \subseteq files'.criteria,
         \/ disk'[mvp.loop].best = disk[mvp.loop].best
         \/ /\ mvp.status # "INACTIVE"
            /\ \A b \in disk'[mvp.loop].best : mvp.scope \subseteq b.criteria,
         \/ accepted' = accepted
         \/ accepted' = accepted \union mvp.scope
            /\ mvp.status = "AWAITING_OWNER_REVIEW",
         signed' \in [LoopIds -> Reports], unseen' \in [LoopIds -> 0 .. 2],
         FailingAcceptanceMarked'
  PROVE  BlockOK'
<1>1. accepted' \subseteq Criteria /\ accepted' \subseteq files'.criteria
  BY DEF BlockOK, AcceptedKept, Blocks
<1>2. /\ mvp'.status = "INACTIVE" => accepted' = {}
      /\ mvp'.status # "INACTIVE" => accepted' \subseteq mvp'.scope
  BY DEF BlockOK
<1>3. mvp'.status \notin {"INACTIVE", "SCOPE_DERIVED"} =>
        mvp'.scope \subseteq files'.criteria
  BY DEF BlockOK
<1>4. mvp'.status # "INACTIVE" => disk'[mvp'.loop].scope = mvp'.scope
  BY DEF BlockOK
<1>5. /\ orch'[mvp'.loop].state = "RUN_TESTS" => mvp'.scope \subseteq files'.criteria
      /\ \A b \in disk'[mvp'.loop].best : mvp'.scope \subseteq b.criteria
  BY DEF BlockOK
<1>6. mvp'.status = "INACTIVE" =>
        orch'[mvp'.loop].state = "TEST_DESIGN" /\ disk'[mvp'.loop].best = {}
  BY DEF BlockOK
<1> QED BY <1>1, <1>2, <1>3, <1>4, <1>5, <1>6 DEF BlockOK, AcceptedKept

\* The mark stays with the block while neither it nor the signature change.
LEMMA MarkStays ==
  ASSUME BlockOK, signed' = signed, mvp'.loop = mvp.loop,
         mvp'.failing = mvp.failing,
         mvp'.status = "ACCEPTED" => mvp.status = "ACCEPTED"
  PROVE  FailingAcceptanceMarked'
BY DEF BlockOK, FailingAcceptanceMarked

\* What a build that is written whole leaves in the project directory.
LEMMA BuiltCovers ==
  ASSUME MvpInv, NEW c \in Calls, Waiting(c, "buildProject")
  PROVE  /\ Built(c) \in Builds
         /\ (mvp.scope \union accepted) \subseteq Built(c).criteria
<1>1. "buildProject" \in Stages \ {"idle", "designTests"}
  BY DEF Stages
<1>2. calls[c] \in Slots /\ calls[c].criteria = EffectiveCriteria(mvp)
  BY <1>1, Restores DEF Placed, Waiting
<1>3. Built(c) \in Builds /\ Built(c).criteria = EffectiveCriteria(mvp)
  BY <1>2 DEF Slots, Built, Builds
<1>4. /\ mvp.scope \subseteq Criteria /\ accepted \subseteq Criteria
      /\ mvp.status # "INACTIVE" => accepted \subseteq mvp.scope
  BY DEF MvpInv, BlockOK, Blocks
<1> QED BY <1>3, <1>4 DEF EffectiveCriteria

\* Files of two builds: what both were made for is still there.
LEMMA OverwrittenKeeps ==
  ASSUME NEW old \in Builds, NEW new \in Builds, NEW made \in Overwritten(old, new)
  PROVE  /\ made \in Builds
         /\ old.criteria \intersect new.criteria \subseteq made.criteria
<1>1. Mixed(old, new) \in Builds
      /\ Mixed(old, new).criteria = old.criteria \intersect new.criteria
  BY DEF Mixed, Builds
<1>2. made \in {old, new, Mixed(old, new)}
  BY DEF Overwritten
<1> QED BY <1>1, <1>2

\* A build over which a kept attempt is put, if there is one: what both were
\* made for is still there.
LEMMA RestoredKeeps ==
  ASSUME NEW artifacts, NEW l, artifacts[l].best \subseteq Builds,
         NEW current \in Builds, NEW made \in Restored(artifacts, l, current),
         NEW owed, owed \subseteq current.criteria,
         \A b \in artifacts[l].best : owed \subseteq b.criteria
  PROVE  made \in Builds /\ owed \subseteq made.criteria
<1>1. CASE made = current
  BY <1>1
<1>2. CASE made # current
  <2>1. PICK b \in artifacts[l].best : made \in Overwritten(current, b)
    BY <1>2 DEF Restored, BestAttempt
  <2> QED BY <2>1, OverwrittenKeeps
<1> QED BY <1>1, <1>2

LEMMA RestoredTyped ==
  ASSUME NEW artifacts, NEW l, artifacts[l].best \subseteq Builds,
         NEW current \in Builds
  PROVE  Restored(artifacts, l, current) \subseteq Builds
<1>1. \A b \in artifacts[l].best : Overwritten(current, b) \subseteq Builds
  BY OverwrittenKeeps
<1> QED BY <1>1 DEF Restored, BestAttempt

\* The attempts kept of the loop in use.
LEMMA KeptTyped ==
  ASSUME BlockOK
  PROVE  /\ disk[mvp.loop].best \subseteq Builds
         /\ \A b \in disk[mvp.loop].best : mvp.scope \subseteq b.criteria
BY DEF BlockOK, Blocks, Artifacts

LEMMA NothingKeeps ==
  ASSUME SliceInv, UNCHANGED <<mvp, orch, disk, files, mvpHistory>>
  PROVE  SliceInv' /\ Edge
<1>1. LoopsOK'
  BY LoopsStay DEF SliceInv
<1>2. BlockOK'
  BY DEF SliceInv, BlockOK, mvpHistory, AcceptedKept, FailingAcceptanceMarked
<1> QED BY <1>1, <1>2 DEF SliceInv, Edge

LEMMA DeriveScopeKeeps ==
  ASSUME MvpInv, NEW c \in Calls, DeriveScope(c)
  PROVE  SliceInv' /\ Edge
<1> USE DEF MvpInv
<1>1. /\ calls[c].saved = mvp /\ mvp \in Blocks /\ mvp.status = "INACTIVE"
  <2>1. "deriveScope" \in Stages \ {"idle", "designTests"}
    BY DEF Stages
  <2> QED BY <2>1, Restores DEF DeriveScope, Placed, Waiting
<1>2. PICK scope \in SUBSET Criteria :
        /\ disk' = disk \/ disk' = [disk EXCEPT ![mvp.loop].scope = scope]
        /\ \/ mvp' = mvp
           \/ /\ disk' = [disk EXCEPT ![mvp.loop].scope = scope]
              /\ mvp' = [mvp EXCEPT !.status = "SCOPE_DERIVED", !.scope = scope]
        /\ orch' = orch /\ files' = files /\ accepted' = accepted
        /\ signed' = signed /\ unseen' = unseen
  BY <1>1 DEF DeriveScope, mvpHistory
<1> DEFINE a == [disk[mvp.loop] EXCEPT !.scope = scope]
<1>3. /\ disk \in [LoopIds -> Artifacts] /\ mvp.loop \in LoopIds
      /\ disk[mvp.loop].spec
  BY DEF BlockOK, Blocks
<1>4. a \in Artifacts /\ a.spec /\ a.scope = scope
      /\ a.best = disk[mvp.loop].best
  BY <1>3 DEF Artifacts
<1>5. [disk EXCEPT ![mvp.loop].scope = scope] = [disk EXCEPT ![mvp.loop] = a]
  BY <1>3
<1> HIDE DEF a
<1>6. /\ disk' \in [LoopIds -> Artifacts] /\ disk'[mvp.loop].spec
      /\ disk'[mvp.loop].best = disk[mvp.loop].best
  BY <1>2, <1>3, <1>4, <1>5
<1>7. CASE mvp' = mvp
  <2>1. LoopsOK'
    BY <1>2, <1>7, LoopsStay
  <2>2. FailingAcceptanceMarked'
    BY <1>2, <1>7, MarkStays
  <2>3. BlockOK'
    <3>1. files' \in Builds /\ signed' \in [LoopIds -> Reports] /\ unseen' \in [LoopIds -> 0 .. 2]
      BY <1>2 DEF BlockOK
    <3> QED BY <1>1, <1>2, <1>6, <1>7, <2>2, <3>1, BlockKept
  <2> QED BY <1>7, <2>1, <2>3 DEF Edge, SliceInv
<1>8. CASE mvp' # mvp
  <2>1. /\ mvp' \in Blocks /\ mvp'.status = "SCOPE_DERIVED"
        /\ mvp'.scope = scope /\ mvp'.loop = mvp.loop /\ mvp'.index = mvp.index
    BY <1>1, <1>2, <1>8 DEF Blocks, Statuses
  <2>2. disk'[mvp.loop].scope = scope
    BY <1>2, <1>3, <1>4, <1>5, <1>8
  <2>3. LoopsOK'
    BY <1>2, <2>1, LoopsStay
  <2>4. accepted = {} /\ disk'[mvp.loop].best = {}
        /\ orch'[mvp.loop].state = "TEST_DESIGN"
    BY <1>1, <1>2, <1>3, <1>4, <1>5, <1>8 DEF BlockOK
  <2>5. BlockOK'
    BY <1>2, <1>6, <2>1, <2>2, <2>4
       DEF BlockOK, AcceptedKept, FailingAcceptanceMarked
  <2> QED BY <1>1, <2>1, <2>3, <2>5 DEF Edge, SliceInv, MvpTransitions
<1> QED BY <1>7, <1>8

\* The plan is written, or not, and the loop moves.
LEMMA DesignTestsKeeps ==
  ASSUME MvpInv, NEW c \in Calls, DesignTests(c)
  PROVE  SliceInv' /\ Edge
<1> USE DEF MvpInv
<1>1. /\ calls[c].saved.loop = mvp.loop /\ calls[c].criteria \in SUBSET Criteria
      /\ mvp.status # "INACTIVE"
  BY Waiter DEF DesignTests, Waiting, Idle, Slots, Placed
<1>2. /\ mvp' = mvp /\ files' = files /\ accepted' = accepted
      /\ signed' = signed /\ unseen' = unseen
      /\ disk' = disk \/ disk' = [disk EXCEPT ![mvp.loop].plan = calls[c].criteria]
  BY <1>1 DEF DesignTests, mvpHistory
<1>3. LoopsOK' /\ orch'[mvp.loop].state \in {"BUILDER", orch[mvp.loop].state}
  <2>1. "BUILDER" \in OpenStates
    BY OpenStatesListed
  <2> QED BY <1>1, <1>2, <2>1, AdvanceMoves DEF DesignTests
<1> DEFINE a == [disk[mvp.loop] EXCEPT !.plan = calls[c].criteria]
<1>4. disk \in [LoopIds -> Artifacts] /\ mvp.loop \in LoopIds /\ disk[mvp.loop].spec
  BY DEF BlockOK, Blocks
<1>5. /\ a \in Artifacts /\ a.spec /\ a.scope = disk[mvp.loop].scope
      /\ a.best = disk[mvp.loop].best
  BY <1>1, <1>4 DEF Artifacts
<1>6. [disk EXCEPT ![mvp.loop].plan = calls[c].criteria] = [disk EXCEPT ![mvp.loop] = a]
  BY <1>4
<1> HIDE DEF a
<1>7. /\ disk' \in [LoopIds -> Artifacts] /\ disk'[mvp.loop].spec
      /\ disk'[mvp.loop].scope = disk[mvp.loop].scope
      /\ disk'[mvp.loop].best = disk[mvp.loop].best
  BY <1>2, <1>4, <1>5, <1>6
<1>8. FailingAcceptanceMarked'
  BY <1>2, MarkStays
<1>9. BlockOK'
  <2>1. /\ mvp' \in Blocks /\ files' \in Builds
        /\ signed' \in [LoopIds -> Reports] /\ unseen' \in [LoopIds -> 0 .. 2]
    BY <1>2 DEF BlockOK
  <2> QED BY <1>1, <1>2, <1>3, <1>7, <1>8, <2>1, BlockKept
<1> QED BY <1>2, <1>3, <1>9 DEF Edge, SliceInv

LEMMA BuildKeeps ==
  ASSUME MvpInv, NEW c \in Calls,
         FinishBuild(c) \/ FailBuild(c) \/ RejectRebuild(c)
  PROVE  SliceInv' /\ Edge
<1> USE DEF MvpInv
<1>0. Waiting(c, "buildProject") /\ disk' = disk
      /\ accepted' = accepted /\ signed' = signed /\ unseen' = unseen
  BY DEF FinishBuild, FailBuild, RejectRebuild, mvpHistory
<1>1. calls[c].saved = mvp /\ mvp \in Blocks /\ mvp.status # "INACTIVE"
  <2>1. "buildProject" \in Stages \ {"idle", "designTests"}
    BY DEF Stages
  <2> QED BY <1>0, <2>1, Restores DEF Placed, Waiting
<1>2. \/ mvp' = mvp
      \/ /\ mvp.status = "SCOPE_DERIVED" /\ FinishBuild(c)
         /\ mvp' = [mvp EXCEPT !.status = "BUILDING"]
  BY Saves DEF FinishBuild, FirstBuild, FailBuild, RejectRebuild
<1>3. /\ mvp' \in Blocks /\ mvp'.loop = mvp.loop /\ mvp'.scope = mvp.scope
      /\ mvp'.index = mvp.index /\ mvp'.failing = mvp.failing
      /\ \/ mvp'.status = mvp.status
         \/ /\ mvp.status = "SCOPE_DERIVED" /\ mvp'.status = "BUILDING"
            /\ FinishBuild(c)
  BY <1>1, <1>2, Restatus DEF Statuses
<1>4. /\ LoopsOK'
      /\ orch'[mvp.loop].state = orch[mvp.loop].state \/ FinishBuild(c)
  <2>1. CASE FinishBuild(c)
    <3>1. "RUN_TESTS" \in OpenStates
      BY OpenStatesListed
    <3> QED BY <1>1, <1>3, <2>1, <3>1, AdvanceMoves DEF FinishBuild
  <2>2. CASE FailBuild(c) \/ RejectRebuild(c)
    BY <1>3, <2>2, LoopsStay DEF FailBuild, RejectRebuild
  <2> QED BY <2>1, <2>2
<1>5. /\ Built(c) \in Builds
      /\ (mvp.scope \union accepted) \subseteq Built(c).criteria
  BY <1>0, BuiltCovers
<1>6. /\ files' \in Builds
      /\ \A k \in mvp.scope \union accepted :
           k \in files.criteria => k \in files'.criteria
      /\ FinishBuild(c) => mvp.scope \subseteq files'.criteria
  <2>1. CASE FinishBuild(c)
    BY <1>5, <2>1 DEF FinishBuild
  <2>2. CASE FailBuild(c) /\ ~FinishBuild(c)
    <3>1. files' \in Overwritten(files, Built(c)) /\ files \in Builds
      BY <2>2 DEF FailBuild, BlockOK
    <3>2. /\ files' \in Builds
          /\ files.criteria \intersect Built(c).criteria \subseteq files'.criteria
      BY <1>5, <3>1, OverwrittenKeeps
    <3> QED BY <1>5, <2>2, <3>2
  <2>3. CASE RejectRebuild(c) /\ ~FinishBuild(c)
    <3> DEFINE owed == mvp.scope \union accepted
    <3>1. files' \in Restored(disk, mvp.loop, Built(c))
      BY <1>1, <2>3 DEF RejectRebuild
    <3>2. accepted \subseteq mvp.scope
      BY <1>1 DEF BlockOK
    <3>3. disk[mvp.loop].best \subseteq Builds
          /\ \A b \in disk[mvp.loop].best : owed \subseteq b.criteria
      BY <3>2, KeptTyped
    <3>4. owed \subseteq Built(c).criteria
      BY <1>5
    <3> HIDE DEF owed
    <3>5. files' \in Builds /\ owed \subseteq files'.criteria
      BY <1>5, <3>1, <3>3, <3>4, RestoredKeeps
    <3> QED BY <2>3, <3>5 DEF owed
  <2> QED BY <2>1, <2>2, <2>3
<1>7. FailingAcceptanceMarked'
  BY <1>0, <1>3, MarkStays
<1>8. BlockOK'
  <2>1. /\ disk' \in [LoopIds -> Artifacts] /\ disk'[mvp.loop].spec
        /\ disk'[mvp.loop].scope = disk[mvp.loop].scope
        /\ signed' \in [LoopIds -> Reports] /\ unseen' \in [LoopIds -> 0 .. 2]
    BY <1>0 DEF BlockOK
  <2>2. mvp.status = "SCOPE_DERIVED" /\ mvp'.status # "SCOPE_DERIVED" =>
          mvp.scope \subseteq files'.criteria
    BY <1>3, <1>6
  <2>3. mvp'.status = "INACTIVE" <=> mvp.status = "INACTIVE"
    BY <1>3
  <2>4. \/ orch'[mvp.loop].state = orch[mvp.loop].state
        \/ /\ mvp.status # "INACTIVE"
           /\ orch'[mvp.loop].state = "RUN_TESTS" => mvp.scope \subseteq files'.criteria
    BY <1>1, <1>4, <1>6
  <2> QED BY <1>0, <1>3, <1>6, <1>7, <2>1, <2>2, <2>3, <2>4, BlockKept
<1> QED BY <1>3, <1>4, <1>8 DEF Edge, SliceInv, MvpTransitions

\* Artifacts of a slice under test: those on file, perhaps with another
\* attempt kept that was made for the scope.
Carries(artifacts) ==
  /\ artifacts \in [LoopIds -> Artifacts]
  /\ artifacts[mvp.loop].spec
  /\ artifacts[mvp.loop].scope = disk[mvp.loop].scope
  /\ \A b \in artifacts[mvp.loop].best : mvp.scope \subseteq b.criteria

\* The snapshot of a failing attempt.
LEMMA SnapshotKept ==
  ASSUME MvpInv, orch[mvp.loop].state = "RUN_TESTS",
         NEW kept \in Snapshots(disk[mvp.loop].best),
         NEW artifacts, artifacts = [disk EXCEPT ![mvp.loop].best = kept]
  PROVE  /\ Carries(artifacts)
         /\ artifacts[mvp.loop] = [disk[mvp.loop] EXCEPT !.best = kept]
         /\ artifacts[mvp.loop].best = kept /\ kept \subseteq Builds
<1> USE DEF MvpInv
<1>1. /\ disk \in [LoopIds -> Artifacts] /\ mvp.loop \in LoopIds
      /\ disk[mvp.loop].spec /\ files \in Builds
      /\ mvp.scope \subseteq files.criteria
  BY DEF BlockOK, Blocks
<1>2. /\ kept \subseteq Builds /\ \A b \in kept : mvp.scope \subseteq b.criteria
  BY <1>1, KeptTyped DEF Snapshots
<1> DEFINE a == [disk[mvp.loop] EXCEPT !.best = kept]
<1>3. /\ a \in Artifacts /\ a.spec /\ a.scope = disk[mvp.loop].scope
      /\ a.best = kept
  BY <1>1, <1>2 DEF Artifacts
<1>4. artifacts = [disk EXCEPT ![mvp.loop] = a]
  BY <1>1
<1>5. a = [disk[mvp.loop] EXCEPT !.best = kept]
  OBVIOUS
<1> HIDE DEF a
<1>6. artifacts \in [LoopIds -> Artifacts] /\ artifacts[mvp.loop] = a
  BY <1>1, <1>3, <1>4
<1> QED BY <1>2, <1>3, <1>5, <1>6 DEF Carries

\* The report is written and the owner asked, or part of it, or nothing.
LEMMA ReviewEntered ==
  ASSUME MvpInv, NEW c \in Calls, Waiting(c, "runTests"), AwaitsOwner(c),
         NEW kind \in Reports, NEW artifacts, Carries(artifacts),
         EnterOwnerReview(c, kind, artifacts),
         orch' = orch, files' = files, accepted' = accepted, signed' = signed
  PROVE  SliceInv' /\ Edge
<1> USE DEF MvpInv
<1>1. calls[c].saved = mvp /\ mvp \in Blocks /\ mvp.status = "BUILDING"
  <2>1. "runTests" \in Stages \ {"idle", "designTests"}
    BY DEF Stages
  <2> QED BY <2>1, Restores DEF AwaitsOwner
<1>2. /\ disk' = artifacts \/ disk' = [artifacts EXCEPT ![mvp.loop].report = kind]
      /\ mvp' = mvp \/ mvp' = [mvp EXCEPT !.status = "AWAITING_OWNER_REVIEW"]
      /\ unseen' = unseen \/ unseen' = [unseen EXCEPT ![mvp.loop] = 0]
  BY <1>1, Saves DEF EnterOwnerReview
<1>3. /\ mvp' \in Blocks /\ mvp'.loop = mvp.loop /\ mvp'.scope = mvp.scope
      /\ mvp'.index = mvp.index /\ mvp'.failing = mvp.failing
      /\ mvp'.status \in {"BUILDING", "AWAITING_OWNER_REVIEW"}
  BY <1>1, <1>2, Restatus DEF Statuses
<1> DEFINE a == [artifacts[mvp.loop] EXCEPT !.report = kind]
<1>4. artifacts \in [LoopIds -> Artifacts] /\ mvp.loop \in LoopIds
  BY DEF BlockOK, Blocks, Carries
<1>5. /\ a \in Artifacts /\ a.spec = artifacts[mvp.loop].spec
      /\ a.scope = artifacts[mvp.loop].scope /\ a.best = artifacts[mvp.loop].best
  BY <1>4 DEF Artifacts
<1>6. [artifacts EXCEPT ![mvp.loop].report = kind] = [artifacts EXCEPT ![mvp.loop] = a]
  BY <1>4
<1> HIDE DEF a
<1>7. /\ disk' \in [LoopIds -> Artifacts]
      /\ disk'[mvp.loop].spec = artifacts[mvp.loop].spec
      /\ disk'[mvp.loop].scope = artifacts[mvp.loop].scope
      /\ disk'[mvp.loop].best = artifacts[mvp.loop].best
  BY <1>2, <1>4, <1>5, <1>6
<1>8. Carries(disk')
  BY <1>7 DEF Carries
<1>9. FailingAcceptanceMarked'
  BY <1>3, MarkStays
<1>10. unseen' \in [LoopIds -> 0 .. 2]
  <2>1. 0 \in 0 .. 2
    OBVIOUS
  <2> QED BY <1>2, <2>1 DEF BlockOK
<1>11. BlockOK'
  <2>1. files' \in Builds /\ signed' \in [LoopIds -> Reports]
    BY DEF BlockOK
  <2> QED BY <1>1, <1>3, <1>8, <1>9, <1>10, <2>1, BlockKept DEF Carries
<1>12. LoopsOK'
  BY <1>3, LoopsStay
<1> QED BY <1>1, <1>3, <1>11, <1>12 DEF Edge, SliceInv, MvpTransitions

\* A step of a slice under test that changes no more than the state of its
\* loop, the status, the attempt kept, the files and the count of failing runs.
LEMMA StatusKeeps ==
  ASSUME SliceInv, LoopsOK', Edge, mvp.status # "INACTIVE",
         mvp' = mvp \/ (mvp.status = "BUILDING"
                        /\ mvp' = [mvp EXCEPT !.status = "CAP_REACHED"]),
         orch'[mvp.loop].state \in States \ {"RUN_TESTS"}
           \/ orch'[mvp.loop].state = orch[mvp.loop].state,
         Carries(disk'), files' \in Builds,
         \A k \in mvp.scope \union accepted :
           k \in files.criteria => k \in files'.criteria,
         accepted' = accepted, signed' = signed,
         unseen' \in [LoopIds -> 0 .. 2]
  PROVE  SliceInv'
<1> USE DEF SliceInv
<1>1. mvp \in Blocks
  BY DEF BlockOK
<1>2. /\ mvp' \in Blocks /\ mvp'.loop = mvp.loop /\ mvp'.scope = mvp.scope
      /\ mvp'.failing = mvp.failing
      /\ \/ mvp'.status = mvp.status
         \/ mvp.status = "BUILDING" /\ mvp'.status = "CAP_REACHED"
  BY <1>1, Restatus DEF Statuses
<1>3. FailingAcceptanceMarked'
  BY <1>2, MarkStays
<1>4. /\ disk' \in [LoopIds -> Artifacts] /\ disk'[mvp.loop].spec
      /\ disk'[mvp.loop].scope = disk[mvp.loop].scope
      /\ \A b \in disk'[mvp.loop].best : mvp.scope \subseteq b.criteria
  BY DEF Carries
<1>5. signed' \in [LoopIds -> Reports]
  BY DEF BlockOK
<1>6. mvp'.status = "INACTIVE" <=> mvp.status = "INACTIVE"
  BY <1>2
<1>7. \/ orch'[mvp.loop].state = orch[mvp.loop].state
      \/ orch'[mvp.loop].state # "RUN_TESTS"
  OBVIOUS
<1> QED BY <1>2, <1>3, <1>4, <1>5, <1>6, <1>7, BlockKept

LEMMA TestsKeep ==
  ASSUME MvpInv, NEW c \in Calls, TestsPass(c) \/ TestsFail(c)
  PROVE  SliceInv' /\ Edge
<1> USE DEF MvpInv
<1>0. Waiting(c, "runTests") /\ accepted' = accepted /\ signed' = signed
  BY DEF TestsPass, TestsFail
<1>1. /\ calls[c].saved = mvp /\ mvp \in Blocks /\ mvp.status # "INACTIVE"
      /\ orch[mvp.loop].state = "RUN_TESTS"
  <2>1. "runTests" \in Stages \ {"idle", "designTests"}
    BY DEF Stages
  <2> QED BY <1>0, <2>1, Restores DEF Placed, Waiting
<1>2. Carries(disk) /\ files \in Builds
  BY KeptTyped DEF BlockOK, Carries
<1>3. CASE TestsPass(c) /\ AwaitsOwner(c)
  <2>1. "PASS_REVIEW" \in Reports
    BY DEF Reports
  <2> QED BY <1>0, <1>2, <1>3, <2>1, ReviewEntered DEF TestsPass
<1>4. CASE TestsPass(c) /\ ~AwaitsOwner(c)
  <2>1. mvp' = mvp /\ disk' = disk /\ unseen' = unseen /\ files' = files
    BY <1>4 DEF TestsPass
  <2>2. /\ LoopsOK'
        /\ orch'[mvp.loop].state \in {"REVIEWER_CODE_AND_SECURITY", orch[mvp.loop].state}
    <3>1. "REVIEWER_CODE_AND_SECURITY" \in OpenStates
      BY OpenStatesListed
    <3> QED BY <1>1, <1>4, <2>1, <3>1, AdvanceMoves DEF TestsPass
  <2>3. Edge /\ unseen' \in [LoopIds -> 0 .. 2]
    BY <2>1 DEF Edge, BlockOK
  <2>4. orch'[mvp.loop].state \in States \ {"RUN_TESTS"}
          \/ orch'[mvp.loop].state = orch[mvp.loop].state
    BY <2>2 DEF States, ForwardStates
  <2> QED BY <1>0, <1>1, <1>2, <2>1, <2>2, <2>3, <2>4, StatusKeeps DEF SliceInv
<1>5. CASE TestsFail(c)
  <2>1. PICK kept \in Snapshots(disk[mvp.loop].best) :
          \/ /\ OwnerArbitrates(c)
             /\ EnterOwnerReview(c, "FAIL_REVIEW", [disk EXCEPT ![mvp.loop].best = kept])
             /\ UNCHANGED <<orch, files>>
          \/ /\ disk' = [disk EXCEPT ![mvp.loop].best = kept]
             /\ \E after : Moves(mvp.loop, Tools!LoopBack(orch[mvp.loop]), after)
             /\ \/ UNCHANGED <<mvp, files>>
                \/ Escalated(c, [disk EXCEPT ![mvp.loop].best = kept])
             /\ \/ unseen' = unseen
                \/ unseen' = [unseen EXCEPT ![mvp.loop] = IF @ < 2 THEN @ + 1 ELSE 2]
    BY <1>1, <1>5 DEF TestsFail
  <2>2. PICK artifacts : artifacts = [disk EXCEPT ![mvp.loop].best = kept]
    OBVIOUS
  <2>3. /\ Carries(artifacts) /\ artifacts[mvp.loop].best \subseteq Builds
    BY <1>1, <2>2, SnapshotKept
  <2>4. CASE /\ OwnerArbitrates(c) /\ EnterOwnerReview(c, "FAIL_REVIEW", artifacts)
             /\ UNCHANGED <<orch, files>>
    <3>1. "FAIL_REVIEW" \in Reports
      BY DEF Reports
    <3> QED BY <1>0, <2>3, <2>4, <3>1, ReviewEntered DEF OwnerArbitrates
  <2>5. CASE /\ disk' = artifacts
             /\ \E after : Moves(mvp.loop, Tools!LoopBack(orch[mvp.loop]), after)
             /\ UNCHANGED <<mvp, files>> \/ Escalated(c, artifacts)
             /\ \/ unseen' = unseen
                \/ unseen' = [unseen EXCEPT ![mvp.loop] = IF @ < 2 THEN @ + 1 ELSE 2]
    <3>1. \/ mvp' = mvp
          \/ /\ mvp.status = "BUILDING"
             /\ mvp' = [mvp EXCEPT !.status = "CAP_REACHED"]
      BY <2>5, Saves DEF Escalated
    <3>2. /\ mvp'.loop = mvp.loop /\ mvp'.index = mvp.index
          /\ \/ mvp'.status = mvp.status
             \/ mvp.status = "BUILDING" /\ mvp'.status = "CAP_REACHED"
      BY <1>1, <3>1, Restatus DEF Statuses
    <3>3. /\ LoopsOK'
          /\ orch'[mvp.loop].state \in {"BUILDER", "ESCALATED", orch[mvp.loop].state}
      BY <2>5, <3>2, BackMoves
    <3>4. Edge
      BY <3>2 DEF Edge, MvpTransitions
    <3>5. unseen' \in [LoopIds -> 0 .. 2]
      <4>1. \A n \in 0 .. 2 : (IF n < 2 THEN n + 1 ELSE 2) \in 0 .. 2
        OBVIOUS
      <4>2. unseen \in [LoopIds -> 0 .. 2]
        BY DEF BlockOK
      <4> QED BY <2>5, <4>1, <4>2
    <3>6. /\ files' \in Builds
          /\ \A k \in mvp.scope \union accepted :
               k \in files.criteria => k \in files'.criteria
      <4> DEFINE owed == mvp.scope \union accepted
      <4>1. CASE files' = files
        BY <1>2, <4>1
      <4>2. CASE Escalated(c, artifacts)
        <5>1. files' \in Restored(artifacts, mvp.loop, files)
          BY <1>1, <4>2 DEF Escalated
        <5>2. accepted \subseteq mvp.scope /\ mvp.scope \subseteq files.criteria
          BY <1>1 DEF BlockOK
        <5>3. /\ owed \subseteq files.criteria
              /\ \A b \in artifacts[mvp.loop].best : owed \subseteq b.criteria
          BY <2>3, <5>2 DEF Carries
        <5> HIDE DEF owed
        <5>4. files' \in Builds /\ owed \subseteq files'.criteria
          BY <1>2, <2>3, <5>1, <5>3, RestoredKeeps
        <5> QED BY <5>4 DEF owed
      <4> QED BY <2>5, <4>1, <4>2
    <3>7. orch'[mvp.loop].state \in States \ {"RUN_TESTS"}
            \/ orch'[mvp.loop].state = orch[mvp.loop].state
      BY <3>3 DEF States, ForwardStates, TerminalStates
    <3>8. Carries(disk')
      BY <2>3, <2>5
    <3> QED BY <1>0, <1>1, <3>1, <3>3, <3>4, <3>5, <3>6, <3>7, <3>8, StatusKeeps
            DEF SliceInv
  <2> QED BY <2>1, <2>2, <2>4, <2>5
<1> QED BY <1>3, <1>4, <1>5

\* The owner is asked again.
LEMMA UnclearKeeps ==
  ASSUME MvpInv, NEW c \in Calls, ReplyUnclear(c)
  PROVE  SliceInv' /\ Edge
<1>1. calls[c].saved = mvp
  <2>1. "ownerReview" \in Stages \ {"idle", "designTests"}
    BY DEF Stages
  <2> QED BY <2>1, Restores DEF ReplyUnclear
<1>2. mvp' = mvp
  BY <1>1, Saves DEF ReplyUnclear
<1> QED BY <1>2, NothingKeeps DEF ReplyUnclear, MvpInv, SliceInv

\* The acceptance is recorded and the loop moves, or part of it.
LEMMA AcceptKeeps ==
  ASSUME MvpInv, NEW c \in Calls, ReplyAccept(c)
  PROVE  SliceInv' /\ Edge
<1> USE DEF MvpInv
<1>1. /\ calls[c].saved = mvp /\ mvp \in Blocks
      /\ mvp.status = "AWAITING_OWNER_REVIEW" /\ calls[c].report \in Reports
  <2>1. "ownerReview" \in Stages \ {"idle", "designTests"}
    BY DEF Stages
  <2> QED BY <2>1, Restores DEF ReplyAccept, Placed, Waiting, Slots
<1>2. PICK decision \in {"ACCEPT", "ACCEPT_WITH_FAILING_TESTS"},
           after \in Tools!Outcomes(orch[mvp.loop],
                       AdvanceTo(mvp.loop, "REVIEWER_CODE_AND_SECURITY")) :
        /\ Informed(decision, calls[c].report)
        /\ Moves(mvp.loop, AdvanceTo(mvp.loop, "REVIEWER_CODE_AND_SECURITY"), after)
        /\ \/ mvp' = mvp /\ accepted' = accepted /\ signed' = signed
           \/ /\ SaveState([mvp EXCEPT !.status  = StatusAfter(@, "ACCEPTED"),
                                       !.failing = @ \/ decision # "ACCEPT"])
              /\ accepted' = accepted \union mvp.scope
              /\ signed' = [signed EXCEPT ![mvp.loop] = calls[c].report]
        /\ disk' = disk /\ files' = files /\ unseen' = unseen
  BY <1>1 DEF ReplyAccept
<1>3. StatusAfter(mvp.status, "ACCEPTED") = "ACCEPTED"
  BY <1>1 DEF StatusAfter, MvpTransitions
<1>4. PICK failing \in BOOLEAN :
        /\ failing = (mvp.failing \/ decision # "ACCEPT")
        /\ \/ mvp' = mvp
           \/ mvp' = [mvp EXCEPT !.status = "ACCEPTED", !.failing = failing]
        /\ mvp' # mvp => signed' = [signed EXCEPT ![mvp.loop] = calls[c].report]
  <2>1. PICK failing \in BOOLEAN : failing = (mvp.failing \/ decision # "ACCEPT")
    OBVIOUS
  <2>2. [mvp EXCEPT !.status  = StatusAfter(@, "ACCEPTED"),
                    !.failing = @ \/ decision # "ACCEPT"]
          = [mvp EXCEPT !.status = "ACCEPTED", !.failing = failing]
    BY <1>3, <2>1
  <2> QED BY <1>2, <2>1, <2>2, Saves
<1>5. /\ mvp' \in Blocks /\ mvp'.loop = mvp.loop /\ mvp'.scope = mvp.scope
      /\ mvp'.index = mvp.index
      /\ \/ mvp' = mvp
         \/ mvp'.status = "ACCEPTED" /\ mvp'.failing = failing
  BY <1>1, <1>4 DEF Blocks, Statuses
<1>6. /\ LoopsOK'
      /\ orch'[mvp.loop].state \in {"REVIEWER_CODE_AND_SECURITY", orch[mvp.loop].state}
  <2>1. "REVIEWER_CODE_AND_SECURITY" \in OpenStates
    BY OpenStatesListed
  <2> QED BY <1>2, <1>5, <2>1, AdvanceMoves
<1>7. FailingAcceptanceMarked'
  <2>1. SUFFICES ASSUME mvp'.status = "ACCEPTED", signed'[mvp'.loop] = "FAIL_REVIEW"
                 PROVE  mvp'.failing
    BY DEF FailingAcceptanceMarked
  <2>2. mvp' # mvp
    BY <1>1, <2>1
  <2>3. calls[c].report = "FAIL_REVIEW"
    BY <1>1, <1>4, <1>5, <2>1, <2>2 DEF BlockOK, Blocks
  <2>4. decision # "ACCEPT"
    BY <1>2, <2>3 DEF Informed
  <2>5. failing
    BY <1>4, <2>4
  <2> QED BY <1>5, <2>2, <2>5
<1>8. BlockOK'
  <2>1. /\ disk' \in [LoopIds -> Artifacts] /\ disk'[mvp.loop].spec
        /\ disk'[mvp.loop].scope = disk[mvp.loop].scope
        /\ files' \in Builds /\ unseen' \in [LoopIds -> 0 .. 2]
        /\ signed' \in [LoopIds -> Reports]
    BY <1>1, <1>2 DEF BlockOK
  <2>2. mvp'.status # "INACTIVE" /\ mvp.status # "INACTIVE" /\ mvp.status # "SCOPE_DERIVED"
    BY <1>1, <1>5
  <2>3. orch'[mvp.loop].state = orch[mvp.loop].state
          \/ orch'[mvp.loop].state # "RUN_TESTS"
    BY <1>6
  <2> QED BY <1>1, <1>2, <1>5, <1>7, <2>1, <2>2, <2>3, BlockKept
<1>9. Edge
  BY <1>1, <1>5 DEF Edge, MvpTransitions
<1> QED BY <1>6, <1>8, <1>9 DEF SliceInv

\* The request for changes is recorded, the loop goes back and the state is
\* saved, or part of it.
LEMMA RefineKeeps ==
  ASSUME MvpInv, NEW c \in Calls, ReplyRefine(c)
  PROVE  SliceInv' /\ Edge
<1> USE DEF MvpInv
<1>1. /\ calls[c].saved = mvp /\ mvp \in Blocks
      /\ mvp.status = "AWAITING_OWNER_REVIEW"
  <2>1. "ownerReview" \in Stages \ {"idle", "designTests"}
    BY DEF Stages
  <2> QED BY <2>1, Restores DEF ReplyRefine, Placed, Waiting
<1>2. /\ files' = files /\ accepted' = accepted /\ signed' = signed /\ unseen' = unseen
      /\ \/ mvp' = mvp /\ orch' = orch /\ disk' = disk
         \/ /\ disk' = [disk EXCEPT ![mvp.loop].feedback = @ + 1]
            /\ \E after :
                 /\ Moves(mvp.loop, Tools!LoopBack(orch[mvp.loop]), after)
                 /\ \/ mvp' = mvp
                    \/ SaveState([mvp EXCEPT !.status =
                         StatusAfter(@, IF after.state = "ESCALATED"
                                          THEN "CAP_REACHED" ELSE "BUILDING")])
  BY <1>1 DEF ReplyRefine, mvpHistory
<1>3. \A s \in {"CAP_REACHED", "BUILDING"} : StatusAfter(mvp.status, s) = s
  BY <1>1 DEF StatusAfter, MvpTransitions
<1>4. \/ mvp' = mvp
      \/ \E s \in {"CAP_REACHED", "BUILDING"} : mvp' = [mvp EXCEPT !.status = s]
  <2>1. CASE mvp' = mvp
    BY <2>1
  <2>2. CASE mvp' # mvp
    <3>1. PICK after : mvp' = [mvp EXCEPT !.status =
            StatusAfter(@, IF after.state = "ESCALATED" THEN "CAP_REACHED" ELSE "BUILDING")]
      BY <1>2, <2>2, Saves
    <3> QED BY <1>3, <3>1
  <2> QED BY <2>1, <2>2
<1>5. /\ mvp' \in Blocks /\ mvp'.loop = mvp.loop /\ mvp'.scope = mvp.scope
      /\ mvp'.index = mvp.index /\ mvp'.failing = mvp.failing
      /\ mvp'.status \in {"AWAITING_OWNER_REVIEW", "CAP_REACHED", "BUILDING"}
  BY <1>1, <1>4, Restatus DEF Statuses
<1>6. /\ LoopsOK'
      /\ orch'[mvp.loop].state \in {"BUILDER", "ESCALATED", orch[mvp.loop].state}
  <2>1. CASE orch' = orch
    BY <1>5, <2>1, LoopsStay
  <2>2. CASE orch' # orch
    BY <1>2, <1>5, <2>2, BackMoves
  <2> QED BY <2>1, <2>2
<1>7. FailingAcceptanceMarked'
  BY <1>2, <1>5, MarkStays
<1> DEFINE a == [disk[mvp.loop] EXCEPT !.feedback = @ + 1]
<1>8. disk \in [LoopIds -> Artifacts] /\ mvp.loop \in LoopIds /\ disk[mvp.loop].spec
  BY <1>1 DEF BlockOK, Blocks
<1>9. /\ a \in Artifacts /\ a.spec /\ a.scope = disk[mvp.loop].scope
      /\ a.best = disk[mvp.loop].best
  BY <1>8 DEF Artifacts
<1>10. [disk EXCEPT ![mvp.loop].feedback = @ + 1] = [disk EXCEPT ![mvp.loop] = a]
  BY <1>8
<1> HIDE DEF a
<1>11. /\ disk' \in [LoopIds -> Artifacts] /\ disk'[mvp.loop].spec
       /\ disk'[mvp.loop].scope = disk[mvp.loop].scope
       /\ disk'[mvp.loop].best = disk[mvp.loop].best
  BY <1>2, <1>8, <1>9, <1>10
<1>12. BlockOK'
  <2>1. files' \in Builds /\ signed' \in [LoopIds -> Reports] /\ unseen' \in [LoopIds -> 0 .. 2]
    BY <1>2 DEF BlockOK
  <2>2. orch'[mvp.loop].state = orch[mvp.loop].state
          \/ orch'[mvp.loop].state # "RUN_TESTS"
    BY <1>6
  <2> QED BY <1>1, <1>2, <1>5, <1>7, <1>11, <2>1, <2>2, BlockKept
<1> QED BY <1>1, <1>5, <1>6, <1>12 DEF Edge, SliceInv, MvpTransitions

LEMMA RebuiltFinite == ASSUME LoopsOK PROVE IsFiniteSet(Rebuilt)
<1>1. 1 \in Int /\ MaxLoops \in Int
  BY MvpAssumption
<1>2. IsFiniteSet(1 .. MaxLoops)
  BY <1>1, FS_Interval
<1>3. Rebuilt \subseteq 1 .. MaxLoops
  BY DEF LoopsOK, Rebuilt, LoopIds
<1> QED BY <1>2, <1>3, FS_Subset

\* A new loop that is not in use, and has no charge.
LEMMA LoopAdded ==
  ASSUME LoopsOK, NEW l \in LoopIds, orch[l].file = "absent",
         NEW part \in Dirs, part.count = 0,
         orch' = [orch EXCEPT ![l] = part], mvp' = mvp
  PROVE  LoopsOK'
<1>1. l # mvp.loop
  BY DEF LoopsOK
<1>2. orch' \in [LoopIds -> Dirs] /\ orch'[mvp.loop] = orch[mvp.loop]
  BY <1>1 DEF LoopsOK
<1>3. Rebuilt' \subseteq Rebuilt
  BY DEF LoopsOK, Rebuilt
<1>4. IsFiniteSet(Rebuilt)
  BY RebuiltFinite
<1>5. /\ Cardinality(Rebuilt') <= Cardinality(Rebuilt)
      /\ Cardinality(Rebuilt') \in Nat /\ Cardinality(Rebuilt) \in Nat
  BY <1>3, <1>4, FS_Subset, FS_CardinalityType
<1>6. Cardinality(Rebuilt') <= mvp'.index
  BY <1>5 DEF LoopsOK
<1> QED BY <1>2, <1>6 DEF LoopsOK

\* A further slice moves the project to a new loop, one slice further.
LEMMA SliceAdded ==
  ASSUME LoopsOK, NEW l \in LoopIds, orch[l].file = "absent",
         orch' = [orch EXCEPT ![l] = Walked[Len(SliceWalk)]],
         mvp'.loop = l, mvp'.index = mvp.index + 1, mvp.index < MaxSlices
  PROVE  LoopsOK'
<1>1. Len(SliceWalk) = 6 /\ SliceWalk[6] = "ENV_REPORT" /\ 6 \in 1 .. 6
  BY DEF SliceWalk
<1>2. /\ Walked[6] \in Dirs /\ Walked[6].file = "ok" /\ Walked[6].count = 0
      /\ Walked[6].state \in OpenStates
  BY <1>1, WalkedAt, OpenStatesListed
<1>3. orch' \in [LoopIds -> Dirs] /\ orch'[l] = Walked[6]
  BY <1>1, <1>2 DEF LoopsOK
<1>4. Rebuilt' \subseteq Rebuilt \union {l}
  BY DEF LoopsOK, Rebuilt
<1>5. IsFiniteSet(Rebuilt)
  BY RebuiltFinite
<1>6. /\ IsFiniteSet(Rebuilt \union {l})
      /\ Cardinality(Rebuilt \union {l}) <= Cardinality(Rebuilt) + 1
      /\ Cardinality(Rebuilt \union {l}) \in Nat /\ Cardinality(Rebuilt) \in Nat
  <2>1. Cardinality(Rebuilt) \in Nat
    BY <1>5, FS_CardinalityType
  <2>2. /\ IsFiniteSet(Rebuilt \union {l})
        /\ Cardinality(Rebuilt \union {l}) =
             IF l \in Rebuilt THEN Cardinality(Rebuilt) ELSE Cardinality(Rebuilt) + 1
    BY <1>5, FS_AddElement
  <2> QED BY <2>1, <2>2
<1>7. Cardinality(Rebuilt') <= Cardinality(Rebuilt \union {l}) /\ Cardinality(Rebuilt') \in Nat
  BY <1>4, <1>6, FS_Subset, FS_CardinalityType
<1>8. Cardinality(Rebuilt') <= mvp'.index /\ mvp'.index \in Nat /\ mvp'.index <= MaxSlices
  BY <1>6, <1>7, MvpAssumption DEF LoopsOK
<1> QED BY <1>2, <1>3, <1>8 DEF LoopsOK

\* A further slice is opened, or leaves a loop nobody uses.
LEMMA ReengageKeeps ==
  ASSUME MvpInv, NEW c \in Calls, Reengage(c)
  PROVE  SliceInv' /\ Edge
<1> USE DEF MvpInv
<1>1. /\ calls[c].saved = mvp /\ mvp \in Blocks
      /\ mvp.status = "ACCEPTED" /\ SliceAllowed(mvp)
  <2>1. "reengage" \in Stages \ {"idle", "designTests"}
    BY DEF Stages
  <2> QED BY <2>1, Restores DEF Reengage, Placed, Waiting
<1>2. PICK l \in LoopIds, scope \in NextScopes(mvp) :
        NewLoop(l) /\ OpenSlice(mvp, l, scope)
  BY <1>1 DEF Reengage
<1>3. /\ scope \in SUBSET Criteria /\ mvp.scope \subseteq scope
      /\ orch[l].file = "absent"
  BY <1>2 DEF NextScopes, ValidNextScope, ValidScope, NewLoop
<1>4. /\ files' = files /\ accepted' = accepted
      /\ signed' = signed /\ unseen' = unseen
  BY DEF Reengage, mvpHistory
<1>5. l # mvp.loop
  BY <1>3 DEF LoopsOK
<1>6. ASSUME mvp' = mvp, NEW part \in Dirs, part.count = 0,
             orch' = [orch EXCEPT ![l] = part],
             disk' \in [LoopIds -> Artifacts], disk'[mvp.loop] = disk[mvp.loop]
      PROVE  SliceInv' /\ Edge
  <2>1. LoopsOK'
    BY <1>3, <1>6, LoopAdded
  <2>2. FailingAcceptanceMarked'
    BY <1>4, <1>6, MarkStays
  <2>3. BlockOK'
    <3>1. /\ disk'[mvp.loop].spec /\ disk'[mvp.loop].scope = disk[mvp.loop].scope
          /\ disk'[mvp.loop].best = disk[mvp.loop].best
          /\ orch'[mvp.loop].state = orch[mvp.loop].state
          /\ files' \in Builds /\ signed' \in [LoopIds -> Reports]
          /\ unseen' \in [LoopIds -> 0 .. 2]
      BY <1>4, <1>5, <1>6 DEF BlockOK, LoopsOK
    <3> QED BY <1>1, <1>4, <1>6, <2>2, <3>1, BlockKept
  <2> QED BY <1>6, <2>1, <2>3 DEF Edge, SliceInv
<1> DEFINE new == [NoDisk EXCEPT !.spec = TRUE, !.scope = scope]
<1>7. new \in Artifacts /\ new.spec /\ new.scope = scope /\ new.best = {}
  BY <1>3 DEF NoDisk, Artifacts, Reports
<1>8. /\ Walked[Len(SliceWalk)] \in Dirs /\ Walked[Len(SliceWalk)].count = 0
      /\ Walked[Len(SliceWalk)].state = "ENV_REPORT"
  <2>1. Len(SliceWalk) = 6 /\ 6 \in 1 .. 6 /\ SliceWalk[6] = "ENV_REPORT"
    BY DEF SliceWalk
  <2> QED BY <2>1, WalkedAt
<1>9. disk \in [LoopIds -> Artifacts] /\ mvp.loop \in LoopIds
  BY <1>1 DEF BlockOK, Blocks
<1>10. CASE /\ orch' = [orch EXCEPT ![l] = Walked[Len(SliceWalk)]]
            /\ disk' = [disk EXCEPT ![l] = new]
            /\ SaveState(NextSlice(mvp, l, scope))
  <2> HIDE DEF new
  <2>1. /\ disk' \in [LoopIds -> Artifacts] /\ disk'[l] = new
        /\ disk'[mvp.loop] = disk[mvp.loop]
    BY <1>5, <1>7, <1>9, <1>10
  <2>2. CASE mvp' = mvp
    BY <1>6, <1>8, <1>10, <2>1, <2>2
  <2>3. CASE mvp' = NextSlice(mvp, l, scope)
    <3>1. /\ mvp' \in Blocks /\ mvp'.status = "SCOPE_DERIVED" /\ mvp'.loop = l
          /\ mvp'.scope = scope /\ mvp'.index = mvp.index + 1
      <4>1. mvp.index + 1 \in Nat /\ "SCOPE_DERIVED" \in Statuses
        BY <1>1 DEF Blocks, Statuses
      <4>2. PICK n \in Nat : n = mvp.index + 1
        BY <4>1
      <4>3. mvp' = [mvp EXCEPT !.status = "SCOPE_DERIVED", !.loop = l,
                               !.scope = scope, !.index = n]
        BY <2>3, <4>2 DEF NextSlice
      <4> QED BY <1>1, <1>3, <4>1, <4>2, <4>3 DEF Blocks
    <3>2. LoopsOK'
      BY <1>1, <1>3, <1>10, <3>1, SliceAdded DEF SliceAllowed
    <3>3. accepted \subseteq mvp.scope
      BY <1>1 DEF BlockOK
    <3>4. /\ disk'[mvp'.loop].spec /\ disk'[mvp'.loop].scope = mvp'.scope
          /\ disk'[mvp'.loop].best = {}
          /\ orch'[mvp'.loop].state = "ENV_REPORT"
      BY <1>7, <1>8, <1>10, <2>1, <3>1 DEF LoopsOK
    <3>5. BlockOK'
      BY <1>3, <1>4, <2>1, <3>1, <3>3, <3>4
         DEF BlockOK, AcceptedKept, FailingAcceptanceMarked
    <3>6. Edge
      BY <1>1, <3>1 DEF Edge, MvpTransitions
    <3> QED BY <3>2, <3>5, <3>6 DEF SliceInv
  <2> QED BY <1>10, <2>2, <2>3, Saves
<1>11. ASSUME NEW part \in Abandoned, NEW carried \in BOOLEAN,
              orch' = [orch EXCEPT ![l] = part],
              disk' = [disk EXCEPT ![l].spec = carried], mvp' = mvp
       PROVE  SliceInv' /\ Edge
  <2> DEFINE a == [disk[l] EXCEPT !.spec = carried]
  <2>1. a \in Artifacts /\ [disk EXCEPT ![l].spec = carried] = [disk EXCEPT ![l] = a]
    BY <1>9 DEF Artifacts
  <2> HIDE DEF a
  <2>2. disk' \in [LoopIds -> Artifacts] /\ disk'[mvp.loop] = disk[mvp.loop]
    BY <1>5, <1>9, <1>11, <2>1
  <2> QED BY <1>6, <1>11, <2>2, AbandonedLoops
<1> QED BY <1>2, <1>10, <1>11 DEF OpenSlice

\* The answer at Gate 1, and the reviewers' rejection.
LEMMA GateKeeps ==
  ASSUME MvpInv, RespondGate1 \/ ReviewersReject
  PROVE  SliceInv' /\ Edge
<1> USE DEF MvpInv
<1>1. UNCHANGED <<mvp, disk, files, calls, mvpHistory>>
  BY DEF RespondGate1, ReviewersReject
<1>2. /\ LoopsOK'
      /\ orch[mvp.loop].state # "TEST_DESIGN"
      /\ orch'[mvp.loop].state \in
           {"TEST_DESIGN", "BUILDER", "ESCALATED", orch[mvp.loop].state}
      /\ orch[mvp.loop].state # "RUN_TESTS"
  <2>1. CASE RespondGate1
    <3>1. PICK response, after :
            /\ response \in GateResponses[1]
            /\ Moves(mvp.loop, Tools!Respond(orch[mvp.loop], 1, response), after)
      BY <2>1 DEF RespondGate1
    <3>2. orch[mvp.loop] \in Dirs
      BY DEF LoopsOK
    <3>3. Tools!Outcomes(orch[mvp.loop], Tools!Respond(orch[mvp.loop], 1, response))
            \subseteq Near(orch[mvp.loop], {"TEST_DESIGN", "ESCALATED"})
      BY <3>1, <3>2, Gate1Near
    <3>4. {"TEST_DESIGN", "ESCALATED"} \subseteq OpenStates
      BY OpenStatesListed
    <3>5. /\ LoopsOK'
          /\ orch'[mvp.loop].state \in {"TEST_DESIGN", "ESCALATED"} \union {orch[mvp.loop].state}
      BY <1>1, <3>1, <3>3, <3>4, LoopMoved DEF Moves
    <3> QED BY <2>1, <3>5 DEF RespondGate1, At
  <2>2. CASE ReviewersReject
    <3>1. /\ LoopsOK'
          /\ orch'[mvp.loop].state \in {"BUILDER", "ESCALATED", orch[mvp.loop].state}
      BY <1>1, <2>2, BackMoves DEF ReviewersReject
    <3> QED BY <2>2, <3>1 DEF ReviewersReject, At
  <2> QED BY <2>1, <2>2
<1>3. BlockOK'
  BY <1>1, <1>2 DEF BlockOK, mvpHistory, AcceptedKept, FailingAcceptanceMarked
<1> QED BY <1>1, <1>2, <1>3 DEF Edge, SliceInv

-----------------------------------------------------------------------------
(* The theorems for any order of calls and any failed write                *)

LEMMA SliceStep ==
  ASSUME MvpInv, [MvpNext]_mvpVars
  PROVE  SliceInv' /\ Edge
<1>1. SliceInv
  BY DEF MvpInv, SliceInv
<1>2. ASSUME NEW c \in Calls,
             \/ GiveUp(c) \/ BeginDesign(c) \/ BeginBuild(c) \/ BeginTests(c)
             \/ BeginReview(c) \/ BeginReengage(c)
      PROVE  SliceInv' /\ Edge
  BY <1>1, <1>2, NothingKeeps
     DEF GiveUp, BeginDesign, BeginBuild, BeginTests, BeginReview, BeginReengage
<1>3. ASSUME NEW c \in Calls, MvpTurn(c) PROVE SliceInv' /\ Edge
  BY <1>2, <1>3, DeriveScopeKeeps, DesignTestsKeeps, BuildKeeps, TestsKeep,
     UnclearKeeps, AcceptKeeps, RefineKeeps, ReengageKeeps DEF MvpTurn
<1>4. CASE UNCHANGED mvpVars
  <2>1. UNCHANGED <<mvp, orch, disk, files, mvpHistory>>
    BY <1>4 DEF mvpVars, mvpHistory
  <2> QED BY <1>1, <2>1, NothingKeeps
<1> QED BY <1>3, <1>4, GateKeeps DEF MvpNext

LEMMA MvpStarts == MvpInit => MvpInv
<1> SUFFICES ASSUME MvpInit PROVE MvpInv
  OBVIOUS
<1> USE DEF MvpInit
<1>1. mvp \in Blocks /\ mvp.loop = 1 /\ mvp.index = 1 /\ mvp.status = "INACTIVE"
      /\ 1 \in LoopIds
  BY FirstLoopId DEF Slice1, Blocks, Statuses
<1>2. CallsOK
  BY IdleTyped DEF CallsOK, Idle, IdleCall
<1>3. LoopsOK
  <2>1. /\ Tools!NoLoop \in Dirs /\ Tools!NoLoop.count = 0
    BY SameStates DEF Tools!NoLoop, Dirs, Tools!Row, Tools!Rows, Tools!RowTypes,
                      States, ForwardStates
  <2>2. /\ FirstLoop \in Dirs /\ FirstLoop.count = 0 /\ FirstLoop.file = "ok"
        /\ FirstLoop.state = "TEST_DESIGN"
    <3>1. Tools!Row("ENV_REPORT", "TEST_DESIGN", "GATE_APPROVE") \in Tools!Rows
      BY SameStates DEF Tools!Row, Tools!Rows, Tools!RowTypes, States, ForwardStates
    <3> QED BY <2>1, <3>1 DEF FirstLoop, Dirs, States, ForwardStates
  <2>3. orch \in [LoopIds -> Dirs] /\ orch[1] = FirstLoop
        /\ \A l \in LoopIds : orch[l].count = 0
    BY <1>1, <2>1, <2>2
  <2>4. Rebuilt = {1}
    BY <1>1, <2>3 DEF Rebuilt
  <2>5. Cardinality(Rebuilt) = 1
    BY <2>4, FS_Singleton
  <2>6. "TEST_DESIGN" \in OpenStates /\ 1 <= MaxSlices
    BY OpenStatesListed, MvpAssumption
  <2> QED BY <1>1, <2>2, <2>3, <2>5, <2>6 DEF LoopsOK
<1>4. BlockOK
  <2>1. NoDisk \in Artifacts /\ [NoDisk EXCEPT !.spec = TRUE] \in Artifacts
        /\ [NoDisk EXCEPT !.spec = TRUE].spec
        /\ [NoDisk EXCEPT !.spec = TRUE].best = {}
    BY DEF NoDisk, Artifacts, Reports
  <2>2. /\ disk \in [LoopIds -> Artifacts] /\ disk[1].spec /\ disk[1].best = {}
        /\ orch[1].state = "TEST_DESIGN"
    BY <1>1, <2>1 DEF FirstLoop, Tools!NoLoop
  <2>3. files \in Builds /\ signed \in [LoopIds -> Reports] /\ unseen \in [LoopIds -> 0 .. 2]
    BY DEF Builds, Reports
  <2> QED BY <1>1, <2>2, <2>3 DEF BlockOK, AcceptedKept, FailingAcceptanceMarked
<1> QED BY <1>2, <1>3, <1>4 DEF MvpInv

\* The inductive invariant holds in every behaviour.
THEOREM MvpInvariant ==
  ASSUME OneAtATime PROVE MvpSpec => []MvpInv
<1>1. MvpInv /\ [MvpNext]_mvpVars => MvpInv'
  BY CallsStep, SliceStep DEF MvpInv, SliceInv
<1> QED BY <1>1, MvpStarts, PTL DEF MvpSpec

\* What the owner accepted stays built, whatever is rebuilt after it.
THEOREM AcceptedStaysBuilt ==
  ASSUME OneAtATime PROVE MvpSpec => []AcceptedKept
<1>1. MvpInv => AcceptedKept
  BY DEF MvpInv, BlockOK
<1> QED BY <1>1, MvpInvariant, PTL

\* A slice accepted with failing tests carries its mark.
THEOREM FailuresMarked ==
  ASSUME OneAtATime PROVE MvpSpec => []FailingAcceptanceMarked
<1>1. MvpInv => FailingAcceptanceMarked
  BY DEF MvpInv, BlockOK
<1> QED BY <1>1, MvpInvariant, PTL

\* A slice is opened whole or not at all, while no write tears a file.
THEOREM SlicesWhole ==
  ASSUME OneAtATime, "torn" \notin Faults PROVE MvpSpec => []SliceWhole
<1>1. MvpInv => SliceWhole
  <2>1. Len(SliceWalk) - 1 = 5
    BY DEF SliceWalk
  <2> QED BY <2>1 DEF MvpInv, BlockOK, LoopsOK, SliceWhole, OpenStates
<1> QED BY <1>1, MvpInvariant, PTL

\* No more loops are rebuilt than there may be slices, so the cap of a loop
\* times the bound on slices bounds the rebuilds of a project.
THEOREM RebuildsBounded ==
  ASSUME OneAtATime PROVE MvpSpec => []RebuildCeiling
<1>1. MvpInv => RebuildCeiling
  <2> SUFFICES ASSUME MvpInv PROVE RebuildCeiling
    OBVIOUS
  <2>1. LoopsOK
    BY DEF MvpInv
  <2>2. {l \in LoopIds : orch[l].count > 0} \subseteq Rebuilt
    BY DEF Rebuilt
  <2>3. /\ Cardinality({l \in LoopIds : orch[l].count > 0}) <= Cardinality(Rebuilt)
        /\ Cardinality({l \in LoopIds : orch[l].count > 0}) \in Nat
        /\ Cardinality(Rebuilt) \in Nat
    BY <2>1, <2>2, RebuiltFinite, FS_Subset, FS_CardinalityType
  <2>4. Cardinality(Rebuilt) <= mvp.index /\ mvp.index <= MaxSlices /\ mvp.index \in Nat
        /\ MaxSlices \in Nat
    BY <2>1, MvpAssumption DEF LoopsOK
  <2> QED BY <2>3, <2>4 DEF RebuildCeiling
<1> QED BY <1>1, MvpInvariant, PTL

\* The status on file follows the declared transitions.
THEOREM StatusDeclared ==
  ASSUME OneAtATime PROVE MvpSpec => StatusEdges
<1>1. MvpInv /\ [MvpNext]_mvpVars =>
        [mvp'.status # mvp.status => mvp'.status \in MvpTransitions[mvp.status]]_mvp
  BY SliceStep DEF Edge
<1> QED BY <1>1, MvpInvariant, PTL DEF MvpSpec, StatusEdges

-----------------------------------------------------------------------------
(* Types, and the mark of a failing acceptance, for any number of requests *)
(* in flight                                                               *)

MvpTyped ==
  /\ mvp \in Blocks /\ orch \in [LoopIds -> Dirs]
  /\ disk \in [LoopIds -> Artifacts] /\ files \in Builds
  /\ calls \in [Calls -> Slots] /\ signed \in [LoopIds -> Reports]

LEMMA MoveTyped ==
  ASSUME MvpTyped, NEW l \in LoopIds, NEW writes, NEW after, Moves(l, writes, after),
         \/ \E to \in States : writes = AdvanceTo(l, to)
         \/ writes = Tools!LoopBack(orch[l])
         \/ \E response \in GateResponses[1] :
              writes = Tools!Respond(orch[l], 1, response)
  PROVE  orch' \in [LoopIds -> Dirs]
<1>1. orch[l] \in Dirs
  BY DEF MvpTyped
<1>2. ASSUME NEW targets, Tools!Outcomes(orch[l], writes) \subseteq Near(orch[l], targets)
      PROVE  orch' \in [LoopIds -> Dirs]
  <2>1. after \in Dirs /\ orch' = [orch EXCEPT ![l] = after]
    BY <1>2 DEF Moves, Near
  <2> QED BY <2>1 DEF MvpTyped
<1>3. ASSUME NEW to \in States, writes = AdvanceTo(l, to)
      PROVE  orch' \in [LoopIds -> Dirs]
  <2>1. Tools!Outcomes(orch[l], writes) \subseteq Near(orch[l], {to})
    BY <1>1, <1>3, AdvanceNear DEF AdvanceTo
  <2> QED BY <1>2, <2>1
<1>4. ASSUME writes = Tools!LoopBack(orch[l]) PROVE orch' \in [LoopIds -> Dirs]
  <2>1. Tools!Outcomes(orch[l], writes) \subseteq Near(orch[l], {"BUILDER", "ESCALATED"})
    BY <1>1, <1>4, LoopBackNear
  <2> QED BY <1>2, <2>1
<1>5. ASSUME NEW response \in GateResponses[1],
             writes = Tools!Respond(orch[l], 1, response)
      PROVE  orch' \in [LoopIds -> Dirs]
  <2>1. Tools!Outcomes(orch[l], writes) \subseteq Near(orch[l], {"TEST_DESIGN", "ESCALATED"})
    BY <1>1, <1>5, Gate1Near
  <2> QED BY <1>2, <2>1
<1> QED BY <1>3, <1>4, <1>5

\* The states the handlers move a loop to.
LEMMA StatesMovedTo ==
  {"BUILDER", "RUN_TESTS", "REVIEWER_CODE_AND_SECURITY"} \subseteq States
BY DEF States, ForwardStates

LEMMA LoopsTyped == ASSUME MvpTyped, [MvpNext]_mvpVars PROVE orch' \in [LoopIds -> Dirs]
<1>1. mvp.loop \in LoopIds /\ \A c \in Calls : calls[c].saved.loop \in LoopIds
  BY DEF MvpTyped, Blocks, Slots
<1> USE StatesMovedTo, MoveTyped
<1>2. ASSUME NEW c \in Calls,
             DesignTests(c) \/ FinishBuild(c) \/ TestsPass(c) \/ TestsFail(c)
               \/ ReplyAccept(c) \/ ReplyRefine(c)
      PROVE  orch' \in [LoopIds -> Dirs]
  <2>1. CASE orch' = orch
    BY <2>1 DEF MvpTyped
  <2>2. CASE DesignTests(c)
    BY <1>1, <2>2 DEF DesignTests
  <2>3. CASE FinishBuild(c)
    BY <1>1, <2>3 DEF FinishBuild
  <2>4. CASE TestsPass(c)
    BY <1>1, <2>1, <2>4 DEF TestsPass
  <2>5. CASE TestsFail(c)
    BY <1>1, <2>1, <2>5 DEF TestsFail
  <2>6. CASE ReplyAccept(c)
    BY <1>1, <2>6 DEF ReplyAccept
  <2>7. CASE ReplyRefine(c)
    BY <1>1, <2>1, <2>7 DEF ReplyRefine
  <2> QED BY <1>2, <2>2, <2>3, <2>4, <2>5, <2>6, <2>7
<1>3. ASSUME NEW c \in Calls, Reengage(c) PROVE orch' \in [LoopIds -> Dirs]
  <2>1. PICK l \in LoopIds, part \in {Walked[Len(SliceWalk)]} \union Abandoned :
          orch' = [orch EXCEPT ![l] = part]
    BY <1>3 DEF Reengage, OpenSlice
  <2>2. Len(SliceWalk) = 6 /\ 6 \in 1 .. 6
    BY DEF SliceWalk
  <2> QED BY <2>1, <2>2, WalkedAt, AbandonedLoops DEF MvpTyped
<1>4. CASE RespondGate1 \/ ReviewersReject
  BY <1>1, <1>4, MoveTyped DEF RespondGate1, ReviewersReject
<1>5. CASE orch' = orch
  BY <1>5 DEF MvpTyped
<1>6. ASSUME NEW c \in Calls,
             \/ GiveUp(c) \/ BeginDesign(c) \/ BeginBuild(c)
             \/ FailBuild(c) \/ RejectRebuild(c)
             \/ BeginTests(c) \/ BeginReview(c) \/ BeginReengage(c)
      PROVE  orch' = orch
  <2>1. CASE GiveUp(c) \/ BeginDesign(c) \/ BeginBuild(c)
    BY <2>1 DEF GiveUp, BeginDesign, BeginBuild
  <2>2. CASE FailBuild(c) \/ RejectRebuild(c)
    BY <2>2 DEF FailBuild, RejectRebuild
  <2>3. CASE BeginTests(c) \/ BeginReview(c) \/ BeginReengage(c)
    BY <2>3 DEF BeginTests, BeginReview, BeginReengage
  <2> QED BY <1>6, <2>1, <2>2, <2>3
<1>7. ASSUME NEW c \in Calls, DeriveScope(c) \/ ReplyUnclear(c) PROVE orch' = orch
  <2>1. CASE DeriveScope(c)
    BY <2>1, Zenon DEF DeriveScope
  <2>2. CASE ReplyUnclear(c)
    BY <2>2 DEF ReplyUnclear
  <2> QED BY <1>7, <2>1, <2>2
<1> QED BY <1>2, <1>3, <1>4, <1>5, <1>6, <1>7 DEF MvpNext, MvpTurn, mvpVars

\* One artifact of a loop is rewritten.
LEMMA ArtifactWritten ==
  ASSUME MvpTyped, NEW l \in LoopIds,
         \/ \E x \in SUBSET Criteria : disk' = [disk EXCEPT ![l].scope = x]
         \/ \E x \in SUBSET Criteria : disk' = [disk EXCEPT ![l].plan = x]
         \/ \E x \in Nat : disk' = [disk EXCEPT ![l].feedback = x]
         \/ \E x \in Reports : disk' = [disk EXCEPT ![l].report = x]
         \/ \E x \in BOOLEAN : disk' = [disk EXCEPT ![l].spec = x]
         \/ \E x \in Artifacts : disk' = [disk EXCEPT ![l] = x]
         \/ disk' = disk
  PROVE  disk' \in [LoopIds -> Artifacts]
<1>1. disk \in [LoopIds -> Artifacts] /\ disk[l] \in Artifacts
  BY DEF MvpTyped
<1>2. ASSUME NEW x \in SUBSET Criteria, disk' = [disk EXCEPT ![l].scope = x]
      PROVE  disk' \in [LoopIds -> Artifacts]
  BY <1>1, <1>2 DEF Artifacts
<1>3. ASSUME NEW x \in SUBSET Criteria, disk' = [disk EXCEPT ![l].plan = x]
      PROVE  disk' \in [LoopIds -> Artifacts]
  BY <1>1, <1>3 DEF Artifacts
<1>4. ASSUME NEW x \in Nat, disk' = [disk EXCEPT ![l].feedback = x]
      PROVE  disk' \in [LoopIds -> Artifacts]
  BY <1>1, <1>4 DEF Artifacts
<1>5. ASSUME NEW x \in Reports, disk' = [disk EXCEPT ![l].report = x]
      PROVE  disk' \in [LoopIds -> Artifacts]
  BY <1>1, <1>5 DEF Artifacts
<1>6. ASSUME NEW x \in BOOLEAN, disk' = [disk EXCEPT ![l].spec = x]
      PROVE  disk' \in [LoopIds -> Artifacts]
  BY <1>1, <1>6 DEF Artifacts
<1>7. ASSUME NEW x \in Artifacts, disk' = [disk EXCEPT ![l] = x]
      PROVE  disk' \in [LoopIds -> Artifacts]
  BY <1>1, <1>7
<1> QED BY <1>1, <1>2, <1>3, <1>4, <1>5, <1>6, <1>7

\* The artifacts a new slice starts with.
LEMMA SliceFiles ==
  \A scope \in SUBSET Criteria : [NoDisk EXCEPT !.spec = TRUE, !.scope = scope] \in Artifacts
<1>1. NoDisk \in Artifacts
  BY DEF NoDisk, Artifacts, Reports
<1> QED BY <1>1 DEF Artifacts

\* The artifacts with the attempt that is kept after a failing run, and its
\* report perhaps.
LEMMA SnapshotTyped ==
  ASSUME MvpTyped, NEW l \in LoopIds, NEW kept \in Snapshots(disk[l].best),
         NEW artifacts, artifacts = [disk EXCEPT ![l].best = kept]
  PROVE  /\ artifacts \in [LoopIds -> Artifacts]
         /\ artifacts[l].best \subseteq Builds
         /\ \A kind \in Reports :
              [artifacts EXCEPT ![l].report = kind] \in [LoopIds -> Artifacts]
<1>1. disk \in [LoopIds -> Artifacts] /\ disk[l].best \subseteq Builds
      /\ files \in Builds
  BY DEF MvpTyped, Artifacts
<1>2. kept \subseteq Builds
  BY <1>1 DEF Snapshots
<1>3. artifacts \in [LoopIds -> Artifacts]
  BY <1>1, <1>2 DEF Artifacts
<1>4. \A kind \in Reports :
        [artifacts EXCEPT ![l].report = kind] \in [LoopIds -> Artifacts]
  BY <1>3 DEF Artifacts
<1>5. artifacts[l].best \subseteq Builds
  BY <1>3 DEF Artifacts
<1> QED BY <1>3, <1>4, <1>5

LEMMA DiskTyped == ASSUME MvpTyped, [MvpNext]_mvpVars PROVE disk' \in [LoopIds -> Artifacts]
<1>1. \A c \in Calls : calls[c].saved.loop \in LoopIds /\ calls[c].criteria \in SUBSET Criteria
  BY DEF MvpTyped, Blocks, Slots
<1>2. ASSUME NEW c \in Calls,
             DeriveScope(c) \/ DesignTests(c) \/ TestsPass(c) \/ TestsFail(c)
      PROVE  disk' \in [LoopIds -> Artifacts]
  <2>1. {"PASS_REVIEW", "FAIL_REVIEW"} \subseteq Reports
    BY DEF Reports
  <2>2. CASE DeriveScope(c)
    BY <1>1, <2>2, ArtifactWritten DEF DeriveScope, ValidScope
  <2>3. CASE DesignTests(c)
    BY <1>1, <2>3, ArtifactWritten DEF DesignTests
  <2>4. CASE TestsPass(c)
    BY <1>1, <2>1, <2>4, ArtifactWritten DEF TestsPass, EnterOwnerReview
  <2>5. CASE TestsFail(c)
    <3> DEFINE l == calls[c].saved.loop
    <3>1. PICK kept \in Snapshots(disk[l].best) :
            \/ disk' = [disk EXCEPT ![l].best = kept]
            \/ disk' = [[disk EXCEPT ![l].best = kept] EXCEPT ![l].report = "FAIL_REVIEW"]
      BY <2>5 DEF TestsFail, EnterOwnerReview
    <3>2. PICK artifacts : artifacts = [disk EXCEPT ![l].best = kept]
      OBVIOUS
    <3> QED BY <1>1, <2>1, <3>1, <3>2, SnapshotTyped
  <2> QED BY <1>2, <2>2, <2>3, <2>4, <2>5
<1>3. ASSUME NEW c \in Calls, ReplyRefine(c) PROVE disk' \in [LoopIds -> Artifacts]
  <2> DEFINE l == calls[c].saved.loop
  <2>1. disk[l].feedback + 1 \in Nat
    BY <1>1 DEF MvpTyped, Artifacts
  <2>2. disk' = disk \/ disk' = [disk EXCEPT ![l].feedback = disk[l].feedback + 1]
    BY <1>1, <1>3 DEF ReplyRefine, MvpTyped
  <2> QED BY <1>1, <2>1, <2>2, ArtifactWritten
<1>4. ASSUME NEW c \in Calls, Reengage(c) PROVE disk' \in [LoopIds -> Artifacts]
  <2>1. PICK l \in LoopIds, scope \in NextScopes(calls[c].saved) :
          OpenSlice(calls[c].saved, l, scope)
    BY <1>4 DEF Reengage
  <2>2. scope \in SUBSET Criteria
    BY <2>1 DEF NextScopes, ValidNextScope, ValidScope
  <2>3. [NoDisk EXCEPT !.spec = TRUE, !.scope = scope] \in Artifacts
    BY <2>2, SliceFiles, Zenon
  <2> QED BY <2>1, <2>3, ArtifactWritten DEF OpenSlice
<1>5. CASE disk' = disk
  BY <1>5 DEF MvpTyped
<1>6. ASSUME NEW c \in Calls,
             \/ GiveUp(c) \/ BeginDesign(c) \/ BeginBuild(c) \/ FinishBuild(c)
             \/ FailBuild(c) \/ RejectRebuild(c) \/ BeginTests(c) \/ BeginReview(c)
             \/ ReplyUnclear(c) \/ ReplyAccept(c) \/ BeginReengage(c)
      PROVE  disk' = disk
  <2>1. CASE GiveUp(c) \/ BeginDesign(c) \/ BeginBuild(c) \/ BeginTests(c)
    BY <2>1 DEF GiveUp, BeginDesign, BeginBuild, BeginTests
  <2>2. CASE FinishBuild(c) \/ FailBuild(c) \/ RejectRebuild(c)
    BY <2>2 DEF FinishBuild, FailBuild, RejectRebuild
  <2>3. CASE BeginReview(c) \/ ReplyUnclear(c) \/ ReplyAccept(c) \/ BeginReengage(c)
    BY <2>3 DEF BeginReview, ReplyUnclear, ReplyAccept, BeginReengage
  <2> QED BY <1>6, <2>1, <2>2, <2>3
<1>7. ASSUME RespondGate1 \/ ReviewersReject PROVE disk' = disk
  BY <1>7 DEF RespondGate1, ReviewersReject
<1> QED BY <1>2, <1>3, <1>4, <1>5, <1>6, <1>7 DEF MvpNext, MvpTurn, mvpVars

LEMMA BuildTyped == ASSUME MvpTyped, [MvpNext]_mvpVars PROVE files' \in Builds
<1>1. \A c \in Calls : Built(c) \in Builds /\ calls[c].saved.loop \in LoopIds
  BY DEF MvpTyped, Slots, Blocks, Built, Builds
<1>2. CASE files' = files
  BY <1>2 DEF MvpTyped
<1>3. ASSUME NEW c \in Calls, FinishBuild(c) \/ FailBuild(c) \/ RejectRebuild(c)
      PROVE  files' \in Builds
  <2>1. CASE FinishBuild(c)
    BY <1>1, <2>1 DEF FinishBuild
  <2>2. CASE FailBuild(c)
    BY <1>1, <2>2, OverwrittenKeeps DEF FailBuild, MvpTyped
  <2>3. CASE RejectRebuild(c)
    <3>1. disk[calls[c].saved.loop].best \subseteq Builds
      BY <1>1 DEF MvpTyped, Artifacts
    <3>2. files' \in Restored(disk, calls[c].saved.loop, Built(c))
      BY <2>3 DEF RejectRebuild
    <3> QED BY <1>1, <3>1, <3>2, RestoredTyped
  <2> QED BY <1>3, <2>1, <2>2, <2>3
<1>4. ASSUME NEW c \in Calls,
             GiveUp(c) \/ BeginDesign(c) \/ BeginBuild(c) \/ BeginTests(c)
               \/ BeginReview(c) \/ BeginReengage(c)
      PROVE  files' = files
  <2>1. CASE GiveUp(c) \/ BeginDesign(c) \/ BeginBuild(c)
    BY <2>1 DEF GiveUp, BeginDesign, BeginBuild
  <2>2. CASE BeginTests(c) \/ BeginReview(c) \/ BeginReengage(c)
    BY <2>2 DEF BeginTests, BeginReview, BeginReengage
  <2> QED BY <1>4, <2>1, <2>2
<1>5. ASSUME NEW c \in Calls,
             \/ DeriveScope(c) \/ DesignTests(c) \/ TestsPass(c)
             \/ ReplyUnclear(c) \/ ReplyAccept(c) \/ ReplyRefine(c) \/ Reengage(c)
      PROVE  files' = files
  <2>1. CASE DeriveScope(c) \/ DesignTests(c)
    BY <2>1, Zenon DEF DeriveScope, DesignTests
  <2>2. CASE TestsPass(c)
    BY <2>2 DEF TestsPass
  <2>3. CASE ReplyUnclear(c) \/ ReplyAccept(c) \/ ReplyRefine(c) \/ Reengage(c)
    BY <2>3 DEF ReplyUnclear, ReplyAccept, ReplyRefine, Reengage
  <2> QED BY <1>5, <2>1, <2>2, <2>3
<1>6. ASSUME NEW c \in Calls, TestsFail(c) PROVE files' \in Builds
  <2> DEFINE l == calls[c].saved.loop
  <2>1. PICK kept \in Snapshots(disk[l].best) :
          files' = files \/ Escalated(c, [disk EXCEPT ![l].best = kept])
    BY <1>6 DEF TestsFail
  <2>2. PICK artifacts : artifacts = [disk EXCEPT ![l].best = kept]
    OBVIOUS
  <2>3. artifacts[l].best \subseteq Builds /\ files \in Builds
    BY <1>1, <2>2, SnapshotTyped DEF MvpTyped
  <2>4. files' = files \/ files' \in Restored(artifacts, l, files)
    BY <2>1, <2>2 DEF Escalated
  <2> QED BY <2>3, <2>4, RestoredTyped
<1>7. ASSUME RespondGate1 \/ ReviewersReject PROVE files' = files
  BY <1>7 DEF RespondGate1, ReviewersReject
<1> QED BY <1>2, <1>3, <1>4, <1>5, <1>6, <1>7 DEF MvpNext, MvpTurn, mvpVars

\* The turns that end their request, and the steps that are none.
LEMMA Ended ==
  /\ \A c \in Calls :
       \/ GiveUp(c) \/ DesignTests(c)
       \/ FinishBuild(c) \/ FailBuild(c) \/ RejectRebuild(c)
       \/ TestsPass(c) \/ TestsFail(c) \/ ReplyUnclear(c)
       \/ ReplyAccept(c) \/ ReplyRefine(c) \/ Reengage(c)
       => Finish(c)
  /\ RespondGate1 \/ ReviewersReject => calls' = calls
<1>1. ASSUME NEW c \in Calls,
             \/ GiveUp(c) \/ DesignTests(c)
             \/ FinishBuild(c) \/ FailBuild(c) \/ RejectRebuild(c)
             \/ TestsPass(c) \/ TestsFail(c) \/ ReplyUnclear(c)
             \/ ReplyAccept(c) \/ ReplyRefine(c) \/ Reengage(c)
      PROVE  Finish(c)
  <2>1. CASE \/ GiveUp(c) \/ DesignTests(c)
             \/ FinishBuild(c) \/ FailBuild(c) \/ RejectRebuild(c)
    BY <2>1 DEF GiveUp, DesignTests, FinishBuild, FailBuild, RejectRebuild
  <2>2. CASE TestsPass(c) \/ TestsFail(c)
    BY <2>2 DEF TestsPass, TestsFail
  <2>3. CASE ReplyUnclear(c) \/ ReplyAccept(c) \/ ReplyRefine(c) \/ Reengage(c)
    BY <2>3 DEF ReplyUnclear, ReplyAccept, ReplyRefine, Reengage
  <2> QED BY <1>1, <2>1, <2>2, <2>3
<1>2. ASSUME RespondGate1 \/ ReviewersReject PROVE calls' = calls
  BY <1>2 DEF RespondGate1, ReviewersReject
<1> QED BY <1>1, <1>2

\* A request that waits, goes on waiting or ends.
LEMMA CallsTyped == ASSUME MvpTyped, [MvpNext]_mvpVars PROVE calls' \in [Calls -> Slots]
<1>1. ASSUME NEW c \in Calls, Finish(c) PROVE calls' \in [Calls -> Slots]
  BY <1>1, IdleTyped DEF Finish, MvpTyped
<1>2. ASSUME NEW c \in Calls, NEW stage \in Stages, NEW criteria \in SUBSET Criteria,
             NEW changes \in Nat, WaitFor(c, stage, criteria, changes)
      PROVE  calls' \in [Calls -> Slots]
  <2>1. disk[mvp.loop].report \in Reports /\ orch[mvp.loop].count \in Nat
    BY DEF MvpTyped, Blocks, Artifacts, Dirs
  <2>2. [stage |-> stage, saved |-> mvp, criteria |-> criteria, changes |-> changes,
         report |-> disk[mvp.loop].report, count |-> orch[mvp.loop].count] \in Slots
    BY <2>1 DEF MvpTyped, Slots
  <2> QED BY <1>2, <2>2 DEF WaitFor, MvpTyped
<1>3. EffectiveCriteria(mvp) \in SUBSET Criteria /\ ChangesFor(mvp) \in Nat
      /\ 0 \in Nat /\ {} \in SUBSET Criteria
  BY DEF MvpTyped, Blocks, Artifacts, EffectiveCriteria, ChangesFor
<1>4. {"deriveScope", "designTests", "buildProject", "runTests", "ownerReview",
       "reengage"} \subseteq Stages
  BY DEF Stages
<1>5. ASSUME NEW c \in Calls,
             BeginDesign(c) \/ BeginBuild(c) \/ BeginTests(c) \/ BeginReview(c)
               \/ BeginReengage(c)
      PROVE  calls' \in [Calls -> Slots]
  <2>1. CASE BeginDesign(c)
    <3>1. WaitFor(c, "deriveScope", EffectiveCriteria(mvp), 0)
            \/ WaitFor(c, "designTests", EffectiveCriteria(mvp), 0)
      BY <2>1 DEF BeginDesign
    <3> QED BY <1>2, <1>3, <1>4, <3>1
  <2>2. CASE BeginBuild(c)
    BY <1>2, <1>3, <1>4, <2>2 DEF BeginBuild
  <2>3. CASE BeginTests(c) \/ BeginReview(c) \/ BeginReengage(c)
    BY <1>2, <1>3, <1>4, <2>3 DEF BeginTests, BeginReview, BeginReengage
  <2> QED BY <1>5, <2>1, <2>2, <2>3
<1>6. ASSUME NEW c \in Calls, NEW scope \in SUBSET Criteria,
             calls' = [calls EXCEPT ![c].stage = "designTests", ![c].criteria = scope]
      PROVE  calls' \in [Calls -> Slots]
  <2> DEFINE slot == [calls[c] EXCEPT !.stage = "designTests", !.criteria = scope]
  <2>1. slot \in Slots
    BY <1>4 DEF MvpTyped, Slots
  <2>2. calls' = [calls EXCEPT ![c] = slot]
    BY <1>6 DEF MvpTyped, Slots
  <2> HIDE DEF slot
  <2> QED BY <2>1, <2>2 DEF MvpTyped
<1>7. CASE calls' = calls
  BY <1>7 DEF MvpTyped
<1>8. ASSUME NEW c \in Calls, DeriveScope(c) PROVE calls' \in [Calls -> Slots]
  BY <1>1, <1>6, <1>8 DEF DeriveScope, ValidScope
<1> QED BY <1>1, <1>5, <1>7, <1>8, Ended DEF MvpNext, MvpTurn, mvpVars

\* A reply is waited for with the block as it was under review.
Reviewing ==
  \A c \in Calls :
    Waiting(c, "ownerReview") => calls[c].saved.status = "AWAITING_OWNER_REVIEW"

LEMMA ReviewingStep == ASSUME MvpTyped, Reviewing, [MvpNext]_mvpVars PROVE Reviewing'
<1>0. calls \in [Calls -> Slots] /\ calls' \in [Calls -> Slots]
  BY CallsTyped DEF MvpTyped
<1>1. ASSUME NEW c \in Calls, Finish(c) PROVE Reviewing'
  <2>1. calls'[c].stage # "ownerReview" /\ \A d \in Calls : d # c => calls'[d] = calls[d]
    BY <1>0, <1>1 DEF Finish, IdleCall
  <2> QED BY <2>1 DEF Reviewing, Waiting
<1>2. ASSUME NEW c \in Calls, NEW stage, NEW criteria, NEW changes,
             WaitFor(c, stage, criteria, changes),
             stage = "ownerReview" => mvp.status = "AWAITING_OWNER_REVIEW"
      PROVE  Reviewing'
  <2>1. /\ calls'[c].stage = stage /\ calls'[c].saved = mvp
        /\ \A d \in Calls : d # c => calls'[d] = calls[d]
    BY <1>0, <1>2 DEF WaitFor
  <2> QED BY <1>2, <2>1 DEF Reviewing, Waiting
<1>3. ASSUME NEW c \in Calls, NEW scope,
             calls' = [calls EXCEPT ![c].stage = "designTests", ![c].criteria = scope]
      PROVE  Reviewing'
  <2>1. /\ calls'[c].stage = "designTests"
        /\ \A d \in Calls : d # c => calls'[d] = calls[d]
    BY <1>0, <1>3 DEF Slots
  <2> QED BY <2>1 DEF Reviewing, Waiting
<1>4. CASE calls' = calls
  BY <1>4 DEF Reviewing, Waiting
<1>5. ASSUME NEW c \in Calls,
             BeginDesign(c) \/ BeginBuild(c) \/ BeginTests(c) \/ BeginReview(c)
               \/ BeginReengage(c)
      PROVE  Reviewing'
  <2>1. CASE BeginDesign(c)
    <3>1. WaitFor(c, "deriveScope", EffectiveCriteria(mvp), 0)
            \/ WaitFor(c, "designTests", EffectiveCriteria(mvp), 0)
      BY <2>1 DEF BeginDesign
    <3> QED BY <1>2, <3>1
  <2>2. CASE BeginBuild(c)
    BY <1>2, <2>2 DEF BeginBuild
  <2>3. CASE BeginTests(c) \/ BeginReview(c) \/ BeginReengage(c)
    BY <1>2, <2>3 DEF BeginTests, BeginReview, BeginReengage
  <2> QED BY <1>5, <2>1, <2>2, <2>3
<1>6. ASSUME NEW c \in Calls, DeriveScope(c) PROVE Reviewing'
  BY <1>1, <1>3, <1>6 DEF DeriveScope
<1> QED BY <1>1, <1>4, <1>5, <1>6, Ended DEF MvpNext, MvpTurn, mvpVars

\* A block saved with a new status.
LEMMA StatusSaved ==
  ASSUME NEW b \in Blocks, NEW s \in Statuses, mvp' = [b EXCEPT !.status = s]
  PROVE  mvp' \in Blocks /\ mvp'.status = s
BY DEF Blocks

LEMMA AfterReview ==
  /\ {"BUILDING", "CAP_REACHED", "ACCEPTED"}
       \subseteq MvpTransitions["AWAITING_OWNER_REVIEW"]
  /\ \A to \in {"BUILDING", "CAP_REACHED", "ACCEPTED"} :
       StatusAfter("AWAITING_OWNER_REVIEW", to) = to
BY DEF MvpTransitions, StatusAfter

\* What a turn saves: the block on file, one under a status that is not
\* ACCEPTED, or the owner's acceptance.
Saved ==
  /\ mvp' \in Blocks
  /\ signed' = signed
  /\ mvp' = mvp \/ mvp'.status # "ACCEPTED"

LEMMA ScopeSaved == ASSUME MvpTyped, NEW c \in Calls, DeriveScope(c) PROVE Saved
<1>1. calls[c].saved \in Blocks /\ mvp \in Blocks /\ "SCOPE_DERIVED" \in Statuses
  BY DEF MvpTyped, Slots, Statuses
<1>2. signed' = signed
  <2>1. UNCHANGED mvpHistory
    BY Zenon DEF DeriveScope
  <2> QED BY <2>1 DEF mvpHistory
<1>3. CASE mvp' = mvp
  BY <1>1, <1>2, <1>3 DEF Saved
<1>4. CASE mvp' # mvp
  <2>1. PICK scope \in {s \in SUBSET Criteria : ValidScope(s)} :
          mvp' = [calls[c].saved EXCEPT !.status = "SCOPE_DERIVED", !.scope = scope]
    BY <1>4, Zenon DEF DeriveScope
  <2>2. mvp' \in Blocks /\ mvp'.status = "SCOPE_DERIVED"
    BY <1>1, <2>1 DEF Blocks
  <2> QED BY <1>2, <2>2 DEF Saved
<1> QED BY <1>3, <1>4

LEMMA TurnsSaved ==
  ASSUME MvpTyped, Reviewing, NEW c \in Calls,
         FinishBuild(c) \/ TestsPass(c) \/ TestsFail(c) \/ ReplyUnclear(c) \/ ReplyRefine(c)
  PROVE  Saved
<1>1. calls[c].saved \in Blocks /\ mvp \in Blocks
  BY DEF MvpTyped, Slots
<1>2. {"BUILDING", "CAP_REACHED", "AWAITING_OWNER_REVIEW"} \subseteq Statuses
  BY DEF Statuses
<1>3. ASSUME mvp' = mvp, signed' = signed PROVE Saved
  BY <1>1, <1>3 DEF Saved
<1>4. ASSUME NEW b \in Blocks,
             NEW s \in {"BUILDING", "CAP_REACHED", "AWAITING_OWNER_REVIEW"},
             SaveState([b EXCEPT !.status = s]), signed' = signed
      PROVE  Saved
  <2>1. mvp' = mvp \/ mvp' = [b EXCEPT !.status = s]
    BY <1>4, Saves
  <2>2. mvp' = mvp \/ (mvp' \in Blocks /\ mvp'.status = s)
    BY <1>2, <2>1, StatusSaved
  <2> QED BY <1>1, <1>4, <2>2 DEF Saved
<1>5. CASE FinishBuild(c)
  BY <1>1, <1>3, <1>4, <1>5 DEF FinishBuild, FirstBuild, mvpHistory
<1>6. CASE TestsPass(c)
  <2>1. signed' = signed
    BY <1>6 DEF TestsPass
  <2> QED BY <1>1, <1>3, <1>4, <1>6, <2>1 DEF TestsPass, EnterOwnerReview
<1>7. CASE TestsFail(c)
  <2>1. signed' = signed
    BY <1>7 DEF TestsFail
  <2>2. \/ mvp' = mvp
        \/ SaveState([calls[c].saved EXCEPT !.status = "AWAITING_OWNER_REVIEW"])
        \/ SaveState([mvp EXCEPT !.status = "CAP_REACHED"])
    BY <1>7 DEF TestsFail, EnterOwnerReview, Escalated
  <2> QED BY <1>1, <1>3, <1>4, <2>1, <2>2
<1>8. CASE ReplyUnclear(c)
  <2>1. calls[c].saved.status = "AWAITING_OWNER_REVIEW"
    BY <1>8 DEF ReplyUnclear, Reviewing
  <2>2. (mvp' = mvp \/ mvp' = calls[c].saved) /\ signed' = signed
    BY <1>8, Saves DEF ReplyUnclear, mvpHistory
  <2> QED BY <1>1, <2>1, <2>2 DEF Saved
<1>9. CASE ReplyRefine(c)
  <2>1. calls[c].saved.status = "AWAITING_OWNER_REVIEW" /\ signed' = signed
    BY <1>9 DEF ReplyRefine, Reviewing, mvpHistory
  <2>2. ASSUME mvp' # mvp
        PROVE  SaveState([calls[c].saved EXCEPT !.status = "BUILDING"])
                 \/ SaveState([calls[c].saved EXCEPT !.status = "CAP_REACHED"])
    <3>1. PICK s \in {"BUILDING", "CAP_REACHED"} :
            SaveState([calls[c].saved EXCEPT !.status = StatusAfter(@, s)])
      BY <1>9, <2>2 DEF ReplyRefine
    <3> QED BY <2>1, <3>1, AfterReview
  <2> QED BY <1>1, <1>3, <1>4, <2>1, <2>2
<1> QED BY <1>5, <1>6, <1>7, <1>8, <1>9

LEMMA SliceSaved == ASSUME MvpTyped, NEW c \in Calls, Reengage(c) PROVE Saved
<1>1. PICK l \in LoopIds, scope \in NextScopes(calls[c].saved) :
        OpenSlice(calls[c].saved, l, scope)
  BY DEF Reengage
<1>2. calls[c].saved \in Blocks /\ mvp \in Blocks /\ signed' = signed
  BY DEF MvpTyped, Slots, Reengage, mvpHistory
<1>3. scope \in SUBSET Criteria
  BY <1>1 DEF NextScopes, ValidNextScope, ValidScope
<1>4. mvp' = mvp \/ mvp' = NextSlice(calls[c].saved, l, scope)
  BY <1>1, Saves DEF OpenSlice
<1>5. /\ NextSlice(calls[c].saved, l, scope) \in Blocks
      /\ NextSlice(calls[c].saved, l, scope).status = "SCOPE_DERIVED"
  <2>1. PICK n \in Nat : n = calls[c].saved.index + 1
    BY <1>2 DEF Blocks
  <2>2. NextSlice(calls[c].saved, l, scope)
          = [calls[c].saved EXCEPT !.status = "SCOPE_DERIVED", !.loop = l,
                                   !.scope = scope, !.index = n]
    BY <2>1 DEF NextSlice
  <2> QED BY <1>2, <1>3, <2>2 DEF Blocks, Statuses
<1> QED BY <1>2, <1>4, <1>5 DEF Saved

\* An acceptance is signed and saved by the same turn.
LEMMA AcceptSaved ==
  ASSUME MvpTyped, Reviewing, NEW c \in Calls, ReplyAccept(c)
  PROVE  /\ mvp' \in Blocks /\ signed' \in [LoopIds -> Reports]
         /\ "io" \notin Faults /\ FailingAcceptanceMarked => FailingAcceptanceMarked'
<1>1. /\ calls[c].saved \in Blocks /\ mvp \in Blocks /\ calls[c].report \in Reports
      /\ calls[c].saved.loop \in LoopIds /\ calls[c].saved.failing \in BOOLEAN
      /\ signed \in [LoopIds -> Reports]
  BY DEF MvpTyped, Slots, Blocks
<1>2. calls[c].saved.status = "AWAITING_OWNER_REVIEW"
  BY DEF ReplyAccept, Reviewing
<1>3. CASE mvp' = mvp /\ signed' = signed
  BY <1>1, <1>3 DEF FailingAcceptanceMarked
<1>4. CASE ~(mvp' = mvp /\ signed' = signed)
  <2>1. PICK decision \in {"ACCEPT", "ACCEPT_WITH_FAILING_TESTS"} :
          /\ Informed(decision, calls[c].report)
          /\ SaveState([calls[c].saved EXCEPT
                          !.status  = StatusAfter(@, "ACCEPTED"),
                          !.failing = @ \/ decision # "ACCEPT"])
          /\ signed' = [signed EXCEPT ![calls[c].saved.loop] = calls[c].report]
    BY <1>4 DEF ReplyAccept
  <2>2. PICK f \in BOOLEAN : f <=> (calls[c].saved.failing \/ decision # "ACCEPT")
    OBVIOUS
  <2>3. SaveState([calls[c].saved EXCEPT !.status = "ACCEPTED", !.failing = f])
    <3>1. StatusAfter(calls[c].saved.status, "ACCEPTED") = "ACCEPTED"
      BY <1>2, AfterReview
    <3>2. (calls[c].saved.failing \/ decision # "ACCEPT") = f
      BY <1>1, <2>2
    <3> QED BY <2>1, <3>1, <3>2
  <2>4. "ACCEPTED" \in Statuses
    BY DEF Statuses
  <2>5. mvp' = mvp \/ mvp' = [calls[c].saved EXCEPT !.status = "ACCEPTED", !.failing = f]
    BY <2>3, Saves
  <2>6. mvp' \in Blocks
    BY <1>1, <2>4, <2>5 DEF Blocks
  <2>7. signed' \in [LoopIds -> Reports]
        /\ signed'[calls[c].saved.loop] = calls[c].report
    BY <1>1, <2>1
  <2>8. ASSUME "io" \notin Faults PROVE FailingAcceptanceMarked'
    <3>1. mvp' = [calls[c].saved EXCEPT !.status = "ACCEPTED", !.failing = f]
      BY <2>3, <2>8 DEF SaveState, MayFail
    <3>2. mvp'.loop = calls[c].saved.loop /\ mvp'.failing = f
      BY <1>1, <3>1 DEF Blocks
    <3>3. calls[c].report = "FAIL_REVIEW" => f
      BY <2>1, <2>2 DEF Informed
    <3> QED BY <2>7, <3>2, <3>3 DEF FailingAcceptanceMarked
  <2> QED BY <2>6, <2>7, <2>8
<1> QED BY <1>3, <1>4

LEMMA BlockStep ==
  ASSUME MvpTyped, Reviewing, [MvpNext]_mvpVars
  PROVE  /\ mvp' \in Blocks /\ signed' \in [LoopIds -> Reports]
         /\ "io" \notin Faults /\ FailingAcceptanceMarked => FailingAcceptanceMarked'
<1>1. ASSUME Saved
      PROVE  /\ mvp' \in Blocks /\ signed' \in [LoopIds -> Reports]
             /\ FailingAcceptanceMarked => FailingAcceptanceMarked'
  BY <1>1 DEF Saved, MvpTyped, FailingAcceptanceMarked
<1>2. ASSUME NEW c \in Calls,
             \/ GiveUp(c) \/ BeginDesign(c) \/ DesignTests(c) \/ BeginBuild(c)
             \/ FailBuild(c) \/ RejectRebuild(c)
             \/ BeginTests(c) \/ BeginReview(c) \/ BeginReengage(c)
      PROVE  mvp' = mvp /\ signed' = signed
  <2>1. CASE \/ GiveUp(c) \/ BeginDesign(c) \/ BeginBuild(c)
             \/ FailBuild(c) \/ RejectRebuild(c)
    BY <2>1 DEF GiveUp, BeginDesign, BeginBuild, FailBuild, RejectRebuild, mvpHistory
  <2>2. CASE BeginTests(c) \/ BeginReview(c) \/ BeginReengage(c)
    BY <2>2 DEF BeginTests, BeginReview, BeginReengage, mvpHistory
  <2>3. CASE DesignTests(c)
    BY <2>3 DEF DesignTests, mvpHistory
  <2> QED BY <1>2, <2>1, <2>2, <2>3
<1>3. ASSUME RespondGate1 \/ ReviewersReject PROVE mvp' = mvp /\ signed' = signed
  BY <1>3 DEF RespondGate1, ReviewersReject, mvpHistory
<1>4. ASSUME mvp' = mvp, signed' = signed PROVE Saved
  BY <1>4 DEF Saved, MvpTyped
<1>5. ASSUME NEW c \in Calls, MvpTurn(c) PROVE Saved \/ ReplyAccept(c)
  BY <1>2, <1>4, <1>5, ScopeSaved, TurnsSaved, SliceSaved DEF MvpTurn
<1> QED BY <1>1, <1>3, <1>4, <1>5, AcceptSaved DEF MvpNext, mvpVars

LEMMA TypedStarts == MvpInit => MvpTyped /\ Reviewing /\ FailingAcceptanceMarked
<1>1. MvpInit => MvpInv
  BY MvpStarts
<1>2. MvpInit => Reviewing
  BY DEF MvpInit, Reviewing, Waiting, IdleCall
<1> QED BY <1>1, <1>2 DEF MvpInv, CallsOK, LoopsOK, BlockOK, MvpTyped

LEMMA TypedStep ==
  ASSUME MvpTyped, Reviewing, [MvpNext]_mvpVars
  PROVE  MvpTyped' /\ Reviewing'
BY BlockStep, LoopsTyped, DiskTyped, BuildTyped, CallsTyped, ReviewingStep DEF MvpTyped

\* The state and the requests in flight keep their types, whatever fails.
THEOREM MvpTypes == MvpSpec => [](MvpTyped /\ Reviewing)
<1>1. MvpTyped /\ Reviewing /\ [MvpNext]_mvpVars => MvpTyped' /\ Reviewing'
  BY TypedStep
<1>2. MvpInit => MvpTyped /\ Reviewing
  BY TypedStarts
<1> QED BY <1>1, <1>2, PTL DEF MvpSpec

\* However many requests overlap, a slice accepted with failing tests carries
\* its mark, while no write fails.
THEOREM FailuresMarkedOverlapping ==
  ASSUME "io" \notin Faults PROVE MvpSpec => []FailingAcceptanceMarked
<1> DEFINE Inv == MvpTyped /\ Reviewing /\ FailingAcceptanceMarked
<1>1. Inv /\ [MvpNext]_mvpVars => Inv'
  BY TypedStep, BlockStep
<1>2. MvpInit => Inv
  BY TypedStarts
<1>3. Inv => FailingAcceptanceMarked
  OBVIOUS
<1> QED BY <1>1, <1>2, <1>3, PTL DEF MvpSpec

-----------------------------------------------------------------------------
(* The inductive invariant while writes succeed and the client waits for   *)
(* the owner                                                               *)

\* Writes succeed, and no tests are run while a review is pending.
Undisturbed == Faults = {} /\ PatientClient

\* What the status says of the loop in use, of the build and of the failing
\* runs its owner has not seen.
ReviewOK ==
  /\ mvp.status = "INACTIVE" => orch[mvp.loop].state = "TEST_DESIGN"
  /\ mvp.status = "SCOPE_DERIVED" =>
       orch[mvp.loop].state \in {"ENV_REPORT", "TEST_DESIGN", "BUILDER", "ESCALATED"}
  /\ mvp.status = "BUILDING" => orch[mvp.loop].state \in {"BUILDER", "RUN_TESTS"}
  /\ mvp.status = "AWAITING_OWNER_REVIEW" =>
       orch[mvp.loop].state = "RUN_TESTS" /\ disk[mvp.loop].report # "none"
  /\ mvp.status = "ACCEPTED" => signed[mvp.loop] # "none"
  /\ mvp.status = "CAP_REACHED" => orch[mvp.loop].state = "ESCALATED"
  /\ mvp.status \in {"INACTIVE", "SCOPE_DERIVED"} =>
       disk[mvp.loop].feedback = 0 /\ unseen[mvp.loop] = 0
  /\ \/ mvp.status = "AWAITING_OWNER_REVIEW"
     \/ mvp.status = "BUILDING" /\ orch[mvp.loop].state = "RUN_TESTS"
     => files.changes = disk[mvp.loop].feedback
  /\ mvp.status \in {"BUILDING", "AWAITING_OWNER_REVIEW"} =>
       unseen[mvp.loop] <= orch[mvp.loop].count
  /\ \A l \in LoopIds : /\ unseen[l] <= 1
                        /\ orch[l].file = "absent" => unseen[l] = 0

\* A waiting request finds the loop where it left it.
Held(slot) ==
  /\ slot.stage \in {"deriveScope", "designTests"} =>
       orch[mvp.loop].state = "TEST_DESIGN"
  /\ slot.stage = "designTests" => mvp.status # "INACTIVE"
  /\ slot.stage = "buildProject" =>
       orch[mvp.loop].state = "BUILDER" /\ slot.changes = ChangesFor(mvp)
  /\ slot.stage = "runTests" => /\ orch[mvp.loop].state = "RUN_TESTS"
                                /\ mvp.status # "AWAITING_OWNER_REVIEW"
                                /\ slot.count = orch[mvp.loop].count
  /\ slot.stage = "ownerReview" => slot.report = disk[mvp.loop].report

HeldOK == \A c \in Calls : Held(calls[c])

ReviewInv == MvpInv /\ ReviewOK /\ HeldOK

\* The owner's part in one step: a loop enters the reviewers' state signed.
Decided ==
  \A l \in LoopIds :
    /\ orch'[l].state = "REVIEWER_CODE_AND_SECURITY"
    /\ orch[l].state # "REVIEWER_CODE_AND_SECURITY"
    => signed'[l] # "none"

-----------------------------------------------------------------------------
\* Without faults a call completes and a save is a save.
LEMMA NoFaults ==
  ASSUME Undisturbed
  PROVE  /\ \A l, writes : Tools!Outcomes(l, writes) = {Tools!Completed(l, writes)}
         /\ MayFail = {FALSE}
<1>1. Faults = {}
  BY DEF Undisturbed
<1>2. Faults \intersect {"io", "crash"} = {} /\ "torn" \notin Faults /\ "io" \notin Faults
  BY <1>1
<1> QED BY <1>2 DEF Tools!Outcomes, MayFail

LEMMA AllSaves ==
  ASSUME Undisturbed, NEW block, SaveState(block) PROVE mvp' = block
BY NoFaults DEF SaveState

LEMMA LoopFacts ==
  ASSUME Undisturbed, MvpInv
  PROVE  /\ orch \in [LoopIds -> Dirs] /\ mvp.loop \in LoopIds
         /\ orch[mvp.loop] \in Dirs /\ orch[mvp.loop].file = "ok"
         /\ orch[mvp.loop].count \in Nat
<1>1. "torn" \notin Faults
  BY DEF Undisturbed
<1> QED BY <1>1 DEF MvpInv, LoopsOK, Dirs

\* Only the loop in use moves.
LEMMA OnlyThatLoop ==
  ASSUME Undisturbed, MvpInv, NEW writes, NEW after, Moves(mvp.loop, writes, after)
  PROVE  /\ after = Tools!Completed(orch[mvp.loop], writes)
         /\ orch'[mvp.loop] = after
         /\ \A l \in LoopIds : l # mvp.loop => orch'[l] = orch[l]
BY NoFaults, LoopFacts DEF Moves

LEMMA Advanced ==
  ASSUME Undisturbed, MvpInv, NEW to \in OpenStates, NEW after,
         Moves(mvp.loop, AdvanceTo(mvp.loop, to), after)
  PROVE  /\ orch'[mvp.loop].state = to
         /\ orch'[mvp.loop].count = orch[mvp.loop].count
         /\ orch'[mvp.loop].file = "ok"
         /\ \A l \in LoopIds : l # mvp.loop => orch'[l] = orch[l]
         /\ Done(mvp.loop, AdvanceTo(mvp.loop, to), after)
<1>1. to \in States
  BY DEF OpenStates
<1> DEFINE w == AdvanceTo(mvp.loop, to)
<1>2. w = Tools!AdvanceState(orch[mvp.loop], to, "NORMAL")
  BY DEF AdvanceTo
<1> HIDE DEF w
<1>3. orch[mvp.loop] \in Dirs /\ orch[mvp.loop].file = "ok"
  BY LoopFacts
<1>4. /\ Tools!Completed(orch[mvp.loop], w).state = to
      /\ Tools!Completed(orch[mvp.loop], w).count = orch[mvp.loop].count
      /\ Tools!Completed(orch[mvp.loop], w).file = "ok"
      /\ w # <<>>
  BY <1>1, <1>2, <1>3, AdvanceDone
<1>5. /\ after = Tools!Completed(orch[mvp.loop], w)
      /\ orch'[mvp.loop] = after
      /\ \A l \in LoopIds : l # mvp.loop => orch'[l] = orch[l]
  BY OnlyThatLoop DEF w
<1> QED BY <1>4, <1>5 DEF Done, w

LEMMA WentBack ==
  ASSUME Undisturbed, MvpInv, NEW after,
         Moves(mvp.loop, Tools!LoopBack(orch[mvp.loop]), after)
  PROVE  /\ \/ /\ orch'[mvp.loop].state = "BUILDER"
               /\ orch'[mvp.loop].count = orch[mvp.loop].count + 1
            \/ /\ orch'[mvp.loop].state = "ESCALATED"
               /\ orch'[mvp.loop].count = orch[mvp.loop].count
         /\ orch'[mvp.loop].file = "ok" /\ orch'[mvp.loop] = after
         /\ \A l \in LoopIds : l # mvp.loop => orch'[l] = orch[l]
         /\ Done(mvp.loop, Tools!LoopBack(orch[mvp.loop]), after)
BY OnlyThatLoop, LoopFacts, LoopBackNear DEF Done

\* A turn that ends its request.
LEMMA NoneHeld ==
  ASSUME OneAtATime, MvpInv, NEW c \in Calls, Finish(c)
  PROVE  HeldOK'
<1>1. calls \in [Calls -> Slots]
  BY DEF MvpInv, CallsOK
<1>2. calls'[c].stage = "idle" /\ \A d \in Calls : d = c
  BY <1>1 DEF Finish, IdleCall, OneAtATime
<1> QED BY <1>2 DEF HeldOK, Held

-----------------------------------------------------------------------------
(* Steps without a wait in front of them                                   *)

\* A request is admitted, or gives up.
LEMMA QuietReview ==
  ASSUME ReviewInv, UNCHANGED <<mvp, orch, disk, files, mvpHistory>>
  PROVE  ReviewOK' /\ Decided
<1>1. ReviewOK'
  BY DEF ReviewInv, ReviewOK, mvpHistory
<1> QED BY <1>1 DEF Decided

LEMMA BeginHeld ==
  ASSUME OneAtATime, ReviewInv, NEW c \in Calls, NEW stage \in Stages,
         NEW criteria, NEW changes, WaitFor(c, stage, criteria, changes),
         UNCHANGED <<mvp, orch, disk>>,
         stage \in {"deriveScope", "designTests"} =>
           orch[mvp.loop].state = "TEST_DESIGN",
         stage = "designTests" => mvp.status # "INACTIVE",
         stage = "buildProject" =>
           orch[mvp.loop].state = "BUILDER" /\ changes = ChangesFor(mvp),
         stage = "runTests" => /\ orch[mvp.loop].state = "RUN_TESTS"
                               /\ mvp.status # "AWAITING_OWNER_REVIEW"
  PROVE  HeldOK'
<1> DEFINE slot == [stage |-> stage, saved |-> mvp, criteria |-> criteria,
                    changes |-> changes, report |-> disk[mvp.loop].report,
                    count |-> orch[mvp.loop].count]
<1>1. calls' = [calls EXCEPT ![c] = slot]
  BY DEF WaitFor
<1>2. /\ slot.stage = stage /\ slot.changes = changes
      /\ slot.report = disk[mvp.loop].report /\ slot.count = orch[mvp.loop].count
  OBVIOUS
<1> HIDE DEF slot
<1>3. calls'[c] = slot
  BY <1>1 DEF ReviewInv, MvpInv, CallsOK
<1>4. ChangesFor(mvp)' = ChangesFor(mvp)
  BY DEF ChangesFor
<1>5. Held(calls[c])'
  BY <1>2, <1>3, <1>4 DEF Held
<1>6. \A d \in Calls : d = c
  BY DEF OneAtATime
<1> QED BY <1>5, <1>6 DEF HeldOK

LEMMA BeginsServed ==
  ASSUME OneAtATime, Undisturbed, ReviewInv, NEW c \in Calls,
         \/ GiveUp(c) \/ BeginDesign(c) \/ BeginBuild(c) \/ BeginTests(c)
         \/ BeginReview(c) \/ BeginReengage(c)
  PROVE  ReviewOK' /\ HeldOK' /\ Decided
<1>1. UNCHANGED <<mvp, orch, disk, files, mvpHistory>>
  BY DEF GiveUp, BeginDesign, BeginBuild, BeginTests, BeginReview, BeginReengage
<1>2. ASSUME GiveUp(c) PROVE HeldOK'
  BY <1>2, NoneHeld DEF GiveUp, ReviewInv
<1>3. ASSUME BeginDesign(c) PROVE HeldOK'
  <2> DEFINE stage == IF mvp.status = "INACTIVE" THEN "deriveScope" ELSE "designTests"
  <2>1. stage \in Stages
    BY DEF Stages
  <2>2. WaitFor(c, stage, EffectiveCriteria(mvp), 0) /\ orch[mvp.loop].state = "TEST_DESIGN"
    BY <1>3 DEF BeginDesign, At
  <2> QED BY <1>1, <2>1, <2>2, BeginHeld
<1>4. ASSUME BeginBuild(c) PROVE HeldOK'
  <2>1. "buildProject" \in Stages
    BY DEF Stages
  <2> QED BY <1>1, <1>4, <2>1, BeginHeld DEF BeginBuild, At
<1>5. ASSUME BeginTests(c) PROVE HeldOK'
  <2>1. "runTests" \in Stages /\ PatientClient
    BY DEF Stages, Undisturbed
  <2> QED BY <1>1, <1>5, <2>1, BeginHeld DEF BeginTests, At
<1>6. ASSUME BeginReview(c) \/ BeginReengage(c) PROVE HeldOK'
  <2>1. "ownerReview" \in Stages /\ "reengage" \in Stages
    BY DEF Stages
  <2> QED BY <1>1, <1>6, <2>1, BeginHeld DEF BeginReview, BeginReengage
<1>7. ReviewOK' /\ Decided
  BY <1>1, QuietReview
<1> QED BY <1>2, <1>3, <1>4, <1>5, <1>6, <1>7

\* A loop that is answered at its gate, or sent back, is not one a request
\* waits on.
LEMMA GateServed ==
  ASSUME OneAtATime, Undisturbed, ReviewInv, RespondGate1 \/ ReviewersReject
  PROVE  ReviewOK' /\ HeldOK' /\ Decided
<1> USE DEF ReviewInv
<1>1. UNCHANGED <<mvp, disk, files, calls, mvpHistory>>
  BY DEF RespondGate1, ReviewersReject
<1>2. \/ /\ orch[mvp.loop].state = "ENV_REPORT"
         /\ orch'[mvp.loop].state \in {"TEST_DESIGN", "ESCALATED"}
      \/ /\ orch[mvp.loop].state = "REVIEWER_CODE_AND_SECURITY"
         /\ orch'[mvp.loop].state \in {"BUILDER", "ESCALATED"}
  <2>1. CASE RespondGate1
    <3>1. PICK response, after :
            /\ response \in GateResponses[1]
            /\ At(mvp.loop, "ENV_REPORT")
            /\ Moves(mvp.loop, Tools!Respond(orch[mvp.loop], 1, response), after)
      BY <2>1 DEF RespondGate1
    <3> QED BY <3>1, OnlyThatLoop, LoopFacts, Gate1Near DEF At
  <2>2. CASE ReviewersReject
    BY <2>2, WentBack DEF ReviewersReject, At
  <2> QED BY <2>1, <2>2
<1>3. /\ orch'[mvp.loop].file = "ok"
      /\ \A l \in LoopIds : l # mvp.loop => orch'[l] = orch[l]
  <2>1. CASE RespondGate1
    <3>1. PICK response, after :
            /\ response \in GateResponses[1]
            /\ Moves(mvp.loop, Tools!Respond(orch[mvp.loop], 1, response), after)
      BY <2>1 DEF RespondGate1
    <3> QED BY <3>1, OnlyThatLoop, LoopFacts, Gate1Near
  <2>2. CASE ReviewersReject
    BY <2>2, WentBack DEF ReviewersReject
  <2> QED BY <2>1, <2>2
<1>4. mvp' = mvp /\ disk' = disk /\ files' = files /\ signed' = signed /\ unseen' = unseen
      /\ calls' = calls
  BY <1>1 DEF mvpHistory
<1>5. mvp.loop \in LoopIds /\ mvp.status \in Statuses /\ orch[mvp.loop].file = "ok"
  BY LoopFacts DEF MvpInv, BlockOK, Blocks
<1>6. ReviewOK'
  <2>1. mvp.status \in {"SCOPE_DERIVED", "ACCEPTED"}
    BY <1>2, <1>5 DEF ReviewOK, Statuses
  <2>2. mvp.status = "SCOPE_DERIVED" => orch[mvp.loop].state = "ENV_REPORT"
    BY <1>2 DEF ReviewOK
  <2>3. \A l \in LoopIds : unseen'[l] <= 1 /\ (orch'[l].file = "absent" => unseen'[l] = 0)
    BY <1>3, <1>4 DEF ReviewOK
  <2>4. \/ mvp'.status = "ACCEPTED" /\ signed'[mvp'.loop] # "none"
        \/ /\ mvp'.status = "SCOPE_DERIVED"
           /\ orch'[mvp'.loop].state \in {"TEST_DESIGN", "ESCALATED"}
           /\ disk'[mvp'.loop].feedback = 0 /\ unseen'[mvp'.loop] = 0
    BY <1>2, <1>4, <2>1, <2>2 DEF ReviewOK
  <2> QED BY <2>3, <2>4 DEF ReviewOK
<1>7. HeldOK'
  <2>1. ASSUME NEW c \in Calls PROVE Held(calls[c])'
    <3>1. calls[c].stage \notin {"deriveScope", "designTests", "buildProject", "runTests"}
      BY <1>2 DEF HeldOK, Held
    <3>2. Held(calls[c])
      BY DEF HeldOK
    <3> QED BY <1>4, <3>1, <3>2 DEF Held
  <2> QED BY <2>1 DEF HeldOK
<1>8. Decided
  BY <1>2, <1>3 DEF Decided
<1> QED BY <1>6, <1>7, <1>8

-----------------------------------------------------------------------------
(* The steps of a request                                                  *)

\* What a waiting request relies on.
LEMMA ServedWaiter ==
  ASSUME ReviewInv, NEW c \in Calls
  PROVE  Held(calls[c]) /\ mvp \in Blocks /\ mvp.loop \in LoopIds
BY DEF ReviewInv, HeldOK, MvpInv, BlockOK, Blocks

\* The scope is derived, and the tests are designed next.
LEMMA ScopeServed ==
  ASSUME OneAtATime, Undisturbed, ReviewInv, NEW c \in Calls, DeriveScope(c)
  PROVE  ReviewOK' /\ HeldOK' /\ Decided
<1> USE DEF ReviewInv
<1>1. /\ Waiting(c, "deriveScope") /\ calls[c] \in Slots
      /\ calls[c].saved = mvp /\ mvp \in Blocks /\ mvp.loop \in LoopIds
      /\ orch[mvp.loop].state = "TEST_DESIGN" /\ mvp.status = "INACTIVE"
  <2>1. "deriveScope" \in Stages \ {"idle", "designTests"}
    BY DEF Stages
  <2>2. Waiting(c, "deriveScope")
    BY DEF DeriveScope
  <2> QED BY <2>1, <2>2, Restores, ServedWaiter DEF Held, Waiting, Placed
<1>2. PICK scope \in SUBSET Criteria :
        /\ disk' = [disk EXCEPT ![mvp.loop].scope = scope]
        /\ mvp' = [mvp EXCEPT !.status = "SCOPE_DERIVED", !.scope = scope]
        /\ calls' = [calls EXCEPT ![c].stage = "designTests", ![c].criteria = scope]
        /\ orch' = orch /\ files' = files /\ signed' = signed /\ unseen' = unseen
  BY <1>1, NoFaults DEF DeriveScope, mvpHistory
<1>3. mvp'.loop = mvp.loop /\ mvp'.status = "SCOPE_DERIVED"
  BY <1>1, <1>2 DEF Blocks
<1>4. disk'[mvp.loop].feedback = disk[mvp.loop].feedback
  <2>1. disk \in [LoopIds -> Artifacts]
    BY DEF MvpInv, BlockOK
  <2> QED BY <1>1, <1>2, <2>1 DEF Artifacts
<1>5. ReviewOK'
  BY <1>1, <1>2, <1>3, <1>4 DEF ReviewOK
<1>6. HeldOK'
  <2>1. calls'[c].stage = "designTests"
    <3>1. calls \in [Calls -> Slots]
      BY DEF MvpInv, CallsOK
    <3> QED BY <1>1, <1>2, <3>1 DEF Slots
  <2>2. Held(calls[c])'
    BY <1>1, <1>2, <1>3, <2>1 DEF Held
  <2>3. \A d \in Calls : d = c
    BY DEF OneAtATime
  <2> QED BY <2>2, <2>3 DEF HeldOK
<1>7. Decided
  BY <1>2 DEF Decided
<1> QED BY <1>5, <1>6, <1>7

LEMMA DesignServed ==
  ASSUME OneAtATime, Undisturbed, ReviewInv, NEW c \in Calls, DesignTests(c)
  PROVE  ReviewOK' /\ HeldOK' /\ Decided
<1> USE DEF ReviewInv
<1>1. /\ calls[c].saved.loop = mvp.loop /\ mvp \in Blocks /\ mvp.loop \in LoopIds
      /\ orch[mvp.loop].state = "TEST_DESIGN" /\ mvp.status # "INACTIVE"
      /\ Finish(c)
  BY Waiter, ServedWaiter DEF DesignTests, Held, Waiting, Idle
<1>2. /\ mvp' = mvp /\ files' = files /\ signed' = signed /\ unseen' = unseen
      /\ disk' = [disk EXCEPT ![mvp.loop].plan = calls[c].criteria]
  BY <1>1, NoFaults DEF DesignTests, mvpHistory
<1>3. PICK after : Moves(mvp.loop, AdvanceTo(mvp.loop, "BUILDER"), after)
  BY <1>1 DEF DesignTests
<1>4. /\ orch'[mvp.loop].state = "BUILDER" /\ orch'[mvp.loop].file = "ok"
      /\ orch'[mvp.loop].count = orch[mvp.loop].count
      /\ \A l \in LoopIds : l # mvp.loop => orch'[l] = orch[l]
  <2>1. "BUILDER" \in OpenStates
    BY OpenStatesListed
  <2> QED BY <1>3, <2>1, Advanced
<1>5. disk'[mvp.loop].feedback = disk[mvp.loop].feedback
  <2>1. disk \in [LoopIds -> Artifacts]
    BY DEF MvpInv, BlockOK
  <2> QED BY <1>1, <1>2, <2>1 DEF Artifacts
<1>6. mvp.status \in {"SCOPE_DERIVED", "ACCEPTED"}
  BY <1>1 DEF ReviewOK, Blocks, Statuses
<1>7. ReviewOK'
  <2>1. \A l \in LoopIds : unseen'[l] <= 1 /\ (orch'[l].file = "absent" => unseen'[l] = 0)
    BY <1>2, <1>4 DEF ReviewOK
  <2>2. \/ mvp'.status = "ACCEPTED" /\ signed'[mvp'.loop] # "none"
        \/ /\ mvp'.status = "SCOPE_DERIVED" /\ orch'[mvp'.loop].state = "BUILDER"
           /\ disk'[mvp'.loop].feedback = 0 /\ unseen'[mvp'.loop] = 0
    BY <1>2, <1>4, <1>5, <1>6 DEF ReviewOK
  <2> QED BY <2>1, <2>2 DEF ReviewOK
<1>8. Decided
  BY <1>4 DEF Decided
<1> QED BY <1>1, <1>7, <1>8, NoneHeld

LEMMA BuildServed ==
  ASSUME OneAtATime, Undisturbed, ReviewInv, NEW c \in Calls,
         FinishBuild(c) \/ FailBuild(c) \/ RejectRebuild(c)
  PROVE  ReviewOK' /\ HeldOK' /\ Decided
<1> USE DEF ReviewInv
<1>1. /\ Waiting(c, "buildProject") /\ Finish(c)
      /\ disk' = disk /\ signed' = signed /\ unseen' = unseen
  BY DEF FinishBuild, FailBuild, RejectRebuild, mvpHistory
<1>2. /\ calls[c].saved = mvp /\ mvp \in Blocks /\ mvp.loop \in LoopIds
      /\ orch[mvp.loop].state = "BUILDER" /\ calls[c].changes = ChangesFor(mvp)
  <2>1. "buildProject" \in Stages \ {"idle", "designTests"}
    BY DEF Stages
  <2> QED BY <1>1, <2>1, Restores, ServedWaiter DEF Held, Waiting
<1>3. Built(c).changes = ChangesFor(mvp)
  BY <1>2 DEF Built
<1>4. mvp.status \in {"SCOPE_DERIVED", "BUILDING", "ACCEPTED"}
  BY <1>2 DEF ReviewOK, Blocks, Statuses
<1>5. Built(c).changes = disk[mvp.loop].feedback \/ mvp.status = "ACCEPTED"
  BY <1>3, <1>4 DEF ChangesFor, ReviewOK
<1>6. CASE FinishBuild(c)
  <2>1. /\ orch'[mvp.loop].state = "RUN_TESTS" /\ orch'[mvp.loop].file = "ok"
        /\ orch'[mvp.loop].count = orch[mvp.loop].count
        /\ \A l \in LoopIds : l # mvp.loop => orch'[l] = orch[l]
    <3>1. "RUN_TESTS" \in OpenStates
      BY OpenStatesListed
    <3> QED BY <1>2, <1>6, <3>1, Advanced DEF FinishBuild
  <2>2. /\ mvp'.loop = mvp.loop
        /\ mvp'.status = IF mvp.status = "SCOPE_DERIVED" THEN "BUILDING" ELSE mvp.status
        /\ files' = Built(c)
    <3>1. /\ files' = Built(c)
          /\ mvp' = IF mvp.status = "SCOPE_DERIVED"
                      THEN [mvp EXCEPT !.status = "BUILDING"] ELSE mvp
      BY <1>2, <1>6, AllSaves DEF FinishBuild, FirstBuild
    <3> QED BY <1>2, <3>1 DEF Blocks
  <2>3. unseen[mvp.loop] <= orch[mvp.loop].count \/ mvp.status = "ACCEPTED"
    BY <1>4, LoopFacts DEF ReviewOK
  <2>4. \A l \in LoopIds : unseen'[l] <= 1 /\ (orch'[l].file = "absent" => unseen'[l] = 0)
    BY <1>1, <2>1 DEF ReviewOK
  <2>5. \/ mvp'.status = "ACCEPTED" /\ signed'[mvp'.loop] # "none"
        \/ /\ mvp'.status = "BUILDING" /\ orch'[mvp'.loop].state = "RUN_TESTS"
           /\ files'.changes = disk'[mvp'.loop].feedback
           /\ unseen'[mvp'.loop] <= orch'[mvp'.loop].count
    BY <1>1, <1>4, <1>5, <2>1, <2>2, <2>3 DEF ReviewOK
  <2>6. ReviewOK'
    BY <2>4, <2>5 DEF ReviewOK
  <2>7. Decided
    BY <2>1 DEF Decided
  <2> QED BY <1>1, <2>6, <2>7, NoneHeld
<1>7. CASE FailBuild(c) \/ RejectRebuild(c)
  <2>1. mvp' = mvp /\ orch' = orch
    BY <1>7 DEF FailBuild, RejectRebuild
  <2>2. ReviewOK'
    BY <1>1, <1>2, <1>4, <2>1 DEF ReviewOK
  <2>3. Decided
    BY <2>1 DEF Decided
  <2> QED BY <1>1, <2>2, <2>3, NoneHeld
<1> QED BY <1>6, <1>7

\* What the test run relies on.
LEMMA Tester ==
  ASSUME Undisturbed, ReviewInv, NEW c \in Calls, Waiting(c, "runTests")
  PROVE  /\ calls[c].saved = mvp /\ mvp \in Blocks /\ mvp.loop \in LoopIds
         /\ orch[mvp.loop].state = "RUN_TESTS"
         /\ mvp.status \in {"BUILDING", "ACCEPTED"}
         /\ calls[c].count = orch[mvp.loop].count
<1>1. "runTests" \in Stages \ {"idle", "designTests"} /\ MvpInv
  BY DEF Stages, ReviewInv
<1>2. /\ calls[c].saved = mvp /\ mvp \in Blocks /\ mvp.loop \in LoopIds
      /\ orch[mvp.loop].state = "RUN_TESTS"
      /\ mvp.status # "AWAITING_OWNER_REVIEW"
      /\ calls[c].count = orch[mvp.loop].count
  BY <1>1, Restores, ServedWaiter DEF Held, Waiting
<1>3. mvp.status \in {"BUILDING", "ACCEPTED"}
  BY <1>2 DEF ReviewInv, ReviewOK, Blocks, Statuses
<1> QED BY <1>2, <1>3

\* The owner is shown a report of a build with all they asked for.
LEMMA ReportServed ==
  ASSUME OneAtATime, Undisturbed, ReviewInv, NEW c \in Calls,
         Waiting(c, "runTests"), AwaitsOwner(c),
         NEW kind \in {"PASS_REVIEW", "FAIL_REVIEW"},
         NEW artifacts, artifacts \in [LoopIds -> Artifacts],
         artifacts[mvp.loop].feedback = disk[mvp.loop].feedback,
         EnterOwnerReview(c, kind, artifacts), Finish(c),
         orch' = orch, files' = files, signed' = signed
  PROVE  ReviewOK' /\ HeldOK' /\ Decided
<1> USE DEF ReviewInv
<1>1. /\ calls[c].saved = mvp /\ mvp \in Blocks /\ mvp.loop \in LoopIds
      /\ orch[mvp.loop].state = "RUN_TESTS" /\ mvp.status = "BUILDING"
  BY Tester DEF AwaitsOwner
<1>2. /\ disk' = [artifacts EXCEPT ![mvp.loop].report = kind]
      /\ SaveState([mvp EXCEPT !.status = "AWAITING_OWNER_REVIEW"])
      /\ unseen' = [unseen EXCEPT ![mvp.loop] = 0]
  <2>1. "AWAITING_OWNER_REVIEW" \in MvpTransitions[mvp.status]
    BY <1>1 DEF MvpTransitions
  <2> QED BY <1>1, <2>1, NoFaults DEF EnterOwnerReview
<1>3. mvp'.loop = mvp.loop /\ mvp'.status = "AWAITING_OWNER_REVIEW"
  <2>1. mvp' = [mvp EXCEPT !.status = "AWAITING_OWNER_REVIEW"]
    BY <1>2, AllSaves
  <2> QED BY <1>1, <2>1 DEF Blocks
<1>4. /\ disk'[mvp.loop].report # "none"
      /\ disk'[mvp.loop].feedback = disk[mvp.loop].feedback
  BY <1>1, <1>2 DEF Artifacts
<1>5. \A l \in LoopIds : unseen'[l] <= 1 /\ (orch'[l].file = "absent" => unseen'[l] = 0)
  <2>1. unseen \in [LoopIds -> 0 .. 2]
    BY DEF MvpInv, BlockOK
  <2> QED BY <1>1, <1>2, <2>1 DEF ReviewOK
<1>6. unseen'[mvp.loop] <= orch'[mvp.loop].count
  <2>1. unseen \in [LoopIds -> 0 .. 2] /\ orch[mvp.loop].count \in Nat
    BY LoopFacts DEF MvpInv, BlockOK
  <2>2. unseen'[mvp.loop] = 0
    BY <1>1, <1>2, <2>1
  <2> QED BY <2>1, <2>2
<1>7. files'.changes = disk'[mvp.loop].feedback
  BY <1>1, <1>4 DEF ReviewOK
<1>8. ReviewOK'
  BY <1>1, <1>3, <1>4, <1>5, <1>6, <1>7 DEF ReviewOK
<1>9. Decided
  BY DEF Decided
<1> QED BY <1>8, <1>9, NoneHeld

\* A passing run of an accepted slice moves on; of one under construction it
\* brings in the owner.
LEMMA PassServed ==
  ASSUME OneAtATime, Undisturbed, ReviewInv, NEW c \in Calls, TestsPass(c)
  PROVE  ReviewOK' /\ HeldOK' /\ Decided
<1> USE DEF ReviewInv
<1>1. /\ Waiting(c, "runTests") /\ Finish(c)
      /\ files' = files /\ signed' = signed
  BY DEF TestsPass
<1>2. /\ calls[c].saved = mvp /\ mvp \in Blocks /\ mvp.loop \in LoopIds
      /\ mvp.status \in {"BUILDING", "ACCEPTED"}
  BY <1>1, Tester
<1>3. CASE AwaitsOwner(c)
  <2>1. disk \in [LoopIds -> Artifacts]
    BY DEF MvpInv, BlockOK
  <2> QED BY <1>1, <1>3, <2>1, ReportServed DEF TestsPass
<1>4. CASE ~AwaitsOwner(c)
  <2>1. mvp.status = "ACCEPTED" /\ mvp' = mvp /\ disk' = disk /\ unseen' = unseen
    BY <1>2, <1>4 DEF TestsPass, AwaitsOwner
  <2>2. /\ orch'[mvp.loop].file = "ok"
        /\ \A l \in LoopIds : l # mvp.loop => orch'[l] = orch[l]
    <3>1. "REVIEWER_CODE_AND_SECURITY" \in OpenStates
      BY OpenStatesListed
    <3> QED BY <1>2, <1>4, <3>1, Advanced DEF TestsPass
  <2>3. signed'[mvp.loop] # "none"
    BY <1>1, <2>1 DEF ReviewOK
  <2>4. \A l \in LoopIds : unseen'[l] <= 1 /\ (orch'[l].file = "absent" => unseen'[l] = 0)
    BY <2>1, <2>2 DEF ReviewOK
  <2>5. ReviewOK'
    BY <2>1, <2>3, <2>4 DEF ReviewOK
  <2>6. Decided
    BY <2>2, <2>3 DEF Decided
  <2> QED BY <1>1, <2>5, <2>6, NoneHeld
<1> QED BY <1>3, <1>4

\* A failing run is repaired in silence only when no run before it was, and
\* the owner has asked for nothing.
LEMMA SilentRepair ==
  ASSUME Undisturbed, ReviewInv, NEW c \in Calls, Waiting(c, "runTests"),
         AwaitsOwner(c), ~OwnerArbitrates(c)
  PROVE  unseen[mvp.loop] = 0
<1>1. /\ calls[c].saved = mvp /\ mvp.loop \in LoopIds /\ mvp.status = "BUILDING"
      /\ calls[c].count = orch[mvp.loop].count
  BY Tester DEF AwaitsOwner
<1>2. ~(orch[mvp.loop].count >= 1)
  BY <1>1 DEF OwnerArbitrates
<1>3. orch[mvp.loop].count \in Nat /\ unseen[mvp.loop] \in 0 .. 2
  BY <1>1, LoopFacts DEF ReviewInv, MvpInv, BlockOK
<1>4. unseen[mvp.loop] <= orch[mvp.loop].count
  BY <1>1 DEF ReviewInv, ReviewOK
<1> QED BY <1>2, <1>3, <1>4

LEMMA FailServed ==
  ASSUME OneAtATime, Undisturbed, ReviewInv, NEW c \in Calls, TestsFail(c)
  PROVE  ReviewOK' /\ HeldOK' /\ Decided
<1> USE DEF ReviewInv
<1>1. Waiting(c, "runTests") /\ Finish(c) /\ signed' = signed
  BY DEF TestsFail
<1>2. /\ calls[c].saved = mvp /\ mvp \in Blocks /\ mvp.loop \in LoopIds
      /\ mvp.status \in {"BUILDING", "ACCEPTED"}
  BY <1>1, Tester
<1>3. CASE OwnerArbitrates(c)
  <2>1. PICK kept \in Snapshots(disk[mvp.loop].best) :
          /\ EnterOwnerReview(c, "FAIL_REVIEW", [disk EXCEPT ![mvp.loop].best = kept])
          /\ UNCHANGED <<orch, files>>
    BY <1>2, <1>3 DEF TestsFail
  <2>2. PICK artifacts : artifacts = [disk EXCEPT ![mvp.loop].best = kept]
    OBVIOUS
  <2>3. /\ Carries(artifacts)
        /\ artifacts[mvp.loop] = [disk[mvp.loop] EXCEPT !.best = kept]
    <3>1. orch[mvp.loop].state = "RUN_TESTS"
      BY <1>1, Tester
    <3> QED BY <2>2, <3>1, SnapshotKept
  <2>4. /\ artifacts \in [LoopIds -> Artifacts]
        /\ artifacts[mvp.loop].feedback = disk[mvp.loop].feedback
    <3>1. disk[mvp.loop] \in Artifacts
      BY <1>2 DEF MvpInv, BlockOK
    <3> QED BY <2>3, <3>1 DEF Artifacts, Carries
  <2>5. EnterOwnerReview(c, "FAIL_REVIEW", artifacts) /\ orch' = orch /\ files' = files
    BY <2>1, <2>2
  <2> QED BY <1>1, <1>3, <2>4, <2>5, ReportServed DEF OwnerArbitrates
<1>4. CASE ~OwnerArbitrates(c)
  <2>1. PICK kept, after :
          /\ Moves(mvp.loop, Tools!LoopBack(orch[mvp.loop]), after)
          /\ IF /\ Done(mvp.loop, Tools!LoopBack(orch[mvp.loop]), after)
                /\ after.state = "ESCALATED"
               THEN Escalated(c, [disk EXCEPT ![mvp.loop].best = kept])
               ELSE UNCHANGED <<mvp, files>>
    BY <1>2, <1>4 DEF TestsFail
  <2>2. /\ Moves(mvp.loop, Tools!LoopBack(orch[mvp.loop]), after)
        /\ IF /\ Done(mvp.loop, Tools!LoopBack(orch[mvp.loop]), after)
              /\ after.state = "ESCALATED" /\ AwaitsOwner(c)
              /\ mvp.status = "BUILDING"
             THEN SaveState([mvp EXCEPT !.status = "CAP_REACHED"])
             ELSE UNCHANGED mvp
    BY <2>1 DEF Escalated
  <2>3. /\ \/ /\ orch'[mvp.loop].state = "BUILDER"
              /\ orch'[mvp.loop].count = orch[mvp.loop].count + 1
           \/ /\ orch'[mvp.loop].state = "ESCALATED"
              /\ orch'[mvp.loop].count = orch[mvp.loop].count
        /\ orch'[mvp.loop].file = "ok" /\ orch'[mvp.loop] = after
        /\ \A l \in LoopIds : l # mvp.loop => orch'[l] = orch[l]
        /\ Done(mvp.loop, Tools!LoopBack(orch[mvp.loop]), after)
    BY <2>2, WentBack
  <2>4. Decided
    BY <2>3 DEF Decided
  <2>5. unseen \in [LoopIds -> 0 .. 2]
    BY DEF MvpInv, BlockOK
  <2>6. CASE ~AwaitsOwner(c)
    <3>1. mvp.status = "ACCEPTED" /\ mvp' = mvp /\ unseen' = unseen
      BY <1>2, <1>4, <2>2, <2>6 DEF TestsFail, AwaitsOwner
    <3>2. \A l \in LoopIds : unseen'[l] <= 1 /\ (orch'[l].file = "absent" => unseen'[l] = 0)
      BY <2>3, <3>1 DEF ReviewOK
    <3>3. signed'[mvp.loop] # "none"
      BY <1>1, <3>1 DEF ReviewOK
    <3>4. ReviewOK'
      BY <3>1, <3>2, <3>3 DEF ReviewOK
    <3> QED BY <1>1, <2>4, <3>4, NoneHeld
  <2>7. CASE AwaitsOwner(c)
    <3>1. mvp.status = "BUILDING"
      BY <1>2, <2>7 DEF AwaitsOwner
    <3>2. unseen[mvp.loop] = 0
      BY <1>1, <1>4, <2>7, SilentRepair
    <3>3. unseen'[mvp.loop] = 1 /\ \A l \in LoopIds : l # mvp.loop => unseen'[l] = unseen[l]
      <4>1. unseen' = [unseen EXCEPT ![mvp.loop] = IF @ < 2 THEN @ + 1 ELSE 2]
        BY <1>2, <1>4, <2>7 DEF TestsFail
      <4> QED BY <1>2, <2>5, <3>2, <4>1
    <3>4. \A l \in LoopIds : unseen'[l] <= 1 /\ (orch'[l].file = "absent" => unseen'[l] = 0)
      BY <2>3, <3>3 DEF ReviewOK
    <3>5. \/ /\ mvp'.loop = mvp.loop /\ mvp'.status = "CAP_REACHED"
             /\ orch'[mvp.loop].state = "ESCALATED"
          \/ /\ mvp' = mvp /\ orch'[mvp.loop].state = "BUILDER"
             /\ orch'[mvp.loop].count = orch[mvp.loop].count + 1
      <4>1. CASE orch'[mvp.loop].state = "ESCALATED"
        <5>1. mvp' = [mvp EXCEPT !.status = "CAP_REACHED"]
          BY <2>2, <2>3, <2>7, <3>1, <4>1, AllSaves
        <5> QED BY <1>2, <4>1, <5>1 DEF Blocks
      <4>2. CASE orch'[mvp.loop].state # "ESCALATED"
        BY <2>2, <2>3, <4>2
      <4> QED BY <4>1, <4>2
    <3>6. CASE mvp'.status = "CAP_REACHED"
      <4>1. mvp'.loop = mvp.loop /\ orch'[mvp.loop].state = "ESCALATED"
        BY <3>1, <3>5, <3>6
      <4>2. ReviewOK'
        BY <3>4, <3>6, <4>1 DEF ReviewOK
      <4> QED BY <1>1, <2>4, <4>2, NoneHeld
    <3>7. CASE mvp' = mvp
      <4>1. orch'[mvp.loop].state = "BUILDER" /\ orch'[mvp.loop].count = orch[mvp.loop].count + 1
        BY <3>1, <3>5, <3>7
      <4>2. unseen'[mvp.loop] <= orch'[mvp.loop].count
        BY <3>3, <4>1, LoopFacts
      <4>3. ReviewOK'
        BY <3>1, <3>4, <3>7, <4>1, <4>2 DEF ReviewOK
      <4> QED BY <1>1, <2>4, <4>3, NoneHeld
    <3> QED BY <3>5, <3>6, <3>7
  <2> QED BY <2>6, <2>7
<1> QED BY <1>3, <1>4

\* What the owner's reply relies on.
LEMMA Replier ==
  ASSUME ReviewInv, NEW c \in Calls, Waiting(c, "ownerReview")
  PROVE  /\ calls[c].saved = mvp /\ mvp \in Blocks /\ mvp.loop \in LoopIds
         /\ mvp.status = "AWAITING_OWNER_REVIEW"
         /\ calls[c].report = disk[mvp.loop].report
         /\ calls[c].report # "none"
<1>1. "ownerReview" \in Stages \ {"idle", "designTests"} /\ MvpInv
  BY DEF Stages, ReviewInv
<1>2. /\ calls[c].saved = mvp /\ mvp \in Blocks /\ mvp.loop \in LoopIds
      /\ mvp.status = "AWAITING_OWNER_REVIEW"
      /\ calls[c].report = disk[mvp.loop].report
  BY <1>1, Restores, ServedWaiter DEF Held, Waiting, Placed
<1> QED BY <1>2 DEF ReviewInv, ReviewOK

LEMMA UnclearServed ==
  ASSUME OneAtATime, Undisturbed, ReviewInv, NEW c \in Calls, ReplyUnclear(c)
  PROVE  ReviewOK' /\ HeldOK' /\ Decided
<1>1. /\ Waiting(c, "ownerReview") /\ SaveState(calls[c].saved) /\ Finish(c)
      /\ UNCHANGED <<orch, disk, files, mvpHistory>>
  BY DEF ReplyUnclear
<1>2. mvp' = mvp
  BY <1>1, Replier, AllSaves
<1> QED BY <1>1, <1>2, QuietReview, NoneHeld DEF ReviewInv

\* An acceptance signs the report the owner was shown, and the loop moves on.
LEMMA AcceptServed ==
  ASSUME OneAtATime, Undisturbed, ReviewInv, NEW c \in Calls, ReplyAccept(c)
  PROVE  ReviewOK' /\ HeldOK' /\ Decided
<1> USE DEF ReviewInv
<1> DEFINE w == AdvanceTo(mvp.loop, "REVIEWER_CODE_AND_SECURITY")
<1>1. Waiting(c, "ownerReview") /\ Finish(c) /\ unseen' = unseen
  BY DEF ReplyAccept
<1>2. /\ calls[c].saved = mvp /\ mvp \in Blocks /\ mvp.loop \in LoopIds
      /\ mvp.status = "AWAITING_OWNER_REVIEW" /\ calls[c].report # "none"
  BY <1>1, Replier
<1>3. PICK decision \in {"ACCEPT", "ACCEPT_WITH_FAILING_TESTS"},
           after \in Tools!Outcomes(orch[mvp.loop], w) :
        /\ Moves(mvp.loop, w, after)
        /\ IF Done(mvp.loop, w, after)
             THEN /\ SaveState([mvp EXCEPT
                       !.status  = StatusAfter(@, "ACCEPTED"),
                       !.failing = @ \/ decision # "ACCEPT"])
                  /\ accepted' = accepted \union mvp.scope
                  /\ signed' = [signed EXCEPT ![mvp.loop] = calls[c].report]
             ELSE UNCHANGED <<mvp, accepted, signed>>
  BY <1>2 DEF ReplyAccept
<1>4. /\ orch'[mvp.loop].file = "ok" /\ Done(mvp.loop, w, after)
      /\ \A l \in LoopIds : l # mvp.loop => orch'[l] = orch[l]
  <2>1. "REVIEWER_CODE_AND_SECURITY" \in OpenStates
    BY OpenStatesListed
  <2> QED BY <1>3, <2>1, Advanced
<1> HIDE DEF w
<1>5. mvp'.loop = mvp.loop /\ mvp'.status = "ACCEPTED"
  <2>1. mvp' = [mvp EXCEPT !.status  = StatusAfter(@, "ACCEPTED"),
                           !.failing = @ \/ decision # "ACCEPT"]
    BY <1>3, <1>4, AllSaves
  <2>2. StatusAfter(mvp.status, "ACCEPTED") = "ACCEPTED"
    BY <1>2 DEF StatusAfter, MvpTransitions
  <2> QED BY <1>2, <2>1, <2>2 DEF Blocks
<1>6. signed'[mvp.loop] # "none"
  <2>1. signed \in [LoopIds -> Reports]
    BY DEF MvpInv, BlockOK
  <2> QED BY <1>2, <1>3, <1>4, <2>1
<1>7. \A l \in LoopIds : unseen'[l] <= 1 /\ (orch'[l].file = "absent" => unseen'[l] = 0)
  BY <1>1, <1>4 DEF ReviewOK
<1>8. ReviewOK'
  BY <1>5, <1>6, <1>7 DEF ReviewOK
<1>9. Decided
  BY <1>4, <1>6 DEF Decided
<1> QED BY <1>1, <1>8, <1>9, NoneHeld

\* A request for changes sends the loop back, or finds the cap used up.
LEMMA RefineServed ==
  ASSUME OneAtATime, Undisturbed, ReviewInv, NEW c \in Calls, ReplyRefine(c)
  PROVE  ReviewOK' /\ HeldOK' /\ Decided
<1> USE DEF ReviewInv
<1>1. /\ Waiting(c, "ownerReview") /\ Finish(c)
      /\ unseen' = unseen /\ signed' = signed
  BY DEF ReplyRefine, mvpHistory
<1>2. /\ calls[c].saved = mvp /\ mvp \in Blocks /\ mvp.loop \in LoopIds
      /\ mvp.status = "AWAITING_OWNER_REVIEW"
  BY <1>1, Replier
<1>3. PICK after :
        /\ Moves(mvp.loop, Tools!LoopBack(orch[mvp.loop]), after)
        /\ IF Done(mvp.loop, Tools!LoopBack(orch[mvp.loop]), after)
             THEN SaveState([mvp EXCEPT !.status =
                    StatusAfter(@, IF after.state = "ESCALATED"
                      THEN "CAP_REACHED" ELSE "BUILDING")])
             ELSE UNCHANGED mvp
  BY <1>2, NoFaults DEF ReplyRefine
<1>4. /\ \/ /\ orch'[mvp.loop].state = "BUILDER"
            /\ orch'[mvp.loop].count = orch[mvp.loop].count + 1
         \/ /\ orch'[mvp.loop].state = "ESCALATED"
            /\ orch'[mvp.loop].count = orch[mvp.loop].count
      /\ orch'[mvp.loop].file = "ok" /\ orch'[mvp.loop] = after
      /\ \A l \in LoopIds : l # mvp.loop => orch'[l] = orch[l]
      /\ Done(mvp.loop, Tools!LoopBack(orch[mvp.loop]), after)
  BY <1>3, WentBack
<1> DEFINE to == IF after.state = "ESCALATED" THEN "CAP_REACHED" ELSE "BUILDING"
<1>5. mvp'.loop = mvp.loop /\ mvp'.status = to
  <2>1. mvp' = [mvp EXCEPT !.status = StatusAfter(@, to)]
    BY <1>3, <1>4, AllSaves
  <2>2. StatusAfter(mvp.status, to) = to
    BY <1>2 DEF StatusAfter, MvpTransitions
  <2> QED BY <1>2, <2>1, <2>2 DEF Blocks
<1>6. \A l \in LoopIds : unseen'[l] <= 1 /\ (orch'[l].file = "absent" => unseen'[l] = 0)
  BY <1>1, <1>4 DEF ReviewOK
<1>7. \/ mvp'.status = "CAP_REACHED" /\ orch'[mvp.loop].state = "ESCALATED"
      \/ /\ mvp'.status = "BUILDING" /\ orch'[mvp.loop].state = "BUILDER"
         /\ orch'[mvp.loop].count = orch[mvp.loop].count + 1
  BY <1>4, <1>5
<1>8. unseen'[mvp.loop] <= orch[mvp.loop].count + 1
  <2>1. unseen[mvp.loop] \in 0 .. 2 /\ orch[mvp.loop].count \in Nat
    BY <1>2, LoopFacts DEF MvpInv, BlockOK
  <2>2. unseen[mvp.loop] <= orch[mvp.loop].count
    BY <1>2 DEF ReviewOK
  <2> QED BY <1>1, <2>1, <2>2
<1>9. ReviewOK'
  <2>1. CASE mvp'.status = "CAP_REACHED"
    <3>1. orch'[mvp.loop].state = "ESCALATED"
      BY <1>7, <2>1
    <3> QED BY <1>5, <1>6, <2>1, <3>1 DEF ReviewOK
  <2>2. CASE mvp'.status = "BUILDING"
    <3>1. orch'[mvp.loop].state = "BUILDER" /\ unseen'[mvp.loop] <= orch'[mvp.loop].count
      BY <1>7, <1>8, <2>2
    <3>2. mvp'.loop = mvp.loop
      BY <1>5
    <3> HIDE DEF to
    <3> QED BY <1>6, <2>2, <3>1, <3>2 DEF ReviewOK
  <2> QED BY <1>7, <2>1, <2>2
<1>10. Decided
  BY <1>4 DEF Decided
<1> QED BY <1>1, <1>9, <1>10, NoneHeld

\* A further slice starts where the first one did: nothing asked for, no
\* failing run.
LEMMA SliceServed ==
  ASSUME OneAtATime, Undisturbed, ReviewInv, NEW c \in Calls, Reengage(c)
  PROVE  ReviewOK' /\ HeldOK' /\ Decided
<1> USE DEF ReviewInv
<1>1. /\ calls[c].saved = mvp /\ mvp \in Blocks /\ Finish(c)
  <2>1. "reengage" \in Stages \ {"idle", "designTests"}
    BY DEF Stages
  <2> QED BY <2>1, Restores DEF Reengage
<1>2. PICK l \in LoopIds, scope \in NextScopes(mvp) :
        NewLoop(l) /\ OpenSlice(mvp, l, scope)
  BY <1>1 DEF Reengage
<1>3. orch[l].file = "absent" /\ scope \in SUBSET Criteria
  BY <1>2 DEF NewLoop, NextScopes, ValidNextScope, ValidScope
<1>4. files' = files /\ signed' = signed /\ unseen' = unseen
  BY DEF Reengage, mvpHistory
<1> DEFINE new == [NoDisk EXCEPT !.spec = TRUE, !.scope = scope]
<1>5. /\ orch' = [orch EXCEPT ![l] = Walked[Len(SliceWalk)]]
      /\ disk' = [disk EXCEPT ![l] = new]
      /\ SaveState(NextSlice(mvp, l, scope))
  <2>1. "io" \notin Faults
    BY DEF Undisturbed
  <2> QED BY <1>2, <2>1 DEF OpenSlice
<1>6. new.feedback = 0
  BY DEF NoDisk
<1> HIDE DEF new
<1>7. mvp'.status = "SCOPE_DERIVED" /\ mvp'.loop = l
  <2>1. mvp' = NextSlice(mvp, l, scope)
    BY <1>5, AllSaves
  <2> QED BY <1>1, <2>1 DEF NextSlice, Blocks
<1>8. /\ orch'[l].state = "ENV_REPORT" /\ orch'[l].file = "ok"
      /\ \A k \in LoopIds : k # l => orch'[k] = orch[k]
  <2>1. Len(SliceWalk) = 6 /\ SliceWalk[6] = "ENV_REPORT" /\ 6 \in 1 .. 6
    BY DEF SliceWalk
  <2>2. Walked[6].state = "ENV_REPORT" /\ Walked[6].file = "ok"
    BY <2>1, WalkedAt
  <2>3. orch \in [LoopIds -> Dirs]
    BY LoopFacts
  <2> QED BY <1>5, <2>1, <2>2, <2>3
<1>9. disk'[l].feedback = 0
  <2>1. disk \in [LoopIds -> Artifacts]
    BY DEF MvpInv, BlockOK
  <2> QED BY <1>5, <1>6, <2>1
<1>10. unseen'[l] = 0
  BY <1>3, <1>4 DEF ReviewOK
<1>11. \A k \in LoopIds : unseen'[k] <= 1 /\ (orch'[k].file = "absent" => unseen'[k] = 0)
  BY <1>4, <1>8 DEF ReviewOK
<1>12. ReviewOK'
  BY <1>7, <1>8, <1>9, <1>10, <1>11 DEF ReviewOK
<1>13. Decided
  BY <1>8 DEF Decided
<1> QED BY <1>1, <1>12, <1>13, NoneHeld

-----------------------------------------------------------------------------
(* The theorems while writes succeed and the client waits for the owner    *)

LEMMA ReviewStep ==
  ASSUME OneAtATime, Undisturbed, ReviewInv, [MvpNext]_mvpVars
  PROVE  ReviewInv' /\ Decided
<1>1. MvpInv'
  BY CallsStep, SliceStep DEF ReviewInv, MvpInv, SliceInv
<1>2. ASSUME NEW c \in Calls, MvpTurn(c)
      PROVE  ReviewOK' /\ HeldOK' /\ Decided
  BY <1>2, BeginsServed, ScopeServed, DesignServed, BuildServed, PassServed,
     FailServed, UnclearServed, AcceptServed, RefineServed, SliceServed
     DEF MvpTurn
<1>3. ASSUME UNCHANGED mvpVars PROVE ReviewOK' /\ HeldOK' /\ Decided
  <2>1. UNCHANGED <<mvp, orch, disk, files, mvpHistory>> /\ calls' = calls
    BY <1>3 DEF mvpVars, mvpHistory
  <2>2. HeldOK'
    BY <2>1 DEF ReviewInv, HeldOK, Held, ChangesFor
  <2> QED BY <2>1, <2>2, QuietReview
<1>4. ReviewOK' /\ HeldOK' /\ Decided
  BY <1>2, <1>3, GateServed DEF MvpNext
<1> QED BY <1>1, <1>4 DEF ReviewInv

LEMMA ReviewStarts == MvpInit => ReviewInv
<1> SUFFICES ASSUME MvpInit PROVE ReviewInv
  OBVIOUS
<1> USE DEF MvpInit
<1>1. mvp.loop = 1 /\ mvp.status = "INACTIVE" /\ 1 \in LoopIds
  BY FirstLoopId DEF Slice1
<1>2. orch[mvp.loop].state = "TEST_DESIGN"
  <2>1. FirstLoop.state = "TEST_DESIGN"
    BY DEF FirstLoop, Tools!NoLoop
  <2> QED BY <1>1, <2>1
<1>3. disk[mvp.loop].feedback = 0 /\ \A l \in LoopIds : unseen[l] = 0
  BY <1>1 DEF NoDisk
<1>4. ReviewOK
  BY <1>1, <1>2, <1>3 DEF ReviewOK
<1>5. HeldOK
  BY DEF HeldOK, Held, IdleCall
<1> QED BY <1>4, <1>5, MvpStarts DEF ReviewInv

\* The inductive invariant of the review holds in every behaviour.
THEOREM ReviewInvariant ==
  ASSUME OneAtATime, Undisturbed PROVE MvpSpec => []ReviewInv
<1>1. ReviewInv /\ [MvpNext]_mvpVars => ReviewInv'
  BY ReviewStep
<1> QED BY <1>1, ReviewStarts, PTL DEF MvpSpec

\* What the owner is shown was built with what they asked for last.
THEOREM ShownAsAsked ==
  ASSUME OneAtATime, Undisturbed PROVE MvpSpec => []ChangesReachReview
<1>1. ReviewInv => ChangesReachReview
  BY DEF ReviewInv, ReviewOK, ChangesReachReview
<1> QED BY <1>1, ReviewInvariant, PTL

\* No second failing run of a slice goes by without a report to its owner.
THEOREM RepairsReported ==
  ASSUME OneAtATime, Undisturbed PROVE MvpSpec => []OneSilentRepair
<1>1. ReviewInv => OneSilentRepair
  BY DEF ReviewInv, ReviewOK, OneSilentRepair
<1> QED BY <1>1, ReviewInvariant, PTL

\* No slice gets past its tests without its owner.
THEOREM SignedBeforeReview ==
  ASSUME OneAtATime, Undisturbed PROVE MvpSpec => OwnerDecides
<1>1. ReviewInv /\ [MvpNext]_mvpVars =>
        [\A l \in LoopIds :
           orch'[l].state = "REVIEWER_CODE_AND_SECURITY"
             /\ orch[l].state # "REVIEWER_CODE_AND_SECURITY"
           => signed'[l] # "none"]_mvpVars
  BY ReviewStep DEF Decided
<1> QED BY <1>1, ReviewInvariant, PTL DEF MvpSpec, OwnerDecides

=============================================================================
