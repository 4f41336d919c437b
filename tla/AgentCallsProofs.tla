--------------------------- MODULE AgentCallsProofs ---------------------------
(***************************************************************************)
(* Theorems about the calls to model providers and the prompter they ask,  *)
(* for every set of calls, projects, inputs, caps and modes and any        *)
(* faults.                                                                 *)
(*                                                                         *)
(* First the permission prompter alone: the audit log tells how each       *)
(* request ended, and the prompter does what Approval promises as far as   *)
(* safety goes (that every question is closed in the end is                *)
(* model-checked).  AuditTellsOutcome is not inductive: a timer that       *)
(* outlives its request could write a second outcome.  That the timers set *)
(* are those of the pending requests, none of which has an answer, closes  *)
(* it.                                                                     *)
(*                                                                         *)
(* Then the calls: what the prompter promises holds of it as the tool      *)
(* registry uses it, no call runs without the authority it needs, and the  *)
(* overspend has its bound.  RanAuthorized needs to know that only PROMPT  *)
(* mode makes a call wait for an answer; NewProjectUnblocked that a        *)
(* project without a row has spent nothing.  OverspendBounded is inductive *)
(* with the types: a call raises the left side by the price of a slot only *)
(* when the ledger is below the threshold, and a row replaces the slot it  *)
(* was reserved for.                                                       *)
(***************************************************************************)
EXTENDS AgentCalls, SequenceTheorems, FiniteSetTheorems, TLAPS

-----------------------------------------------------------------------------
(* The prompter                                                            *)

Unanswered ==
  /\ armed = pending
  /\ pending \cap lost = {}
  /\ \A c \in Calls : answer[c] # "none" => c \notin pending \cup lost

PInv == PrompterTypeOK /\ Unanswered /\ AuditTellsOutcome

PrompterSafety == PrompterInit /\ [][PrompterNext]_prompterVars

-----------------------------------------------------------------------------
\* A call without an answer has no row that says how its request ended.
LEMMA NoAnswerNoOutcome ==
  ASSUME AuditTellsOutcome, NEW c \in Calls, answer[c] = "none"
  PROVE  \A i \in DOMAIN rows[c] : rows[c][i] \notin Outcomes
BY DEF AuditTellsOutcome, DecisionOf

\* Appending rows of one kind keeps the log well typed, and changes only
\* the logs of the calls it is about.
LEMMA AuditTyped ==
  ASSUME PrompterTypeOK, NEW S \in SUBSET Calls, NEW kind \in RowKinds, Audit(S, kind)
  PROVE  /\ rows' \in [Calls -> Seq(RowKinds)]
         /\ \A c \in Calls : rows'[c] = rows[c] \/ (c \in S /\ rows'[c] = Append(rows[c], kind))
<1>1. PICK written \in SUBSET S :
        rows' = [c \in Calls |->
                   IF c \in written THEN Append(rows[c], kind) ELSE rows[c]]
  BY DEF Audit
<1>2. \A c \in Calls : Append(rows[c], kind) \in Seq(RowKinds)
  BY DEF PrompterTypeOK
<1> QED BY <1>1, <1>2 DEF PrompterTypeOK

\* Asking leaves the log as telling as it was.
LEMMA RequestKeeps ==
  ASSUME PInv, NEW c \in Calls, Request(c)
  PROVE  PInv'
<1> USE DEF PInv, Request, Fresh
<1>1. /\ rows' \in [Calls -> Seq(RowKinds)]
      /\ \A d \in Calls : rows'[d] = rows[d] \/ (d \in {c} /\ rows'[d] = Append(rows[d], "requested"))
  BY AuditTyped DEF RowKinds
<1>2. PrompterTypeOK'
  BY <1>1 DEF PrompterTypeOK
<1>3. Unanswered'
  BY DEF Unanswered, PrompterTypeOK
<1>4. ASSUME NEW d \in Calls, NEW i \in DOMAIN rows'[d], rows'[d][i] \in Outcomes
      PROVE  i \in DOMAIN rows[d] /\ rows[d][i] = rows'[d][i]
  <2>1. CASE rows'[d] = rows[d]
    BY <1>4, <2>1
  <2>2. CASE rows'[d] = Append(rows[d], "requested")
    <3>1. rows[d] \in Seq(RowKinds)
      BY DEF PrompterTypeOK
    <3>2. /\ i \in 1 .. Len(rows[d]) + 1
          /\ i # Len(rows[d]) + 1 => rows'[d][i] = rows[d][i]
          /\ rows'[d][Len(rows[d]) + 1] = "requested"
      BY <1>4, <2>2, <3>1
    <3> QED BY <1>4, <3>1, <3>2 DEF Outcomes
  <2> QED BY <1>1, <2>1, <2>2
<1>5. AuditTellsOutcome'
  BY <1>4 DEF AuditTellsOutcome, DecisionOf
<1> QED BY <1>2, <1>3, <1>5

\* However several pending requests are settled at once, each of them with a
\* row of the decision or without one, every one of them is settled as
\* recorded.
LEMMA SettleKeeps ==
  ASSUME PInv, NEW S \in SUBSET pending, NEW kind \in Outcomes,
         Audit(S, kind), Settle(S, DecisionOf(kind))
  PROVE  PInv'
<1> USE DEF PInv
<1>1. S \subseteq Calls /\ \A c \in S : answer[c] = "none"
  BY DEF PrompterTypeOK, Unanswered
<1>2. /\ rows' \in [Calls -> Seq(RowKinds)]
      /\ \A c \in Calls : rows'[c] = rows[c] \/ (c \in S /\ rows'[c] = Append(rows[c], kind))
  BY <1>1, AuditTyped DEF Outcomes
<1>3. /\ answer' = [c \in Calls |-> IF c \in S THEN DecisionOf(kind) ELSE answer[c]]
      /\ armed' = armed \ S /\ pending' = pending \ S /\ lost' = lost
  <2>1. {c \in S : answer[c] = "none"} = S
    BY <1>1
  <2> QED BY <2>1 DEF Settle
<1>4. DecisionOf(kind) \in Decisions
  BY DEF DecisionOf, Decisions
<1>5. PrompterTypeOK'
  BY <1>2, <1>3, <1>4 DEF PrompterTypeOK
<1>6. Unanswered'
  BY <1>3 DEF Unanswered, PrompterTypeOK
<1>7. ASSUME NEW c \in Calls, NEW i \in DOMAIN rows'[c], rows'[c][i] \in Outcomes
      PROVE  /\ answer'[c] = DecisionOf(rows'[c][i])
             /\ \A j \in DOMAIN rows'[c] : rows'[c][j] \in Outcomes => j = i
  <2>1. CASE rows'[c] = rows[c] /\ c \notin S
    BY <1>3, <1>7, <2>1 DEF AuditTellsOutcome
  <2>2. CASE rows'[c] = rows[c] /\ c \in S
    BY <1>1, <1>7, <2>2, NoAnswerNoOutcome
  <2>3. CASE c \in S /\ rows'[c] = Append(rows[c], kind)
    <3>1. rows[c] \in Seq(RowKinds)
      BY DEF PrompterTypeOK
    <3>2. \A j \in DOMAIN rows'[c] : rows'[c][j] \in Outcomes => j = Len(rows[c]) + 1
      BY <1>1, <2>3, <3>1, NoAnswerNoOutcome
    <3>3. rows'[c][Len(rows[c]) + 1] = kind
      BY <2>3, <3>1
    <3> QED BY <1>3, <1>7, <2>3, <3>2, <3>3
  <2> QED BY <1>2, <2>1, <2>2, <2>3
<1>8. AuditTellsOutcome'
  BY <1>7 DEF AuditTellsOutcome
<1> QED BY <1>5, <1>6, <1>8

LEMMA PrompterStarts == PrompterInit => PInv
BY DEF PrompterInit, PInv, PrompterTypeOK, Unanswered, AuditTellsOutcome

LEMMA PrompterStep == PInv /\ [PrompterNext]_prompterVars => PInv'
<1> SUFFICES ASSUME PInv, [PrompterNext]_prompterVars
             PROVE  PInv'
  OBVIOUS
<1>1. ASSUME NEW c \in Calls, Request(c) PROVE PInv'
  BY <1>1, RequestKeeps
<1>2. ASSUME NEW c \in Calls, Timeout(c) PROVE PInv'
  <2>1. c \in pending
    BY <1>2 DEF Timeout, PInv, Unanswered
  <2> QED BY <1>2, <2>1, SettleKeeps DEF Timeout, Outcomes, RowKinds, DecisionOf
<1>3. ASSUME NEW c \in Calls, NEW d \in Decisions, Respond(c, d) PROVE PInv'
  <2>1. d \in Outcomes /\ DecisionOf(d) = d
    BY DEF Decisions, Outcomes, RowKinds, DecisionOf
  <2> QED BY <1>3, <2>1, SettleKeeps DEF Respond
<1>4. CASE CancelAll
  BY <1>4, SettleKeeps DEF CancelAll, Outcomes, RowKinds, DecisionOf
<1>5. CASE PrompterCrash
  BY <1>5 DEF PrompterCrash, PInv, PrompterTypeOK, Unanswered, AuditTellsOutcome
<1>6. CASE UNCHANGED prompterVars
  BY <1>6 DEF prompterVars, PInv, PrompterTypeOK, Unanswered, AuditTellsOutcome
<1> QED BY <1>1, <1>2, <1>3, <1>4, <1>5, <1>6 DEF PrompterNext

\* The inductive invariant of the prompter.
THEOREM PrompterInvariant == PrompterSafety => []PInv
BY PrompterStarts, PrompterStep, PTL DEF PrompterSafety

-----------------------------------------------------------------------------
(* The prompter implements Approval                                        *)

\* The verdict on each request, without the order of a CASE.
LEMMA VerdictIs ==
  ASSUME PInv
  PROVE  /\ Verdict = [c \in Calls |-> Verdict[c]]
         /\ \A c \in Calls :
              /\ answer[c] # "none" => Verdict[c] = answer[c]
              /\ c \in lost => Verdict[c] = "lost"
              /\ c \in pending => Verdict[c] = "open"
              /\ Fresh(c) => Verdict[c] = "none"
BY DEF Verdict, PInv, Unanswered, Fresh

LEMMA OpenIsPending == ASSUME PInv PROVE A!Open = pending
<1>1. \A c \in Calls : Verdict[c] = "open" <=> c \in pending
  BY VerdictIs DEF Fresh, PInv, PrompterTypeOK, Decisions
<1> QED BY <1>1 DEF A!Open, PInv, PrompterTypeOK

LEMMA AskImplemented ==
  ASSUME PInv, PInv', NEW c \in Calls, Request(c)
  PROVE  A!Ask(c)
<1>1. Verdict[c] = "none" /\ Verdict'[c] = "open"
  BY DEF Request, Fresh, Verdict
<1>2. \A d \in Calls \ {c} : Verdict'[d] = Verdict[d]
  BY DEF Request, Verdict
<1>3. Verdict' = [Verdict EXCEPT ![c] = "open"]
  BY <1>1, <1>2 DEF Verdict
<1> QED BY <1>1, <1>3 DEF A!Ask

LEMMA DecideImplemented ==
  ASSUME PInv, NEW S \in SUBSET pending, S # {}, NEW d \in Decisions, Settle(S, d)
  PROVE  A!Decide(S, d)
<1>1. S \subseteq Calls /\ \A c \in S : answer[c] = "none"
  BY DEF PInv, PrompterTypeOK, Unanswered
<1>2. /\ answer' = [c \in Calls |-> IF c \in S THEN d ELSE answer[c]]
      /\ pending' = pending \ S /\ lost' = lost
  <2>1. {c \in S : answer[c] = "none"} = S
    BY <1>1
  <2> QED BY <2>1 DEF Settle
<1>3. \A c \in Calls : Verdict'[c] = IF c \in S THEN d ELSE Verdict[c]
  BY <1>2 DEF Verdict, Decisions
<1>4. Verdict' = [c \in Calls |-> IF c \in S THEN d ELSE Verdict[c]]
  BY <1>3 DEF Verdict
<1> QED BY <1>4, OpenIsPending DEF A!Decide

LEMMA ForgetImplemented ==
  ASSUME PInv, PrompterCrash
  PROVE  A!Forget
<1>1. \A c \in Calls : Verdict'[c] = IF c \in pending THEN "lost" ELSE Verdict[c]
  BY DEF PrompterCrash, Verdict, PInv, Unanswered
<1>2. Verdict' = [c \in Calls |-> IF c \in pending THEN "lost" ELSE Verdict[c]]
  BY <1>1 DEF Verdict
<1>3. pending # {} /\ pending \subseteq Calls
  BY DEF PrompterCrash, PInv, PrompterTypeOK
<1> QED BY <1>2, <1>3, OpenIsPending DEF A!Forget, A!Decide

LEMMA StepImplemented ==
  PInv /\ PInv' /\ [PrompterNext]_prompterVars => [A!ApprovalNext]_Verdict
<1> SUFFICES ASSUME PInv, PInv', [PrompterNext]_prompterVars
             PROVE  [A!ApprovalNext]_Verdict
  OBVIOUS
<1> USE DEF A!ApprovalNext
<1>0. pending \subseteq Calls
  BY DEF PInv, PrompterTypeOK
<1>1. ASSUME NEW c \in Calls, Request(c) PROVE A!ApprovalNext
  BY <1>1, AskImplemented
<1>2. ASSUME NEW c \in Calls, Timeout(c) PROVE A!ApprovalNext
  <2>1. {c} \in SUBSET pending
    BY <1>2 DEF Timeout, PInv, Unanswered
  <2>2. A!Decide({c}, "DENY")
    BY <1>2, <2>1, DecideImplemented DEF Timeout, Decisions
  <2> QED BY <1>0, <2>1, <2>2 DEF A!Refuse
<1>3. ASSUME NEW c \in Calls, NEW d \in Decisions, Respond(c, d) PROVE A!ApprovalNext
  <2>1. {c} \in SUBSET pending
    BY <1>3 DEF Respond
  <2>2. A!Decide({c}, d)
    BY <1>3, <2>1, DecideImplemented DEF Respond
  <2>3. CASE d = "ALLOW"
    BY <2>2, <2>3 DEF A!Allow
  <2>4. CASE d = "DENY"
    BY <2>2, <2>4 DEF A!Refuse
  <2> QED BY <2>3, <2>4 DEF Decisions
<1>4. CASE CancelAll
  <2>1. A!Decide(pending, "DENY")
    BY <1>4, DecideImplemented DEF CancelAll, Decisions
  <2> QED BY <1>0, <2>1 DEF A!Refuse
<1>5. CASE PrompterCrash
  BY <1>5, ForgetImplemented
<1>6. CASE UNCHANGED prompterVars
  BY <1>6 DEF prompterVars, Verdict
<1> QED BY <1>1, <1>2, <1>3, <1>4, <1>5, <1>6 DEF PrompterNext

LEMMA StartImplemented == PrompterInit => A!ApprovalInit
BY DEF PrompterInit, A!ApprovalInit, Verdict

\* Each question put to the prompter gets one answer, never revised, and is
\* forgotten only with the server, whoever answers first.
THEOREM PrompterImplementsApproval == PrompterSafety => A!ApprovalSafety
BY PrompterInvariant, StartImplemented, StepImplemented, PTL
   DEF PrompterSafety, A!ApprovalSafety

-----------------------------------------------------------------------------
(* The calls                                                               *)

AskingPrompts == \A c \in Calls : call[c].phase = "asking" => ControlMode = "PROMPT"

UnbookedUnspent == \A p \in Projects : p \notin booked => spent[p] = 0

AInv == PInv /\ AgentCallsTypeOK /\ AskingPrompts /\ UnbookedUnspent

Steps == [Next]_vars

-----------------------------------------------------------------------------
(* What the steps have in common                                           *)

LEMMA InputsTyped ==
  /\ NoInput \in Inputs
  /\ \A in \in Inputs : /\ in.project \in Projects /\ in.estimate \in Nat
                        /\ in.preview \in BOOLEAN
BY AgentCallsAssumption DEF NoInput, AllInputs

\* A refused or executed call, or one that begins to wait, changes its slot.
LEMMA DoneTyped ==
  ASSUME call \in [Calls -> CallRecords], NEW c \in Calls, NEW result \in Results,
         Done(c, result)
  PROVE  /\ call' = [call EXCEPT ![c] = Slot("done", NoInput, result)]
         /\ call' \in [Calls -> CallRecords]
BY InputsTyped DEF Done, Slot, CallRecords, Phases

LEMMA ExecuteTyped ==
  ASSUME call \in [Calls -> CallRecords], NEW c \in Calls, NEW in \in Inputs,
         Execute(c, in)
  PROVE  /\ \E slot \in {Slot("done", NoInput, "PREVIEWED"),
                         Slot("done", NoInput, "PROVIDER_NOT_FOUND"),
                         Slot("running", in, "none")} :
              call' = [call EXCEPT ![c] = slot]
         /\ call' \in [Calls -> CallRecords]
<1>1. "PREVIEWED" \in Results /\ "PROVIDER_NOT_FOUND" \in Results
  BY DEF Results
<1>2. Slot("running", in, "none") \in CallRecords
  BY DEF Slot, CallRecords, Phases, Results
<1> QED BY <1>1, <1>2, DoneTyped DEF Execute

LEMMA AuthorizeTyped ==
  ASSUME call \in [Calls -> CallRecords], NEW c \in Calls, NEW in \in Inputs,
         Authorize(c, in)
  PROVE  /\ [PrompterNext]_prompterVars
         /\ call' \in [Calls -> CallRecords]
<1>1. CASE Request(c) /\ call' = [call EXCEPT ![c] = Slot("asking", in, "none")]
  <2>1. Slot("asking", in, "none") \in CallRecords
    BY DEF Slot, CallRecords, Phases, Results
  <2> QED BY <1>1, <2>1 DEF PrompterNext
<1>2. CASE Execute(c, in) /\ UNCHANGED prompterVars
  BY <1>2, ExecuteTyped
<1>3. CASE UNCHANGED prompterVars /\ (Done(c, "TEST_MODE_DENIED") \/ Done(c, "INSUFFICIENT_MODE"))
  <2>1. "TEST_MODE_DENIED" \in Results /\ "INSUFFICIENT_MODE" \in Results
    BY DEF Results
  <2> QED BY <1>3, <2>1, DoneTyped
<1> QED BY <1>1, <1>2, <1>3 DEF Authorize

\* The registry puts at most one request to the prompter at a time, and
\* leaves its variables alone otherwise.
LEMMA InvokeTyped ==
  ASSUME call \in [Calls -> CallRecords], NEW c \in Calls, NEW in \in Inputs,
         Invoke(c, in)
  PROVE  /\ [PrompterNext]_prompterVars
         /\ call' \in [Calls -> CallRecords]
         /\ UNCHANGED <<mode, locked, ledgerVars>>
         /\ blind \subseteq blind' /\ blind' \subseteq blind \cup {in.project}
<1>1. PICK readable \in BOOLEAN :
        LET refusal == Refusal(in, readable) IN
          /\ blind' = IF readable \/ refusal # "none" \/ in.provider = "mock"
                        THEN blind ELSE blind \cup {in.project}
          /\ IF refusal # "none"
               THEN Done(c, refusal) /\ UNCHANGED prompterVars
               ELSE Authorize(c, in)
  BY DEF Invoke
<1>2. Refusal(in, readable) \in Results
  BY DEF Refusal, Results
<1>3. CASE Refusal(in, readable) # "none"
  BY <1>1, <1>2, <1>3, DoneTyped DEF Invoke
<1>4. CASE Refusal(in, readable) = "none"
  BY <1>1, <1>4, AuthorizeTyped DEF Invoke
<1> QED BY <1>3, <1>4

LEMMA AsksPrompter ==
  ASSUME call \in [Calls -> CallRecords], Steps
  PROVE  [PrompterNext]_prompterVars
<1> USE DEF PrompterNext
<1>1. ASSUME NEW c \in Calls, NEW in \in Inputs, Invoke(c, in)
      PROVE  [PrompterNext]_prompterVars
  BY <1>1, InvokeTyped
<1>2. CASE Prompt
  BY <1>2 DEF Prompt
<1>3. CASE Crash
  BY <1>3 DEF Crash
<1>4. CASE UNCHANGED vars
  BY <1>4 DEF vars
<1>5. CASE /\ Next /\ ~Prompt /\ ~Crash
           /\ \A c \in Calls, in \in Inputs : ~Invoke(c, in)
  BY <1>5 DEF Next, Resume, Answer, LegacyCall, LockVision
<1> QED BY <1>1, <1>2, <1>3, <1>4, <1>5 DEF Steps, Next

\* An answer once given stays.
LEMMA AnswersStay ==
  ASSUME PInv, [PrompterNext]_prompterVars, NEW c \in Calls, answer[c] # "none"
  PROVE  answer'[c] = answer[c]
BY DEF PInv, PrompterTypeOK, PrompterNext, Request, Timeout, Respond, CancelAll,
       PrompterCrash, Settle, prompterVars

-----------------------------------------------------------------------------
(* Types                                                                   *)

LEMMA AppendTyped ==
  ASSUME AgentCallsTypeOK, NEW p \in Projects, NEW cost \in Nat, Book(p, cost)
  PROVE  /\ spent' \in [Projects -> Nat]
         /\ booked' \subseteq Projects
         /\ legacy' = legacy
         /\ since' \in [Projects -> 0 .. legacy]
         /\ \/ spent' = spent /\ booked' = booked
            \/ spent' = [spent EXCEPT ![p] = @ + cost] /\ booked' = booked \cup {p}
<1>1. CASE Append1(p, cost)
  BY <1>1 DEF Append1, AgentCallsTypeOK
<1>2. CASE UNCHANGED ledgerVars
  BY <1>2 DEF ledgerVars, AgentCallsTypeOK
<1> QED BY <1>1, <1>2 DEF Book

LEMMA TypesStart == Init => AgentCallsTypeOK
BY InputsTyped, PrompterStarts
   DEF Init, AgentCallsTypeOK, PInv, CallRecords, Slot, Phases, Results

LEMMA TypesKept ==
  ASSUME PInv, AgentCallsTypeOK, Steps
  PROVE  AgentCallsTypeOK'
<1>0. call \in [Calls -> CallRecords]
  BY DEF AgentCallsTypeOK
<1>1. PrompterTypeOK'
  BY <1>0, AsksPrompter, PrompterStep DEF PInv
<1> SUFFICES /\ mode' \in Modes /\ locked' \subseteq Projects
             /\ call' \in [Calls -> CallRecords]
             /\ spent' \in [Projects -> Nat] /\ booked' \subseteq Projects
             /\ legacy' \in Nat /\ since' \in [Projects -> 0 .. legacy']
             /\ blind' \subseteq Projects
  BY <1>1 DEF AgentCallsTypeOK
<1> USE DEF AgentCallsTypeOK
<1>2. ASSUME NEW c \in Calls, NEW in \in Inputs, Invoke(c, in)
      PROVE  AgentCallsTypeOK'
  BY <1>1, <1>2, InvokeTyped, InputsTyped DEF ledgerVars
<1>3. ASSUME NEW c \in Calls, Resume(c) PROVE AgentCallsTypeOK'
  <2>1. call[c].input \in Inputs /\ "PROMPT_DENIED" \in Results
    BY DEF CallRecords, Results
  <2>2. call' \in [Calls -> CallRecords]
    BY <1>3, <2>1, ExecuteTyped, DoneTyped DEF Resume
  <2> QED BY <1>1, <1>3, <2>2 DEF Resume, ledgerVars
<1>4. ASSUME NEW c \in Calls, NEW result \in {"SUCCESS", "FAILED"},
             NEW cost \in 0 .. MaxCost, Answer(c, result, cost)
      PROVE  AgentCallsTypeOK'
  <2>1. /\ call[c].input.project \in Projects /\ result \in Results
        /\ cost \in Nat
    BY InputsTyped, AgentCallsAssumption DEF CallRecords, Results
  <2>2. call' \in [Calls -> CallRecords]
    BY <1>4, <2>1, DoneTyped DEF Answer
  <2> QED BY <1>1, <1>4, <2>1, <2>2, AppendTyped DEF Answer
<1>5. ASSUME NEW cost \in 1 .. MaxCost, LegacyCall(cost) PROVE AgentCallsTypeOK'
  BY <1>1, <1>5, AgentCallsAssumption DEF LegacyCall
<1>6. ASSUME NEW p \in Projects, LockVision(p) PROVE AgentCallsTypeOK'
  BY <1>1, <1>6 DEF LockVision, ledgerVars
<1>7. CASE Prompt
  BY <1>1, <1>7 DEF Prompt, ledgerVars
<1>8. CASE Crash
  <2>1. Slot("lost", NoInput, "none") \in CallRecords
    BY InputsTyped DEF Slot, CallRecords, Phases, Results
  <2> QED BY <1>1, <1>8, <2>1 DEF Crash, ledgerVars
<1>9. CASE UNCHANGED vars
  BY <1>1, <1>9 DEF vars, ledgerVars
<1> QED BY <1>2, <1>3, <1>4, <1>5, <1>6, <1>7, <1>8, <1>9 DEF Steps, Next

-----------------------------------------------------------------------------
(* The invariant                                                           *)

LEMMA AskingKept ==
  ASSUME AInv, Steps
  PROVE  AskingPrompts'
<1> USE DEF AInv, AgentCallsTypeOK, AskingPrompts
<1>1. ASSUME NEW c \in Calls, NEW in \in Inputs, Invoke(c, in) PROVE AskingPrompts'
  BY <1>1 DEF Invoke, Authorize, Execute, Done, Slot, ControlMode
<1>2. ASSUME NEW c \in Calls, Resume(c) PROVE AskingPrompts'
  BY <1>2 DEF Resume, Execute, Done, Slot, ControlMode
<1>3. ASSUME NEW c \in Calls, NEW result \in {"SUCCESS", "FAILED"},
             NEW cost \in 0 .. MaxCost, Answer(c, result, cost)
      PROVE  AskingPrompts'
  BY <1>3 DEF Answer, Done, Slot, ControlMode
<1>4. CASE Crash
  BY <1>4 DEF Crash, Slot, ControlMode
<1>5. CASE \/ Prompt \/ UNCHANGED vars
           \/ \E cost \in 1 .. MaxCost : LegacyCall(cost)
           \/ \E p \in Projects : LockVision(p)
  BY <1>5 DEF Prompt, LegacyCall, LockVision, vars, ControlMode
<1> QED BY <1>1, <1>2, <1>3, <1>4, <1>5 DEF Steps, Next

LEMMA UnbookedKept ==
  ASSUME AInv, Steps
  PROVE  UnbookedUnspent'
<1> USE DEF AInv, UnbookedUnspent
<1>1. ASSUME NEW c \in Calls, NEW result \in {"SUCCESS", "FAILED"},
             NEW cost \in 0 .. MaxCost, Answer(c, result, cost)
      PROVE  UnbookedUnspent'
  <2>1. call[c].input.project \in Projects /\ cost \in Nat
    BY InputsTyped, AgentCallsAssumption DEF AgentCallsTypeOK, CallRecords
  <2> QED BY <1>1, <2>1, AppendTyped DEF Answer, AgentCallsTypeOK
<1>2. CASE ~\E c \in Calls, result \in {"SUCCESS", "FAILED"}, cost \in 0 .. MaxCost :
             Answer(c, result, cost)
  BY <1>2 DEF Steps, Next, Invoke, Resume, LegacyCall, LockVision, Prompt, Crash,
              vars, ledgerVars
<1> QED BY <1>1, <1>2

LEMMA InvariantStarts == Init => AInv
BY TypesStart, PrompterStarts
   DEF Init, AInv, AskingPrompts, UnbookedUnspent, Slot

LEMMA InvariantKept == AInv /\ [Next]_vars => AInv'
<1> SUFFICES ASSUME AInv, Steps PROVE AInv'
  BY DEF Steps
<1>1. PInv'
  BY AsksPrompter, PrompterStep DEF AInv, AgentCallsTypeOK
<1> QED BY <1>1, TypesKept, AskingKept, UnbookedKept DEF AInv

\* The inductive invariant of the agent calls and the prompter they use.
THEOREM AgentCallsInvariant == Spec => []AInv
BY InvariantStarts, InvariantKept, PTL DEF Spec

\* Type correctness of the whole state.
THEOREM AgentCallsTyped == Spec => []AgentCallsTypeOK
BY AgentCallsInvariant, PTL DEF AInv

\* The audit log tells how each request ended, as the registry uses the
\* prompter and wherever the server stops.
THEOREM PromptsAudited == Spec => []AuditTellsOutcome
BY AgentCallsInvariant, PTL DEF AInv, PInv

\* Every question is answered once or forgotten with the server.
THEOREM CallsImplementApproval == Spec => A!ApprovalSafety
<1>1. Init => PrompterInit
  BY DEF Init
<1>2. AInv /\ [Next]_vars => [PrompterNext]_prompterVars
  BY AsksPrompter DEF AInv, AgentCallsTypeOK, Steps
<1>3. Spec => PrompterSafety
  BY <1>1, <1>2, AgentCallsInvariant, PTL DEF Spec, PrompterSafety
<1> QED BY <1>3, PrompterImplementsApproval, PTL

-----------------------------------------------------------------------------
(* Authority                                                               *)

\* What a call that has run, or is running, had.
Authority(c) == IF ControlMode = "PROMPT" THEN answer[c] = "ALLOW" ELSE DataAllows

Ran(c) == \/ call[c].phase = "running"
          \/ call[c].result \in {"SUCCESS", "FAILED", "PREVIEWED",
                                 "PROVIDER_NOT_FOUND"}

LEMMA AuthorityKept ==
  ASSUME AInv, Steps, NEW c \in Calls, Authority(c)
  PROVE  Authority(c)'
<1>1. mode' = mode
  BY DEF Steps, Next, Invoke, Resume, Answer, LegacyCall, LockVision, Prompt, Crash, vars
<1>2. ControlMode' = ControlMode /\ DataAllows' = DataAllows
  BY <1>1 DEF ControlMode, DataAllows, DataMode
<1>3. [PrompterNext]_prompterVars
  BY AsksPrompter DEF AInv, AgentCallsTypeOK
<1>4. answer[c] = "ALLOW" => answer'[c] = "ALLOW"
  BY <1>3, AnswersStay DEF AInv
<1> QED BY <1>2, <1>4 DEF Authority

\* A call that comes to run in this step has its authority.
LEMMA RunsWithAuthority ==
  ASSUME AInv, Steps, RanAuthorized, NEW c \in Calls, Ran(c)'
  PROVE  Authority(c)
<1> USE DEF AInv, AgentCallsTypeOK
<1>0. Ran(c) => Authority(c)
  BY DEF RanAuthorized, Ran, Authority
<1>1. ASSUME NEW d \in Calls, NEW in \in Inputs, Invoke(d, in) PROVE Authority(c)
  <2>1. CASE c = d
    <3>1. PICK readable \in BOOLEAN :
            IF Refusal(in, readable) # "none" THEN Done(c, Refusal(in, readable))
                                              ELSE Authorize(c, in)
      BY <1>1, <2>1 DEF Invoke
    <3>2. CASE Done(c, Refusal(in, readable)) /\ Refusal(in, readable) # "none"
      BY <3>2 DEF Ran, Done, Slot, Refusal
    <3>3. CASE Authorize(c, in)
      BY <3>3 DEF Ran, Authorize, Execute, Done, Slot, Authority
    <3> QED BY <3>1, <3>2, <3>3
  <2>2. CASE c # d
    <3>1. call'[c] = call[c]
      BY <1>1, <2>2 DEF Invoke, Authorize, Execute, Done
    <3> QED BY <1>0, <3>1 DEF Ran
  <2> QED BY <2>1, <2>2
<1>2. ASSUME NEW d \in Calls, Resume(d) PROVE Authority(c)
  <2>1. CASE c = d
    BY <1>2, <2>1 DEF Resume, Ran, Execute, Done, Slot, Authority, AskingPrompts
  <2>2. CASE c # d
    <3>1. call'[c] = call[c]
      BY <1>2, <2>2 DEF Resume, Execute, Done
    <3> QED BY <1>0, <3>1 DEF Ran
  <2> QED BY <2>1, <2>2
<1>3. ASSUME NEW d \in Calls, NEW result \in {"SUCCESS", "FAILED"},
             NEW cost \in 0 .. MaxCost, Answer(d, result, cost)
      PROVE  Authority(c)
  <2>1. Ran(c)
    BY <1>3 DEF Answer, Done, Slot, Ran
  <2> QED BY <1>0, <2>1
<1>4. CASE Crash
  <2>1. Ran(c)
    BY <1>4 DEF Crash, Slot, Ran
  <2> QED BY <1>0, <2>1
<1>5. CASE \/ Prompt \/ UNCHANGED vars
           \/ \E cost \in 1 .. MaxCost : LegacyCall(cost)
           \/ \E p \in Projects : LockVision(p)
  <2>1. Ran(c)
    BY <1>5 DEF Prompt, LegacyCall, LockVision, vars, Ran
  <2> QED BY <1>0, <2>1
<1> QED BY <1>1, <1>2, <1>3, <1>4, <1>5 DEF Steps, Next

\* Nothing runs without the mode, or the owner's answer, that allows it.
THEOREM RunsAuthorized == Spec => []RanAuthorized
<1>1. Init => RanAuthorized
  BY DEF Init, RanAuthorized, Slot
<1>2. AInv /\ RanAuthorized /\ [Next]_vars => RanAuthorized'
  <2> SUFFICES ASSUME AInv, RanAuthorized, Steps, NEW c \in Calls, Ran(c)'
               PROVE  Authority(c)'
    BY DEF Steps, RanAuthorized, Ran, Authority
  <2> QED BY RunsWithAuthority, AuthorityKept
<1> QED BY <1>1, <1>2, AgentCallsInvariant, PTL DEF Spec

-----------------------------------------------------------------------------
(* The budget                                                              *)

\* A project without a ledger row is refused for its budget only when the
\* one call is too dear.
THEOREM NewProjectsUnblocked == Spec => NewProjectUnblocked
<1>1. ASSUME AInv, NEW c \in Calls, NEW in \in Inputs, Invoke(c, in),
             call'[c].result = "BUDGET"
      PROVE  \/ in.project \in booked
             \/ 100 * in.estimate >= 95 * TotalCap[in.project]
  <2> USE DEF AInv
  <2>1. PICK readable \in BOOLEAN :
          IF Refusal(in, readable) # "none" THEN Done(c, Refusal(in, readable))
                                            ELSE Authorize(c, in)
    BY <1>1 DEF Invoke
  <2>2. Refusal(in, readable) = "BUDGET"
    <3>1. call \in [Calls -> CallRecords]
      BY <1>1 DEF AgentCallsTypeOK
    <3>2. CASE Authorize(c, in)
      BY <1>1, <3>1, <3>2 DEF Authorize, Execute, Done, Slot
    <3>3. CASE Done(c, Refusal(in, readable))
      BY <1>1, <3>1, <3>3 DEF Done, Slot
    <3> QED BY <2>1, <3>2, <3>3
  <2>4. ~WithinBudget(in.project, in.estimate)
    BY <2>2 DEF Refusal
  <2>3. CASE in.project \notin booked
    <3>1. spent[in.project] = 0 /\ LegacySpendSince(in.project) = 0
      BY <1>1, <2>3, InputsTyped DEF UnbookedUnspent, LegacySpendSince
    <3>2. in.estimate \in Nat /\ TotalCap[in.project] \in Nat
      BY InputsTyped, AgentCallsAssumption
    <3>3. ~(100 * in.estimate < 95 * TotalCap[in.project])
      BY <2>4, <3>1, <3>2 DEF WithinBudget
    <3> QED BY <3>2, <3>3
  <2> QED BY <2>3
<1>2. AInv /\ [Next]_vars =>
        [\A c \in Calls, in \in Inputs :
           Invoke(c, in) /\ call'[c].result = "BUDGET" =>
             \/ in.project \in booked
             \/ 100 * in.estimate >= 95 * TotalCap[in.project]]_vars
  BY <1>1
<1> QED BY <1>2, AgentCallsInvariant, PTL DEF Spec, NewProjectUnblocked

\* Of a set of slots, how many there can be.
LEMMA SlotCount ==
  ASSUME NEW S, S \subseteq Calls
  PROVE  /\ IsFiniteSet(S) /\ Cardinality(S) \in Nat
         /\ Cardinality(S) <= Cardinality(Calls)
         /\ Cardinality(Calls) \in Nat
BY AgentCallsAssumption, FS_Subset, FS_CardinalityType

LEMMA MoreSlotsCostMore ==
  ASSUME NEW m \in Nat, NEW n \in Nat, m <= n
  PROVE  /\ MaxCost * m \in Nat /\ MaxCost * n \in Nat
         /\ MaxCost * m <= MaxCost * n
<1>1. MaxCost \in Nat
  BY AgentCallsAssumption
<1> QED BY <1>1, Z3

\* The bound, for a project with s booked and the slots of S reserved.
Room(p, s, S) == 100 * (s + MaxCost * Cardinality(S))
                   < 95 * TotalCap[p] + 100 * MaxCost * Cardinality(Calls)

LEMMA FewerSlotsFit ==
  ASSUME NEW p \in Projects, NEW s \in Nat, NEW S, NEW T,
         S \subseteq T, T \subseteq Calls, Room(p, s, T)
  PROVE  Room(p, s, S)
<1>1. Cardinality(S) <= Cardinality(T) /\ {Cardinality(S), Cardinality(T)} \subseteq Nat
  BY SlotCount, FS_Subset
<1>2. /\ MaxCost * Cardinality(S) \in Nat /\ MaxCost * Cardinality(T) \in Nat
      /\ MaxCost * Cardinality(S) <= MaxCost * Cardinality(T)
  BY <1>1, MoreSlotsCostMore
<1>3. 95 * TotalCap[p] + 100 * MaxCost * Cardinality(Calls) \in Int
  BY SlotCount, AgentCallsAssumption
<1>4. ASSUME NEW x \in Nat, NEW y \in Nat, NEW z \in Int, x <= y, 100 * (s + y) < z
      PROVE  100 * (s + x) < z
  BY <1>4
<1> QED BY <1>2, <1>3, <1>4 DEF Room

\* A ledger below the threshold has room for every slot.
LEMMA BelowThresholdFits ==
  ASSUME NEW p \in Projects, NEW s \in Nat, NEW S, S \subseteq Calls,
         100 * s < 95 * TotalCap[p]
  PROVE  Room(p, s, S)
<1>1. /\ MaxCost * Cardinality(S) \in Nat /\ MaxCost * Cardinality(Calls) \in Nat
      /\ MaxCost * Cardinality(S) <= MaxCost * Cardinality(Calls)
  BY SlotCount, MoreSlotsCostMore
<1>2. ASSUME NEW x \in Nat, NEW y \in Nat, x <= y
      PROVE  100 * (s + x) < 95 * TotalCap[p] + 100 * y
  BY <1>2, AgentCallsAssumption
<1>3. 100 * (MaxCost * Cardinality(Calls)) = 100 * MaxCost * Cardinality(Calls)
  BY SlotCount, AgentCallsAssumption, Z3
<1> QED BY <1>1, <1>2, <1>3 DEF Room

\* A row replaces the slot that was reserved for it.
LEMMA RowReplacesSlot ==
  ASSUME NEW p \in Projects, NEW s \in Nat, NEW t \in Nat, NEW S, NEW c \in S,
         S \subseteq Calls, t <= s + MaxCost, Room(p, s, S)
  PROVE  Room(p, t, S \ {c})
<1>1. Cardinality(S \ {c}) = Cardinality(S) - 1 /\ Cardinality(S) \in Nat
      /\ Cardinality(S \ {c}) \in Nat
  BY SlotCount, FS_RemoveElement
<1>2. ASSUME NEW n \in Nat, n - 1 \in Nat
      PROVE  /\ MaxCost * n = MaxCost * (n - 1) + MaxCost
             /\ MaxCost * (n - 1) \in Nat
  BY <1>2, AgentCallsAssumption, Z3
<1>3. /\ MaxCost * Cardinality(S) = MaxCost * Cardinality(S \ {c}) + MaxCost
      /\ MaxCost * Cardinality(S \ {c}) \in Nat
  BY <1>1, <1>2
<1>4. 95 * TotalCap[p] + 100 * MaxCost * Cardinality(Calls) \in Int
  BY SlotCount, AgentCallsAssumption
<1>5. ASSUME NEW x \in Nat, NEW y \in Nat, y = x + MaxCost, NEW z \in Int,
             100 * (s + y) < z
      PROVE  100 * (t + x) < z
  BY <1>5, AgentCallsAssumption
<1>6. MaxCost * Cardinality(S) \in Nat
  BY <1>3, AgentCallsAssumption
<1> QED BY <1>3, <1>4, <1>5, <1>6 DEF Room
\* The bound after a step, from the bound before it.
LEMMA BoundKept ==
  ASSUME AInv, Steps, OverspendBounded, NEW p \in Projects,
         p \notin blind', TotalCap[p] > 0
  PROVE  Room(p, spent'[p], InFlight(p)')
<1> USE DEF AInv, AgentCallsTypeOK
<1>1. InFlight(p) \subseteq Calls /\ InFlight(p)' \subseteq Calls /\ spent[p] \in Nat
  BY DEF InFlight
<1>2. p \notin blind => Room(p, spent[p], InFlight(p))
  BY DEF OverspendBounded, Room
<1>3. ASSUME p \notin blind, spent'[p] = spent[p], InFlight(p)' \subseteq InFlight(p)
      PROVE  Room(p, spent'[p], InFlight(p)')
  BY <1>1, <1>2, <1>3, FewerSlotsFit
<1>4. ASSUME NEW c \in Calls, NEW in \in Inputs, Invoke(c, in)
      PROVE  Room(p, spent'[p], InFlight(p)')
  <2>1. PICK readable \in BOOLEAN :
          /\ blind' = IF readable \/ Refusal(in, readable) # "none"
                                  \/ in.provider = "mock"
                        THEN blind ELSE blind \cup {in.project}
          /\ IF Refusal(in, readable) # "none" THEN Done(c, Refusal(in, readable))
                                               ELSE Authorize(c, in)
    BY <1>4 DEF Invoke
  <2>2. spent' = spent /\ p \notin blind
    BY <1>4, <2>1 DEF Invoke, ledgerVars
  <2>3. \A d \in Calls : d # c => call'[d] = call[d]
    BY <2>1 DEF Done, Authorize, Execute
  <2>4. CASE InFlight(p)' \subseteq InFlight(p)
    BY <1>3, <2>2, <2>4
  <2>5. CASE ~(InFlight(p)' \subseteq InFlight(p))
    <3>1. c \in InFlight(p)'
      BY <2>3, <2>5 DEF InFlight, Underway
    <3>2. Underway(c)' /\ call'[c].input.project = p /\ call'[c].input.provider # "mock"
      BY <3>1 DEF InFlight
    <3>3. Refusal(in, readable) = "none" /\ Authorize(c, in)
      BY <2>1, <3>2 DEF Done, Slot, Underway
    <3>4. call'[c].input = in
      BY <3>2, <3>3 DEF Authorize, Execute, Done, Slot, Underway
    <3>5. readable
      BY <2>1, <3>2, <3>3, <3>4
    <3>6. WithinBudget(p, in.estimate)
      BY <3>2, <3>3, <3>4, <3>5 DEF Refusal
    <3>7. LegacySpendSince(p) \in Nat
      BY DEF LegacySpendSince
    <3>8. 100 * spent[p] < 95 * TotalCap[p]
      BY <1>1, <3>6, <3>7, InputsTyped, AgentCallsAssumption DEF WithinBudget
    <3> QED BY <1>1, <2>2, <3>8, BelowThresholdFits
  <2> QED BY <2>4, <2>5
<1>5. ASSUME NEW c \in Calls, NEW result \in {"SUCCESS", "FAILED"},
             NEW cost \in 0 .. MaxCost, Answer(c, result, cost)
      PROVE  Room(p, spent'[p], InFlight(p)')
  <2>1. p \notin blind
    BY <1>5 DEF Answer
  <2>2. call[c].phase = "running" /\ call[c].input.project \in Projects
    BY <1>5, InputsTyped DEF Answer, CallRecords
  <2>3. InFlight(p)' = InFlight(p) \ {c}
    BY <1>5 DEF Answer, InFlight, Underway, Done, Slot
  <2>4. spent'[p] \in Nat /\ spent'[p] <= spent[p] + MaxCost
    BY <1>1, <1>5, <2>2, AgentCallsAssumption DEF Answer, Book, Append1, ledgerVars
  <2>5. CASE c \in InFlight(p)
    BY <1>1, <1>2, <2>1, <2>3, <2>4, <2>5, RowReplacesSlot
  <2>6. CASE c \notin InFlight(p)
    <3>1. call[c].input.project # p \/ call[c].input.provider = "mock"
      BY <2>2, <2>6 DEF InFlight, Underway
    <3>2. spent'[p] = spent[p]
      BY <1>1, <1>5, <2>2, <3>1 DEF Answer, Book, Append1, ledgerVars
    <3> QED BY <1>3, <2>1, <2>3, <3>2
  <2> QED BY <2>5, <2>6
<1>6. ASSUME NEW c \in Calls, Resume(c) PROVE Room(p, spent'[p], InFlight(p)')
  <2>1. spent' = spent /\ p \notin blind
    BY <1>6 DEF Resume, ledgerVars
  <2>2. InFlight(p)' \subseteq InFlight(p)
    BY <1>6 DEF Resume, Execute, Done, Slot, InFlight, Underway
  <2> QED BY <1>3, <2>1, <2>2
<1>7. CASE Crash
  <2>1. spent' = spent /\ p \notin blind
    BY <1>7 DEF Crash, ledgerVars
  <2>2. InFlight(p)' \subseteq InFlight(p)
    BY <1>7 DEF Crash, Slot, InFlight, Underway
  <2> QED BY <1>3, <2>1, <2>2
<1>8. CASE \/ Prompt \/ UNCHANGED vars
           \/ \E cost \in 1 .. MaxCost : LegacyCall(cost)
           \/ \E q \in Projects : LockVision(q)
  <2>1. spent' = spent /\ p \notin blind /\ call' = call
    BY <1>8 DEF Prompt, LegacyCall, LockVision, vars, ledgerVars
  <2>2. InFlight(p)' = InFlight(p)
    BY <2>1 DEF InFlight, Underway
  <2> QED BY <1>3, <2>1, <2>2
<1> QED BY <1>4, <1>5, <1>6, <1>7, <1>8 DEF Steps, Next

\* Whatever is in flight, a project whose ledger could be read overspends by
\* less than one call of each slot.
THEOREM Overspend == Spec => []OverspendBounded
<1>1. Init => OverspendBounded
  <2> SUFFICES ASSUME Init, NEW p \in Projects, TotalCap[p] > 0
               PROVE  Room(p, spent[p], InFlight(p))
    BY DEF OverspendBounded, Room
  <2>1. spent[p] = 0 /\ InFlight(p) \subseteq Calls
    BY DEF Init, InFlight
  <2>2. 100 * spent[p] < 95 * TotalCap[p]
    BY <2>1, AgentCallsAssumption
  <2> QED BY <2>1, <2>2, BelowThresholdFits
<1>2. AInv /\ OverspendBounded /\ [Next]_vars => OverspendBounded'
  <2> SUFFICES ASSUME AInv, OverspendBounded, Steps, NEW p \in Projects,
                      p \notin blind', TotalCap[p] > 0
               PROVE  Room(p, spent'[p], InFlight(p)')
    BY DEF Steps, OverspendBounded, Room
  <2> QED BY BoundKept
<1> QED BY <1>1, <1>2, AgentCallsInvariant, PTL DEF Spec
=============================================================================
