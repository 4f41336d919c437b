------------------------------ MODULE AgentCalls ------------------------------
(***************************************************************************)
(* One tool, agent.invoke, from the registry's invoke to the row in the    *)
(* cost ledger: the permission policy in front of it, the budget rule of   *)
(* the policy, the prompter the policy may ask, and the model call behind  *)
(* it (runtime/tools/{_registry, agent_tools}.js, runtime/permission/      *)
(* {permissionPolicy, permissionMode}.js, rules/agent_budget_rule.js,      *)
(* runtime/agents/{budget_enforcer, cost_ledger}.js, and the metering of   *)
(* the legacy calls in providers/_contract/openAiAdapter.js).              *)
(*                                                                         *)
(* Everything from invoke to the start of the model call happens in one    *)
(* turn of the event loop, except where the policy asks the owner: what    *)
(* was checked before the question is not checked again after the answer.  *)
(* The cost of a model call is known, and appended, only when it is over,  *)
(* so calls that are under way are invisible to the next check.            *)
(*                                                                         *)
(* The ledger is kept as sums: of each project, whether it has rows, their *)
(* total and what the rows of legacy calls amounted to when the first one  *)
(* was appended.  Money is in cents.  An input that fails the schema, and  *)
(* a hard denial, end a call before anything here and are left out.        *)
(***************************************************************************)
EXTENDS Prompter, FiniteSets

CONSTANTS Projects,
          Inputs,         \* the inputs of the calls
          Modes,          \* what the policy may have been created with
          RespondSurface, \* opts.prompt_respond_surface of createPolicy
          TotalCap,       \* max_total_usd of each project's vision, in cents
          MaxCost,        \* no model call costs more
          MaxSpent,       \* bounds for model checking: the total of the
          MaxLegacy       \*   ledger of a project, of the legacy calls

DataModes    == <<"READ_ONLY", "WORKSPACE_WRITE", "DANGER_FULL_ACCESS">>
ControlModes == {"PROMPT", "TEST"}

\* provider "mock" is free, by provider_id too: the one module there is then
\* answers from a table, for a fraction of a cent.  "none" stands for a
\* provider without an adapter, "routed" for a call of a provider module.
AllInputs == [project : Projects, provider : {"mock", "none", "paid", "routed"},
              role : {"reverse_vision", "other"}, estimate : 0 .. MaxCost,
              preview : BOOLEAN]

AllModes == [active : ControlModes \cup {DataModes[i] : i \in 1 .. 3},
             inherited : {DataModes[i] : i \in 1 .. 3}]

ASSUME AgentCallsAssumption ==
  /\ {MaxCost, MaxSpent, MaxLegacy} \subseteq Nat
  /\ IsFiniteSet(Calls)
  /\ Inputs \subseteq AllInputs /\ Inputs # {}
  /\ Modes \subseteq AllModes
  /\ RespondSurface \in BOOLEAN
  /\ TotalCap \in [Projects -> Nat]
  /\ Faults \subseteq {"io", "crash", "read"}

VARIABLES
  mode,     \* the policy's active_mode and inherited_data_mode
  locked,   \* the projects whose vision is locked
  call,     \* where each call is
  spent,    \* the total of a project's ledger rows
  booked,   \* the projects with a ledger row
  legacy,   \* the total of the rows of the legacy calls
  since,    \* legacy, when a project's first row was appended
  blind     \* the projects for which a call was let through unchecked

ledgerVars == <<spent, booked, legacy, since>>
vars == <<prompterVars, mode, locked, call, ledgerVars, blind>>

Phases  == {"idle", "asking", "running", "done", "lost"}
Results == {"none", "SUCCESS", "PREVIEWED", "FAILED", "PROVIDER_NOT_FOUND",
            "VISION_NOT_LOCKED", "BUDGET", "INSUFFICIENT_MODE",
            "TEST_MODE_DENIED", "PROMPT_DENIED"}

CallRecords == [phase : Phases, input : Inputs, result : Results]

AgentCallsTypeOK ==
  /\ PrompterTypeOK
  /\ mode \in Modes
  /\ locked \subseteq Projects
  /\ call \in [Calls -> CallRecords]
  /\ spent \in [Projects -> Nat]
  /\ booked \subseteq Projects
  /\ legacy \in Nat
  /\ since \in [Projects -> 0 .. legacy]
  /\ blind \subseteq Projects

-----------------------------------------------------------------------------
(* The policy *)

\* resolveActiveContext
ControlMode == IF mode.active \in ControlModes THEN mode.active ELSE "none"
DataMode    == IF ControlMode = "none" THEN mode.active ELSE mode.inherited

\* dataModeSatisfies, for agent.invoke, which requires WORKSPACE_WRITE.
DataAllows == DataMode # "READ_ONLY"

\* Mutants of LegacySpendSince and WithinBudget: every legacy row counts;
\* the ledger is not read.
AllLegacySpend(p) == legacy - since[p]
EstimateWithin(p, estimate) ==
  TotalCap[p] = 0 \/ 100 * estimate < 95 * TotalCap[p]

\* _legacySpendSince: legacy spend counts from a project's first row on.
LegacySpendSince(p) == IF p \in booked THEN legacy - since[p] ELSE 0

\* checkBudget: allowed below 95 % of the cap; no cap is no limit.
WithinBudget(p, estimate) ==
  \/ TotalCap[p] = 0
  \/ 100 * (spent[p] + LegacySpendSince(p) + estimate) < 95 * TotalCap[p]

\* agent_budget_rule.check: what it refuses a call for, if anything.  A
\* ledger that cannot be read lets the call through.
Refusal(in, readable) ==
  IF in.provider = "mock" THEN "none"
  ELSE IF in.role # "reverse_vision" /\ in.project \notin locked
    THEN "VISION_NOT_LOCKED"
  ELSE IF readable /\ ~WithinBudget(in.project, in.estimate) THEN "BUDGET"
  ELSE "none"

-----------------------------------------------------------------------------
(* The steps of a call *)

Slot(phase, in, result) == [phase |-> phase, input |-> in, result |-> result]

\* A slot without a call holds some input or other.
NoInput == CHOOSE in \in Inputs : TRUE

Done(c, result) ==
  call' = [call EXCEPT ![c] = Slot("done", NoInput, result)]

\* The tool itself, once authorized: a preview and a provider without an
\* adapter end here, any other call goes out to its provider.
Execute(c, in) ==
  \/ in.preview /\ Done(c, "PREVIEWED")
  \/ ~in.preview /\ in.provider = "none" /\ Done(c, "PROVIDER_NOT_FOUND")
  \/ /\ ~in.preview /\ in.provider # "none"
     /\ call' = [call EXCEPT ![c] = Slot("running", in, "none")]

\* Steps 2 to 5 of authorize, for a call the rules let through.
Authorize(c, in) ==
  \/ /\ ControlMode = "PROMPT"       \* in mode, or as an escalation
     /\ Request(c)
     /\ call' = [call EXCEPT ![c] = Slot("asking", in, "none")]
  \/ /\ ControlMode # "PROMPT" /\ DataAllows
     /\ Execute(c, in) /\ UNCHANGED prompterVars
  \/ /\ ControlMode = "TEST" /\ ~DataAllows
     /\ Done(c, "TEST_MODE_DENIED") /\ UNCHANGED prompterVars
  \/ /\ ControlMode = "none" /\ ~DataAllows
     /\ Done(c, "INSUFFICIENT_MODE") /\ UNCHANGED prompterVars

\* registry.invoke up to the first wait.  A slot whose last call asked nobody
\* serves the next one.
Invoke(c, in) ==
  /\ call[c].phase \notin {"asking", "running"} /\ Fresh(c)
  /\ \E readable \in IF "read" \in Faults THEN BOOLEAN ELSE {TRUE} :
       LET refusal == Refusal(in, readable) IN
       /\ blind' = IF readable \/ refusal # "none" \/ in.provider = "mock"
                     THEN blind ELSE blind \cup {in.project}
       /\ IF refusal # "none"
            THEN Done(c, refusal) /\ UNCHANGED prompterVars
            ELSE Authorize(c, in)
  /\ UNCHANGED <<mode, locked, ledgerVars>>

\* Mutant of Resume: executes whatever was answered.
ResumeAnyway(c) ==
  /\ call[c].phase = "asking" /\ answer[c] # "none"
  /\ Execute(c, call[c].input)
  /\ UNCHANGED <<prompterVars, mode, locked, ledgerVars, blind>>

\* The owner's answer, or the lack of one, reaches the waiting call.
Resume(c) ==
  /\ call[c].phase = "asking" /\ answer[c] # "none"
  /\ IF answer[c] = "ALLOW" THEN Execute(c, call[c].input)
                            ELSE Done(c, "PROMPT_DENIED")
  /\ UNCHANGED <<prompterVars, mode, locked, ledgerVars, blind>>

\* Mutant of Append1: counts the row's own cost as legacy spend before it.
AppendShifted(p, cost) ==
  /\ spent'  = [spent EXCEPT ![p] = @ + cost]
  /\ booked' = booked \cup {p}
  /\ since'  = IF p \in booked THEN since
                               ELSE [since EXCEPT ![p] = legacy + cost]
  /\ UNCHANGED legacy

\* ledger.appendEntry; an append that fails is swallowed.
Append1(p, cost) ==
  /\ spent'  = [spent EXCEPT ![p] = @ + cost]
  /\ booked' = booked \cup {p}
  /\ since'  = IF p \in booked THEN since ELSE [since EXCEPT ![p] = legacy]
  /\ UNCHANGED legacy

Book(p, cost) ==
  \/ Append1(p, cost)
  \/ "io" \in Faults /\ UNCHANGED ledgerVars

\* The provider answers.  A failed call of an adapter is booked as free, one
\* of a routed provider at the price of the tokens it reports.
Answer(c, result, cost) ==
  LET in == call[c].input IN
  /\ call[c].phase = "running"
  /\ spent[in.project] + cost <= MaxSpent
  /\ in.provider = "mock" => cost = 0
  /\ result = "FAILED" /\ in.provider # "routed" => cost = 0
  /\ Book(in.project, cost)
  /\ Done(c, result)
  /\ UNCHANGED <<prompterVars, mode, locked, blind>>

\* meteredCreate and _bookLegacyRow: a call of an older provider, which no
\* policy sees, is booked under the sentinel project.
LegacyCall(cost) ==
  /\ legacy + cost <= MaxLegacy
  /\ legacy' = legacy + cost
  /\ UNCHANGED <<prompterVars, mode, locked, call, spent, booked, since, blind>>

\* vision_engine.lockVision
LockVision(p) ==
  /\ locked' = locked \cup {p}
  /\ UNCHANGED <<prompterVars, mode, call, ledgerVars, blind>>

\* What the owner, the clock and a shutdown do to the questions.
Prompt ==
  /\ \/ \E c \in Calls : \/ Timeout(c)
                         \/ \E d \in Decisions : Respond(c, d)
     \/ CancelAll
  /\ UNCHANGED <<mode, locked, call, ledgerVars, blind>>

\* The calls under way are gone, and nothing is booked for them.
Crash ==
  LET live == {c \in Calls : call[c].phase \in {"asking", "running"}} IN
  /\ "crash" \in Faults
  /\ live # {}
  /\ call' = [c \in Calls |->
                IF c \in live THEN Slot("lost", NoInput, "none")
                              ELSE call[c]]
  /\ PrompterCrash \/ (pending = {} /\ UNCHANGED prompterVars)
  /\ UNCHANGED <<mode, locked, ledgerVars, blind>>

\* createPolicy refuses to start in PROMPT mode with nobody to answer.
Init ==
  /\ PrompterInit
  /\ mode \in {m \in Modes : m.active = "PROMPT" => RespondSurface}
  /\ locked = {}
  /\ call = [c \in Calls |-> Slot("idle", NoInput, "none")]
  /\ spent = [p \in Projects |-> 0]
  /\ booked = {}
  /\ legacy = 0
  /\ since = [p \in Projects |-> 0]
  /\ blind = {}

Next ==
  \/ \E c \in Calls :
       \/ \E in \in Inputs : Invoke(c, in)
       \/ Resume(c)
       \/ \E result \in {"SUCCESS", "FAILED"}, cost \in 0 .. MaxCost :
            Answer(c, result, cost)
  \/ \E cost \in 1 .. MaxCost : LegacyCall(cost)
  \/ \E p \in Projects : LockVision(p)
  \/ Prompt
  \/ Crash

\* Timers fire, a resolved promise resumes its caller, and every adapter
\* gives up after a timeout of its own.
Fairness ==
  \A c \in Calls :
    /\ WF_vars(Timeout(c) /\ UNCHANGED <<mode, locked, call, ledgerVars, blind>>)
    /\ WF_vars(Resume(c))
    /\ WF_vars(\E result \in {"SUCCESS", "FAILED"}, cost \in 0 .. MaxCost :
                 Answer(c, result, cost))

Spec == Init /\ [][Next]_vars /\ Fairness

-----------------------------------------------------------------------------
(* Properties *)

Underway(c) == call[c].phase \in {"asking", "running"}

\* The calls of a project that were checked and are not booked yet.
InFlight(p) == {c \in Calls : /\ Underway(c)
                              /\ call[c].input.project = p
                              /\ call[c].input.provider # "mock"}

\* Checking before a call and booking after it lets a project overspend, but
\* by no more than one call of each slot: what is booked and what is under
\* way stay below 95 % of the cap plus the price of all slots.  Only a
\* ledger that could not be read voids the bound.
OverspendBounded ==
  \A p \in Projects \ blind :
    TotalCap[p] > 0 =>
      100 * (spent[p] + MaxCost * Cardinality(InFlight(p)))
        < 95 * TotalCap[p] + 100 * MaxCost * Cardinality(Calls)

\* Whatever ran, was previewed or looked for its provider was within the
\* data mode the policy was created with or, in PROMPT mode, allowed by the
\* owner: never by a timeout, a cancelAll or a crash, and never because of
\* an answer to another call.
RanAuthorized ==
  \A c \in Calls :
    \/ call[c].phase = "running"
    \/ call[c].result \in {"SUCCESS", "FAILED", "PREVIEWED",
                           "PROVIDER_NOT_FOUND"}
    => IF ControlMode = "PROMPT" THEN answer[c] = "ALLOW" ELSE DataAllows

\* "A brand-new project can never be blocked by historical legacy spend": a
\* project with no row is refused for its budget only if the one call is
\* estimated at 95 % of the cap.
NewProjectUnblocked ==
  [][\A c \in Calls, in \in Inputs :
       Invoke(c, in) /\ call'[c].result = "BUDGET" =>
         \/ in.project \in booked
         \/ 100 * in.estimate >= 95 * TotalCap[in.project]]_vars

\* Every call comes to an end, the ones that ask nobody's answer included,
\* unless the server dies first.
CallsAnswered == \A c \in Calls : Underway(c) ~> ~Underway(c)
=============================================================================
