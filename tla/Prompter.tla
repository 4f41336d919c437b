------------------------------- MODULE Prompter -------------------------------
(***************************************************************************)
(* The permission prompter (runtime/permission/permissionPrompter.js): the *)
(* promise, the timer and the entry of the pending map of each request,    *)
(* and the rows it appends to the tool audit log.                          *)
(*                                                                         *)
(* Three callbacks can settle one request: its timer, an answer of the     *)
(* owner, and cancelAll when the server shuts down or the prompter is      *)
(* reset.  Each of them writes its row before it settles, so it is settle  *)
(* that has to keep the others from writing theirs afterwards.             *)
(*                                                                         *)
(* respond with an unknown id (NOT_FOUND) or another word than ALLOW and   *)
(* DENY changes nothing and is not an action.                              *)
(***************************************************************************)
EXTENDS Sequences, Naturals

CONSTANTS Calls,     \* the tool calls that may ask, each at most once
          Faults     \* "io": appends to the audit log fail; "crash"

VARIABLES pending,   \* _pending: the calls with an entry in the map
          armed,     \* the calls whose timer is set
          answer,    \* what the promise of a call resolved to
          lost,      \* the calls whose question died with the server
          rows       \* the permission_prompt rows of a call, on disk

prompterVars == <<pending, armed, answer, lost, rows>>

Decisions == {"ALLOW", "DENY"}
RowKinds  == {"requested", "timeout", "ALLOW", "DENY", "cancelled"}
Outcomes  == RowKinds \ {"requested"}

\* The decision a row records.
DecisionOf(kind) == IF kind = "ALLOW" THEN "ALLOW" ELSE "DENY"

PrompterTypeOK ==
  /\ pending \subseteq Calls
  /\ armed \subseteq Calls
  /\ answer \in [Calls -> Decisions \cup {"none"}]
  /\ lost \subseteq Calls
  /\ rows \in [Calls -> Seq(RowKinds)]

Fresh(c) == c \notin pending \cup lost /\ answer[c] = "none"

-----------------------------------------------------------------------------
\* _tryAudit: a row for each call of S; an append that fails is swallowed.
Audit(S, kind) ==
  \E written \in IF "io" \in Faults THEN SUBSET S ELSE {S} :
    rows' = [c \in Calls |->
               IF c \in written THEN Append(rows[c], kind) ELSE rows[c]]

\* Mutant of Settle: forgets clearTimeout.
SettleKeepsTimer(S, d) ==
  LET unsettled == {c \in S : answer[c] = "none"} IN
  /\ answer'  = [c \in Calls |-> IF c \in unsettled THEN d ELSE answer[c]]
  /\ pending' = pending \ unsettled
  /\ UNCHANGED <<lost, armed>>

\* settle: only an unsettled request is resolved, its timer cleared and its
\* entry deleted.
Settle(S, d) ==
  LET unsettled == {c \in S : answer[c] = "none"} IN
  /\ answer'  = [c \in Calls |-> IF c \in unsettled THEN d ELSE answer[c]]
  /\ armed'   = armed \ unsettled
  /\ pending' = pending \ unsettled
  /\ UNCHANGED lost

-----------------------------------------------------------------------------
(* Operations *)

\* Mutant of Request: sets no timer.
RequestUntimed(c) ==
  /\ Fresh(c)
  /\ pending' = pending \cup {c}
  /\ Audit({c}, "requested")
  /\ UNCHANGED <<armed, answer, lost>>

Request(c) ==
  /\ Fresh(c)
  /\ pending' = pending \cup {c}
  /\ armed'   = armed \cup {c}
  /\ Audit({c}, "requested")
  /\ UNCHANGED <<answer, lost>>

Timeout(c) ==
  /\ c \in armed
  /\ Audit({c}, "timeout")
  /\ Settle({c}, "DENY")

Respond(c, d) ==
  /\ c \in pending
  /\ Audit({c}, d)
  /\ Settle({c}, d)

CancelAll ==
  /\ pending # {}
  /\ Audit(pending, "cancelled")
  /\ Settle(pending, "DENY")

\* The map, the timers and the unresolved promises die with the server.
PrompterCrash ==
  /\ "crash" \in Faults
  /\ pending # {}
  /\ lost'    = lost \cup pending
  /\ pending' = {}
  /\ armed'   = {}
  /\ UNCHANGED <<answer, rows>>

PrompterInit ==
  /\ pending = {} /\ armed = {} /\ lost = {}
  /\ answer = [c \in Calls |-> "none"]
  /\ rows   = [c \in Calls |-> <<>>]

PrompterNext ==
  \/ \E c \in Calls :
       \/ Request(c)
       \/ Timeout(c)
       \/ \E d \in Decisions : Respond(c, d)
  \/ CancelAll
  \/ PrompterCrash

\* A timer that is set fires.
PrompterFairness == \A c \in Calls : WF_prompterVars(Timeout(c))

PrompterSpec == PrompterInit /\ [][PrompterNext]_prompterVars /\ PrompterFairness

-----------------------------------------------------------------------------
(* Properties *)

\* The audit log never contradicts itself or the caller: a request has at
\* most one row saying how it ended, and that row is the decision the
\* authorize call that asked was given.  A late timer, a late answer or a
\* cancelAll that comes after another of the three must leave no row.
AuditTellsOutcome ==
  \A c \in Calls : \A i \in DOMAIN rows[c] :
    rows[c][i] \in Outcomes =>
      /\ answer[c] = DecisionOf(rows[c][i])
      /\ \A j \in DOMAIN rows[c] : rows[c][j] \in Outcomes => j = i

\* The refinement mapping: the map holds the open questions, the promises
\* the answers.
Verdict ==
  [c \in Calls |-> IF answer[c] # "none" THEN answer[c]
                  ELSE IF c \in lost     THEN "lost"
                  ELSE IF c \in pending  THEN "open"
                  ELSE "none"]

A == INSTANCE Approval WITH verdict <- Verdict

\* Each question put to the prompter gets one answer, never revised, and
\* none stays open for ever, whichever of timer, owner and cancelAll is
\* first.
ImplementsApproval == A!ApprovalSpec
=============================================================================
