------------------------------- MODULE Approval -------------------------------
(***************************************************************************)
(* What the permission policy expects of whoever it asks: a question that  *)
(* was put gets one answer, the answer is never revised, and no question   *)
(* stays open for ever.  A crash of the server forgets the open questions. *)
(***************************************************************************)
CONSTANT Calls    \* the tool calls that may ask, each at most once

VARIABLE verdict

Verdicts == {"none", "open", "ALLOW", "DENY", "lost"}

ApprovalTypeOK == verdict \in [Calls -> Verdicts]

Open == {c \in Calls : verdict[c] = "open"}

ApprovalInit == verdict = [c \in Calls |-> "none"]

Ask(c) ==
  /\ verdict[c] = "none"
  /\ verdict' = [verdict EXCEPT ![c] = "open"]

Decide(S, d) ==
  /\ S # {} /\ S \subseteq Open
  /\ verdict' = [c \in Calls |-> IF c \in S THEN d ELSE verdict[c]]

\* Only one question at a time is answered with ALLOW.
Allow(c)  == Decide({c}, "ALLOW")
Refuse(S) == Decide(S, "DENY")
Forget    == Decide(Open, "lost")

ApprovalNext ==
  \/ \E c \in Calls : Ask(c) \/ Allow(c)
  \/ \E S \in SUBSET Calls : Refuse(S)
  \/ Forget

ApprovalSafety == ApprovalInit /\ [][ApprovalNext]_verdict

ApprovalSpec ==
  /\ ApprovalSafety
  /\ \A c \in Calls : verdict[c] = "open" ~> verdict[c] # "open"
=============================================================================
