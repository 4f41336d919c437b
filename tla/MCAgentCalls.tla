----------------------------- MODULE MCAgentCalls -----------------------------
(* Small instances of AgentCalls for TLC. *)
EXTENDS AgentCalls, TLC

CONSTANTS p1, p2

In(p, provider, role, estimate, preview) ==
  [project |-> p, provider |-> provider, role |-> role,
   estimate |-> estimate, preview |-> preview]

\* A cheap and a dear call of a project with a cap, and the calls that take
\* another path through the tool, one of them of a project without a cap.
SomeInputs ==
  {In(p1, "paid", "other", 1, FALSE), In(p1, "paid", "other", MaxCost, FALSE),
   In(p1, "routed", "reverse_vision", 1, FALSE),
   In(p1, "mock", "other", 0, FALSE), In(p1, "paid", "other", 1, TRUE),
   In(p2, "none", "other", 1, FALSE)}

SomeModes ==
  {[active |-> "WORKSPACE_WRITE", inherited |-> "READ_ONLY"],
   [active |-> "READ_ONLY", inherited |-> "WORKSPACE_WRITE"],
   [active |-> "PROMPT", inherited |-> "READ_ONLY"],
   [active |-> "TEST", inherited |-> "WORKSPACE_WRITE"],
   [active |-> "TEST", inherited |-> "READ_ONLY"]}

SomeCaps == [p \in Projects |-> IF p = p1 THEN 2 * MaxCost ELSE 0]
=============================================================================
