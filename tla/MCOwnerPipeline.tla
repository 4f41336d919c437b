---------------------------- MODULE MCOwnerPipeline ----------------------------
EXTENDS OwnerPipeline, TLC
CONSTANTS c1, c2
AllFaults == {"io"}
Symmetry == Permutations(Calls)

\* Approved for the hand-off: only ApproveDocumentation sets the three fields,
\* so when one is lost the others mean no more than being documented.
Ready(s) ==
  /\ s.at = "EXECUTION_HANDOFF_READY"
  /\ s.docs = "DOCS_APPROVED" /\ s.pkg = "READY_FOR_HANDOFF"

\* Stages that no guard and no property tells apart; where the requirements
\* are called complete, an idea is none of its own.
Stage(s) ==
  CASE s.at = "IDEATION" /\ ~CalledComplete(s) -> "idea"
    [] s.at \in {"DISCUSSION", "IDEATION"} -> "talk"
    [] Ready(s) -> "ready"
    [] s.at \in {"DOCUMENTATION_REVIEW", "EXECUTION_HANDOFF_READY",
                 "EXECUTION_HANDOFF_CREATED"} -> "documented"
    [] OTHER -> "other"

\* Which goal it is matters as long as the calls are smooth.
Seen(s) ==
  [s EXCEPT !.at = Stage(s),
            !.docs = @ # "in work",
            !.pkg = IF @ = "READY_FOR_HANDOFF" THEN "in work" ELSE @,
            !.goal = IF smooth \/ @ = 0 THEN @ ELSE 1]

\* Goals that are in no state any more never come back.
Live(gs) == gs \cap ({st.goal} \cup {calls[c].save.goal : c \in Calls})

\* Calls that save what they read, or nothing.
Op(c) == IF calls[c].op \in {"options", "verify", "summary"} THEN "save" ELSE calls[c].op

\* The histories decide nothing but the properties.
Told == <<Seen(st), draft, goals, keys, [c \in Calls |-> <<Op(c), Seen(calls[c].save)>>],
          IF smooth THEN <<Live(approved), Live({package}), package \in approved,
                           package # 0, used>>
                    ELSE <<approved # {}, package # 0>>>>
================================================================================
