------------------------------ MODULE WriteScope ------------------------------
(***************************************************************************)
(* The cross-project write boundary of the permission policy               *)
(* (runtime/permission/{permissionPolicy, permissionRules}.js) and the     *)
(* handlers of ai_os/conversationEngine.js that meet it.                   *)
(*                                                                         *)
(* The policy has one active_project register for the whole process.       *)
(* buildProject sets it, works, and clears it in a finally block; a write  *)
(* below artifacts/projects/<p>/ is denied while the register, or the      *)
(* caller's own active_project_id, names another project.  The moves of a  *)
(* loop are writes without an active_project_id.  Operations on different  *)
(* projects interleave at their waits, as in LoopPipeline; of each loop it *)
(* is only kept whether a build is due, a test run is due, or neither.     *)
(***************************************************************************)
CONSTANTS
  Projects,     \* project ids, each with one loop
  Operations,   \* handler calls that may be in flight together
  None          \* null

ASSUME NoneAssumption == None \notin Projects

VARIABLES
  mode,        \* data mode the server was started with
  register,    \* active_project of the policy
  operations,  \* the handler calls in flight
  at,          \* current_state in graph.json of each project's loop
  denied,      \* history: projects whose last move was denied
  overlapped   \* history: builds have overlapped since one began alone

scopeVars == <<mode, register, operations, at, denied, overlapped>>

DataModes == {"READ_ONLY", "WORKSPACE_WRITE", "DANGER_FULL_ACCESS"}
LoopStates == {"BUILDER", "RUN_TESTS", "elsewhere"}

Idle == [doing |-> "nothing", project |-> None]
InFlight == [doing : {"buildProject", "another stage"}, project : Projects]

Building(p) == \E o \in Operations :
  operations[o].doing = "buildProject" /\ operations[o].project = p

-----------------------------------------------------------------------------
(* The policy *)

\* activeRef in checkScope
ActiveReference(ctxProject) ==
  IF ctxProject # None THEN ctxProject ELSE register

\* What authorize says of a write below artifacts/projects/<target>/.
\* TEST control mode has the data mode WORKSPACE_WRITE; PROMPT refuses to
\* start.
Allowed(ctxProject, target) ==
  \/ mode = "DANGER_FULL_ACCESS"
  \/ /\ mode = "WORKSPACE_WRITE"
     /\ ActiveReference(ctxProject) \in {None, target}

\* Mutant of SetActiveProject: the project declared first keeps the register.
KeepActiveProject(id) == register' = IF register = None THEN id ELSE register

\* setActiveProject
SetActiveProject(id) == register' = id

-----------------------------------------------------------------------------
(* The handlers *)

Start(o, doing, p) ==
  operations' = [operations EXCEPT ![o] = [doing |-> doing, project |-> p]]

\* Mutant of End: the project of an ended call stays behind.
EndKeeping(o) == operations' = [operations EXCEPT ![o].doing = "nothing"]

End(o) == operations' = [operations EXCEPT ![o] = Idle]

\* A move of p's loop: advance_state or loop_back with a ctx of {root}.
\* A denied one leaves the log and graph.json as they are, and a handler that
\* ignores the result reports a move all the same.
MoveLoop(p, to) ==
  IF Allowed(None, p)
    THEN /\ at' = [at EXCEPT ![p] = to]
         /\ denied' = denied \ {p}
    ELSE /\ denied' = denied \union {p}
         /\ UNCHANGED at

\* Mutant of LeaveSeam: no finally block, an early return keeps the project.
LeaveSeamOpen == UNCHANGED register

\* The finally block of buildProject
LeaveSeam == SetActiveProject(None)

\* History, of a seam o enters or leaves.  Builds stay overlapped until none
\* is left in flight.
NoteOverlap(o) ==
  overlapped' = /\ \E other \in Operations \ {o} :
                     operations[other].doing = "buildProject"
                /\ \/ overlapped
                   \/ operations[o] = Idle

\* buildProject until it waits for the builder.
BeginBuild(o, p) ==
  /\ operations[o] = Idle
  /\ at[p] = "BUILDER"
  /\ SetActiveProject(p)
  /\ Start(o, "buildProject", p)
  /\ NoteOverlap(o)
  /\ UNCHANGED <<mode, at, denied>>

\* buildProject of a project whose loop is elsewhere, or lacks an input:
\* the seam is entered and left without a wait.
RefuseBuild(o) ==
  /\ operations[o] = Idle
  /\ LeaveSeam
  /\ NoteOverlap(o)
  /\ UNCHANGED <<mode, operations, at, denied>>

\* The builder, the materializer, the parser or the manifest fails.
FailBuild(o) ==
  /\ operations[o].doing = "buildProject"
  /\ LeaveSeam
  /\ End(o)
  /\ NoteOverlap(o)
  /\ UNCHANGED <<mode, at, denied>>

\* The manifest is written with the build's own id, the move without.
FinishBuild(o) ==
  LET p == operations[o].project IN
  /\ operations[o].doing = "buildProject"
  /\ Allowed(p, p)
  /\ MoveLoop(p, "RUN_TESTS")
  /\ LeaveSeam
  /\ End(o)
  /\ NoteOverlap(o)
  /\ UNCHANGED mode

\* The handler of any other stage, until its wait.
BeginStage(o, p) ==
  /\ operations[o] = Idle
  /\ at[p] # "BUILDER"
  /\ Start(o, "another stage", p)
  /\ UNCHANGED <<mode, register, at, denied, overlapped>>

\* After it: forward, or back to the builder.
FinishStage(o) ==
  /\ operations[o].doing = "another stage"
  /\ \E to \in LoopStates : MoveLoop(operations[o].project, to)
  /\ End(o)
  /\ UNCHANGED <<mode, register, overlapped>>

\* The server dies and is restarted: the register and the operations were
\* in its memory.
Restart ==
  /\ register' = None
  /\ operations' = [o \in Operations |-> Idle]
  /\ overlapped' = FALSE
  /\ UNCHANGED <<mode, at, denied>>

-----------------------------------------------------------------------------
ScopeInit ==
  /\ mode \in DataModes
  /\ register = None
  /\ operations = [o \in Operations |-> Idle]
  /\ at \in [Projects -> LoopStates]
  /\ denied = {}
  /\ overlapped = FALSE

ScopeNext ==
  \/ \E o \in Operations, p \in Projects : BeginBuild(o, p) \/ BeginStage(o, p)
  \/ \E o \in Operations :
       RefuseBuild(o) \/ FailBuild(o) \/ FinishBuild(o) \/ FinishStage(o)
  \/ Restart

ScopeSpec == ScopeInit /\ [][ScopeNext]_scopeVars

-----------------------------------------------------------------------------
(* Properties *)

ScopeTypeOK ==
  /\ mode \in DataModes
  /\ register \in Projects \union {None}
  /\ operations \in [Operations -> InFlight \union {Idle}]
  /\ at \in [Projects -> LoopStates]
  /\ denied \subseteq Projects
  /\ overlapped \in BOOLEAN

\* "No leak between operations": the register never names a project that
\* is not being built, however builds overlap, fail, are refused or die.
RegisterOwned == register # None => Building(register)

\* As long as builds do not overlap the boundary is armed, with the right
\* project, for the whole of every build.
BoundaryArmed == ~overlapped => \A p \in Projects : Building(p) => register = p

\* No loop is refused a move but by a build of another project in flight at
\* that moment: whatever came before, a project alone is never hindered.
DeniedByAnother ==
  [][\A p \in denied' \ denied :
       mode # "READ_ONLY" => \E q \in Projects \ {p} : Building(q)]_scopeVars
=============================================================================
