--------------------------- MODULE WriteScopeProofs ---------------------------
(***************************************************************************)
(* The write boundary, for every set of projects and any number of         *)
(* operations in flight.                                                   *)
(***************************************************************************)
EXTENDS WriteScope, TLAPS

IsBuild(o) == operations[o].doing = "buildProject"

\* What BoundaryArmed needs to be inductive: without an overlap no second
\* build is there to take the register away.
OneBuild ==
  ~overlapped => \A o1, o2 \in Operations : IsBuild(o1) /\ IsBuild(o2) => o1 = o2

ScopeInv == ScopeTypeOK /\ RegisterOwned /\ BoundaryArmed /\ OneBuild

-----------------------------------------------------------------------------
\* A call in flight has a project; an idle one is neither a build nor
\* another stage.
LEMMA CallFacts ==
  ASSUME ScopeTypeOK, NEW o \in Operations
  PROVE  /\ operations[o].doing # "nothing" =>
              operations[o].project \in Projects
         /\ operations[o] = Idle => operations[o].doing = "nothing"
<1>1. operations[o] \in InFlight \/ operations[o] = Idle
  BY DEF ScopeTypeOK
<1>2. \A r \in InFlight : r.project \in Projects
  BY DEF InFlight
<1>3. Idle.doing = "nothing"
  BY DEF Idle
<1> QED
  BY <1>1, <1>2, <1>3

\* The type invariant is kept by every step.
LEMMA ScopeTyped == ScopeInit /\ [][ScopeNext]_scopeVars => []ScopeTypeOK
<1>1. ScopeInit => ScopeTypeOK
  BY DEF ScopeInit, ScopeTypeOK
<1>2. ScopeTypeOK /\ [ScopeNext]_scopeVars => ScopeTypeOK'
  <2> SUFFICES ASSUME ScopeTypeOK, [ScopeNext]_scopeVars PROVE ScopeTypeOK'
    OBVIOUS
  <2> USE DEF ScopeTypeOK, InFlight, SetActiveProject, LeaveSeam, Start, End,
              NoteOverlap
  <2>1. CASE \E o \in Operations, p \in Projects : BeginBuild(o, p)
    <3> PICK o \in Operations, p \in Projects : BeginBuild(o, p)
      BY <2>1
    <3>1. [doing |-> "buildProject", project |-> p] \in InFlight
      OBVIOUS
    <3> QED
      BY <3>1 DEF BeginBuild
  <2>2. CASE \E o \in Operations, p \in Projects : BeginStage(o, p)
    <3> PICK o \in Operations, p \in Projects : BeginStage(o, p)
      BY <2>2
    <3>1. [doing |-> "another stage", project |-> p] \in InFlight
      OBVIOUS
    <3> QED
      BY <3>1 DEF BeginStage
  <2>3. CASE \E o \in Operations : RefuseBuild(o)
    BY <2>3 DEF RefuseBuild
  <2>4. CASE \E o \in Operations : FailBuild(o)
    BY <2>4 DEF FailBuild
  <2>5. CASE \E o \in Operations : FinishBuild(o)
    <3> PICK o \in Operations : FinishBuild(o)
      BY <2>5
    <3>1. operations[o].project \in Projects
      BY CallFacts DEF FinishBuild
    <3> QED
      BY <3>1 DEF FinishBuild, MoveLoop, LoopStates
  <2>6. CASE \E o \in Operations : FinishStage(o)
    <3> PICK o \in Operations : FinishStage(o)
      BY <2>6
    <3>1. operations[o].project \in Projects
      BY CallFacts DEF FinishStage
    <3> QED
      BY <3>1 DEF FinishStage, MoveLoop
  <2>7. CASE Restart
    BY <2>7 DEF Restart
  <2>8. CASE UNCHANGED scopeVars
    BY <2>8 DEF scopeVars
  <2> QED
    BY <2>1, <2>2, <2>3, <2>4, <2>5, <2>6, <2>7, <2>8 DEF ScopeNext
<1> QED
  BY <1>1, <1>2, PTL

-----------------------------------------------------------------------------
\* A step that leaves the register and the builds in flight alone.
LEMMA BuildsUntouched ==
  ASSUME ScopeInv, ScopeTypeOK',
         register' = register, overlapped' = overlapped,
         \A o \in Operations : IsBuild(o)' <=> IsBuild(o),
         \A o \in Operations : IsBuild(o) => operations'[o] = operations[o]
  PROVE  ScopeInv'
<1>1. \A p \in Projects : Building(p)' <=> Building(p)
  BY DEF Building, IsBuild
<1>2. RegisterOwned'
  BY <1>1 DEF ScopeInv, RegisterOwned, ScopeTypeOK
<1>3. BoundaryArmed'
  BY <1>1 DEF ScopeInv, BoundaryArmed
<1>4. OneBuild'
  BY DEF ScopeInv, OneBuild
<1> QED
  BY <1>2, <1>3, <1>4 DEF ScopeInv

\* A step that clears the register, and after which no build is in flight
\* unless builds have overlapped.
LEMMA RegisterCleared ==
  ASSUME ScopeTypeOK', register' = None,
         ~overlapped' => \A o \in Operations : ~IsBuild(o)'
  PROVE  ScopeInv'
<1>1. ~overlapped' => \A p \in Projects : ~Building(p)'
  BY DEF Building, IsBuild
<1> QED
  BY <1>1 DEF ScopeInv, RegisterOwned, BoundaryArmed, OneBuild

\* Leaving the seam, by the build o or by a call that was refused.
LEMMA SeamLeft ==
  ASSUME ScopeInv, ScopeTypeOK', NEW o \in Operations,
         LeaveSeam, NoteOverlap(o),
         \/ operations[o] = Idle /\ UNCHANGED operations
         \/ IsBuild(o) /\ End(o)
  PROVE  ScopeInv'
<1>1. ~IsBuild(o)'
  BY CallFacts DEF ScopeInv, ScopeTypeOK, End, Idle, IsBuild
<1>2. \A other \in Operations \ {o} : IsBuild(other)' <=> IsBuild(other)
  BY DEF ScopeInv, ScopeTypeOK, End, IsBuild
<1>3. ASSUME ~overlapped', NEW other \in Operations \ {o} PROVE ~IsBuild(other)
  <2>1. CASE operations[o] = Idle
    BY <1>3, <2>1 DEF NoteOverlap, IsBuild
  <2>2. CASE IsBuild(o)
    BY <1>3, <2>2 DEF NoteOverlap, IsBuild, ScopeInv, OneBuild
  <2> QED
    BY <2>1, <2>2
<1>4. register' = None
  BY DEF LeaveSeam, SetActiveProject
<1> QED
  BY <1>1, <1>2, <1>3, <1>4, RegisterCleared

LEMMA ScopeInvHolds == ScopeSpec => []ScopeInv
<1>1. ScopeInit => ScopeInv
  <2> SUFFICES ASSUME ScopeInit PROVE ScopeInv
    OBVIOUS
  <2>1. ScopeTypeOK
    BY DEF ScopeInit, ScopeTypeOK
  <2>2. \A o \in Operations : ~IsBuild(o)
    BY DEF ScopeInit, IsBuild, Idle
  <2> QED
    BY <2>1, <2>2 DEF ScopeInit, ScopeInv, RegisterOwned, BoundaryArmed,
                      OneBuild, Building, IsBuild
<1>2. ScopeInv /\ ScopeTypeOK' /\ [ScopeNext]_scopeVars => ScopeInv'
  <2> SUFFICES ASSUME ScopeInv, ScopeTypeOK', [ScopeNext]_scopeVars
               PROVE  ScopeInv'
    OBVIOUS
  <2>1. ASSUME NEW o \in Operations, NEW p \in Projects, BeginBuild(o, p)
        PROVE  ScopeInv'
    <3>1. operations'[o] = [doing |-> "buildProject", project |-> p]
      BY <2>1 DEF BeginBuild, Start, ScopeInv, ScopeTypeOK
    <3>2. \A other \in Operations \ {o} : operations'[other] = operations[other]
      BY <2>1 DEF BeginBuild, Start, ScopeInv, ScopeTypeOK
    <3>3. register' = p
      BY <2>1 DEF BeginBuild, SetActiveProject
    <3>4. ~overlapped' => \A other \in Operations \ {o} : ~IsBuild(other)'
      BY <2>1, <3>2 DEF BeginBuild, NoteOverlap, IsBuild
    <3>5. RegisterOwned'
      BY <3>1, <3>3 DEF RegisterOwned, Building
    <3>6. BoundaryArmed'
      BY <3>1, <3>3, <3>4 DEF BoundaryArmed, Building, IsBuild
    <3>7. OneBuild'
      BY <3>4 DEF OneBuild
    <3> QED
      BY <3>5, <3>6, <3>7 DEF ScopeInv
  <2>2. ASSUME NEW o \in Operations, NEW p \in Projects, BeginStage(o, p)
        PROVE  ScopeInv'
    <3>1. ~IsBuild(o)
      BY <2>2, CallFacts DEF BeginStage, IsBuild, ScopeInv
    <3>2. ~IsBuild(o)'
      BY <2>2 DEF BeginStage, Start, IsBuild, ScopeInv, ScopeTypeOK
    <3>3. \A other \in Operations \ {o} : operations'[other] = operations[other]
      BY <2>2 DEF BeginStage, Start, ScopeInv, ScopeTypeOK
    <3> QED
      BY <2>2, <3>1, <3>2, <3>3, BuildsUntouched DEF BeginStage, IsBuild
  <2>3. ASSUME NEW o \in Operations, RefuseBuild(o) PROVE ScopeInv'
    BY <2>3, SeamLeft DEF RefuseBuild
  <2>4. ASSUME NEW o \in Operations, FailBuild(o) PROVE ScopeInv'
    BY <2>4, SeamLeft DEF FailBuild, IsBuild
  <2>5. ASSUME NEW o \in Operations, FinishBuild(o) PROVE ScopeInv'
    BY <2>5, SeamLeft DEF FinishBuild, IsBuild
  <2>6. ASSUME NEW o \in Operations, FinishStage(o) PROVE ScopeInv'
    <3>1. ~IsBuild(o)
      BY <2>6, CallFacts DEF FinishStage, IsBuild, ScopeInv
    <3>2. ~IsBuild(o)'
      BY <2>6 DEF FinishStage, End, Idle, IsBuild, ScopeInv, ScopeTypeOK
    <3>3. \A other \in Operations \ {o} : operations'[other] = operations[other]
      BY <2>6 DEF FinishStage, End, ScopeInv, ScopeTypeOK
    <3> QED
      BY <2>6, <3>1, <3>2, <3>3, BuildsUntouched DEF FinishStage, IsBuild
  <2>7. CASE Restart
    BY <2>7, RegisterCleared DEF Restart, IsBuild, Idle
  <2>8. CASE UNCHANGED scopeVars
    BY <2>8, BuildsUntouched DEF scopeVars, IsBuild
  <2> QED
    BY <2>1, <2>2, <2>3, <2>4, <2>5, <2>6, <2>7, <2>8 DEF ScopeNext
<1> QED
  BY <1>1, <1>2, ScopeTyped, PTL DEF ScopeSpec

-----------------------------------------------------------------------------
\* buildProject's finally block: the register of permissionPolicy.js never
\* names a project that is not being built.
THEOREM NoLeak == ScopeSpec => []RegisterOwned
  BY ScopeInvHolds, PTL DEF ScopeInv

\* checkScope has the right project for the whole of a build that no other
\* build overlaps.
THEOREM ArmedAlone == ScopeSpec => []BoundaryArmed
  BY ScopeInvHolds, PTL DEF ScopeInv

\* A move of a loop that is denied SCOPE_CROSS_PROJECT is denied because of
\* another project's build that is in flight right then.
THEOREM DenialsExplained == ScopeSpec => DeniedByAnother
<1>1. ASSUME ScopeInv, NEW p \in Projects, mode # "READ_ONLY", ~Allowed(None, p)
      PROVE  \E q \in Projects \ {p} : Building(q)
  <2>1. register # None /\ register # p
    BY <1>1 DEF Allowed, ActiveReference, ScopeInv, ScopeTypeOK, DataModes
  <2> QED
    BY <1>1, <2>1 DEF ScopeInv, ScopeTypeOK, RegisterOwned
<1>2. ScopeInv /\ [ScopeNext]_scopeVars =>
        \A p \in denied' \ denied :
          mode # "READ_ONLY" => \E q \in Projects \ {p} : Building(q)
  <2> SUFFICES ASSUME ScopeInv, [ScopeNext]_scopeVars,
                      NEW p \in denied' \ denied, mode # "READ_ONLY"
               PROVE  \E q \in Projects \ {p} : Building(q)
    OBVIOUS
  <2>1. PICK o \in Operations : FinishBuild(o) \/ FinishStage(o)
    BY DEF ScopeNext, BeginBuild, BeginStage, RefuseBuild, FailBuild, Restart,
           scopeVars
  <2>2. p = operations[o].project /\ ~Allowed(None, p)
    BY <2>1 DEF FinishBuild, FinishStage, MoveLoop
  <2>3. p \in Projects
    BY <2>1, <2>2, CallFacts DEF FinishBuild, FinishStage, ScopeInv
  <2> QED
    BY <1>1, <2>2, <2>3
<1> QED
  BY <1>2, ScopeInvHolds, PTL DEF ScopeSpec, DeniedByAnother
=============================================================================
