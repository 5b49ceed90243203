------------------------- MODULE SafeApplySolo_proofs -------------------------
(***************************************************************************)
(* One process, meeting only the faults of FaultAssumption, implements     *)
(* AtomicRuleset: for any generations and any number of managed tables.    *)
(***************************************************************************)
EXTENDS SafeApplySolo, SafeApply_proofs

\* None of the faults left out has left its mark, and a run is never disturbed.
NoFault ==
    /\ unlisted[self] = {} /\ undeleted[self] = {} /\ stale = {}
    /\ pc[self] # "idle" => self \in undisturbed

SoloInv == IInv /\ NoFault

LEMMA NoFaultInit == Init => NoFault
  BY SoloAssumption DEF Init, NoFault

LEMMA NoFaultStep ==
    ASSUME TypeOK, TypeOK', NoFault, [Next]_vars
    PROVE  NoFault'
  <1> USE SoloAssumption DEF NoFault
  <1>1. CASE UNCHANGED vars
    BY <1>1 DEF vars
  <1>2. ASSUME NEW g \in Gens, Begin(self, g) PROVE NoFault'
    BY <1>2 DEF Begin, TypeOK
  <1>3. ASSUME NEW o, Finish(self, o), UNCHANGED ghosts PROVE NoFault'
    BY <1>3, FinishSelf DEF ghosts
  <1>4. CASE CreateScript(self)
    <2>1. UNCHANGED <<unlisted, undeleted, stale, undisturbed>> /\ pc[self] # "idle"
      BY <1>4, FaultAssumption DEF CreateScript, Fault
    <2> QED
      BY <2>1
  <1>5. CASE \/ WriteScript(self) \/ Check(self) \/ BackupRuleset(self) \/ Load(self)
             \/ SaveRollback(self) \/ Restore(self)
    <2>1. pc[self] # "idle" /\ UNCHANGED ghosts
      BY <1>5 DEF WriteScript, Check, BackupRuleset, Load, SaveRollback, Restore
    <2> QED
      BY <2>1 DEF ghosts
  <1>6. CASE ListTable(self)
    <2>1. pc[self] # "idle" /\ UNCHANGED <<unlisted, undeleted, stale, undisturbed>>
      BY <1>6, FaultAssumption DEF ListTable, Fault
    <2> QED
      BY <2>1
  <1>7. CASE DeleteTable(self)
    <2>1. pc[self] # "idle" /\ UNCHANGED <<unlisted, undeleted, stale, undisturbed>>
      BY <1>7, FaultAssumption DEF DeleteTable, Fault
    <2> QED
      BY <2>1
  <1>8. ~Kill(self)
    BY FaultAssumption DEF Kill, Fault
  <1> QED
    BY <1>1, <1>2, <1>4, <1>5, <1>6, <1>7, <1>8 DEF Next, Apply

LEMMA SoloInvariant == Spec => []SoloInv
  <1>1. Init => SoloInv
    BY InvInit, NoFaultInit DEF SoloInv
  <1>2. SoloInv /\ [Next]_vars => SoloInv'
    BY InvStep, NoFaultStep DEF SoloInv, IInv
  <1> QED
    BY <1>1, <1>2, PTL DEF Spec
-----------------------------------------------------------------------------
(* The step simulation.                                                    *)

\* A step inside a run shows nothing.
LEMMA InsideRun ==
    ASSUME TypeOK, NEW s, Continue(self, s), s # "idle", pc[self] # "idle",
           UNCHANGED gen, Shown' = Shown
    PROVE  UNCHANGED Promise!promise
  BY SoloAssumption, ContinueSelf DEF Promise!promise, Attempt, Result

\* A run that fails shows the ruleset it began with.
LEMMA FailedRun ==
    ASSUME TypeOK, gen[self] \in Gens, pc[self] # "idle", NEW o, Finish(self, o),
           o \notin {"none", "ok"}, Shown' = Shown
    PROVE  Promise!Fail
  BY SoloAssumption, SafeApplyAssumption, FinishSelf DEF Promise!Fail, Attempt, Result

LEMMA StepSimulation == SoloInv /\ SoloInv' /\ [Next]_vars => [Promise!Next]_(Promise!promise)
  <1> SUFFICES ASSUME SoloInv, SoloInv', [Next]_vars
               PROVE  Promise!Next \/ UNCHANGED Promise!promise
    BY DEF Promise!promise
  <1> USE SoloAssumption
  <1>0. TypeOK /\ TypeOK' /\ NoFault
    BY DEF SoloInv, IInv
  <1>1. CASE UNCHANGED vars
    BY <1>1 DEF vars, Promise!promise, Shown, Attempt, Result
  <1>2. ASSUME NEW g \in Gens, Begin(self, g) PROVE Promise!Next
    <2>1. pc[self] = "idle" /\ pc'[self] = "create" /\ outcome'[self] = "none"
          /\ gen'[self] = g /\ kernel' = kernel
      BY <1>0, <1>2 DEF Begin, Goto, TypeOK
    <2>2. Promise!Start(g)
      BY <2>1 DEF Promise!Start, Shown, Attempt, Result
    <2> QED
      BY <2>2 DEF Promise!Next
  <1>3. ASSUME pc[self] # "idle"
        PROVE  gen[self] \in Gens /\ RunInv(self) /\ self \in undisturbed
    BY <1>3 DEF SoloInv, NoFault, IInv, Undisturbed
  <1>4. CASE CreateScript(self) \/ WriteScript(self) \/ BackupRuleset(self)
    <2>1. pc[self] \in LoopSteps /\ UNCHANGED <<kernel, gen>>
      BY <1>4 DEF CreateScript, WriteScript, BackupRuleset, LoopSteps
    <2>2. CASE Finish(self, "kept")
      BY <1>0, <1>3, <2>1, <2>2, FailedRun, FinishSelf DEF Shown, LoopSteps, Promise!Next
    <2>3. ASSUME NEW s \in {"write", "check", "list"}, Continue(self, s)
          PROVE  UNCHANGED Promise!promise
      BY <1>0, <2>1, <2>3, InsideRun, ContinueSelf DEF Shown, LoopSteps
    <2> QED
      BY <1>4, <2>2, <2>3 DEF CreateScript, WriteScript, BackupRuleset
  <1>5. CASE Check(self)
    <2>1. pc[self] = "check" /\ UNCHANGED <<kernel, gen>>
      BY <1>5 DEF Check
    <2>2. CASE Finish(self, "kept")
      BY <1>0, <1>3, <2>1, <2>2, FailedRun, FinishSelf DEF Shown, Promise!Next
    <2>3. CASE Goto(self, "backup") /\ UNCHANGED outcome
      BY <1>0, <2>1, <2>3 DEF Goto, TypeOK, Promise!promise, Shown, Attempt, Result
    <2> QED
      BY <1>5, <2>2, <2>3 DEF Check
  <1>6. CASE ListTable(self)
    <2>1. pc[self] = "list" /\ pc'[self] \in {"list", "load"} /\ UNCHANGED <<kernel, gen, outcome>>
      BY <1>0, <1>6 DEF ListTable, Goto, TypeOK
    <2> QED
      BY <2>1 DEF Promise!promise, Shown, Attempt, Result
  <1>7. CASE Load(self)
    <2>1. /\ pc[self] = "load" /\ kernel = pre[self] /\ gen[self] \in Gens /\ script = gen[self]
          /\ UNCHANGED <<gen, pre>>
      BY <1>0, <1>3, <1>7
      DEF Load, ghosts, RunInv, KernelKept, FileOwned, NoFault, LoopSteps
    <2>2. CASE kernel' = Loaded(script) /\ Finish(self, "ok")
      <3>1. kernel' = [t \in Tables |-> Block(gen[self])]
        BY <2>1, <2>2, SafeApplyAssumption DEF Loaded
      <3>2. pc'[self] = "idle" /\ outcome'[self] = "ok"
        BY <1>0, <2>2, FinishSelf
      <3>3. Promise!Succeed
        BY <2>1, <3>1, <3>2, SafeApplyAssumption
        DEF Promise!Succeed, Shown, Attempt, Result, Image
      <3> QED
        BY <3>3 DEF Promise!Next
    <2>3. CASE Goto(self, "delete") /\ UNCHANGED <<kernel, outcome>>
      BY <1>0, <2>1, <2>3 DEF Goto, TypeOK, Promise!promise, Shown, Attempt, Result
    <2>4. CASE Finish(self, "kept") /\ UNCHANGED kernel
      BY <1>0, <2>1, <2>4, FailedRun, FinishSelf DEF Shown, Promise!Next
    <2> QED
      BY <1>7, <2>2, <2>3, <2>4 DEF Load
  <1>8. CASE DeleteTable(self) \/ SaveRollback(self) \/ Restore(self)
    <2>1. pc[self] \in RollbackSteps /\ UNCHANGED <<gen, pre, unlisted, undisturbed>>
      BY <1>8 DEF DeleteTable, SaveRollback, Restore, RollbackSteps, ghosts
    <2>2. CASE Finish(self, "rolledBack")
      <3>1. pc'[self] = "idle" /\ outcome'[self] = "rolledBack"
        BY <1>0, <2>2, FinishSelf
      <3>2. \A t \in Tables : kernel'[t] = pre'[self][t]
        <4>1. self \in undisturbed' /\ LeavesBehind(self)'
          BY <1>3, <2>1 DEF SoloInv, IInv, RunInv, RollbackSteps
        <4>2. unlisted'[self] = {} /\ undeleted'[self] = {}
          BY DEF SoloInv, NoFault
        <4> QED
          BY <3>1, <4>1, <4>2 DEF LeavesBehind
      <3>3. kernel' = pre'[self]
        BY <1>0, <3>2 DEF TypeOK
      <3> QED
        BY <1>0, <1>3, <2>1, <2>2, <3>1, <3>3, FailedRun
        DEF Shown, RollbackSteps, Promise!Next
    <2>3. ASSUME NEW s \in {"save", "restore"}, Continue(self, s)
          PROVE  UNCHANGED Promise!promise
      BY <1>0, <2>1, <2>3, InsideRun, ContinueSelf DEF Shown, RollbackSteps
    <2>4. CASE UNCHANGED <<pc, outcome>>
      BY <2>1, <2>4 DEF Promise!promise, Shown, Attempt, Result, RollbackSteps
    <2> QED
      BY <1>8, <2>2, <2>3, <2>4, FaultAssumption
      DEF DeleteTable, SaveRollback, Restore, Fault
  <1>9. ~Kill(self)
    BY FaultAssumption DEF Kill, Fault
  <1> QED
    BY <1>1, <1>2, <1>4, <1>5, <1>6, <1>7, <1>8, <1>9 DEF Next, Apply, Promise!Next

\* The pipeline implements the promise: seen through Shown, Attempt and Result
\* every run of the one process commits its whole text or leaves the ruleset as
\* it was, when nothing is refused or fails but the script (`nft -c`, `nft -f`),
\* the disk before the kernel is touched, and the creation in refresh_once.
THEOREM Refinement == Spec => KeepsPromise
  <1>1. Init => Promise!Init
    BY SoloAssumption, SafeApplyAssumption
    DEF Init, Promise!Init, Shown, Attempt, Result, NoBackups
  <1> QED
    BY <1>1, StepSimulation, SoloInvariant, PTL DEF Spec, KeepsPromise, Promise!Spec
=============================================================================
