--------------------------- MODULE SafeApply_proofs ---------------------------
(***************************************************************************)
(* Proofs about SafeApply, for any processes, generations, number of       *)
(* managed tables and faults.                                              *)
(***************************************************************************)
EXTENDS SafeApply, TLAPS

LoopSteps     == {"create", "write", "check", "backup", "list", "load"}
RollbackSteps == {"delete", "save", "restore"}

\* What the loop over MANAGED_TABLES leaves as table t's dump.
Dumped(p, t) == IF t \in unlisted[p] THEN Absent ELSE pre[p][t]

\* No other process is at work beside an undisturbed run.
Undisturbed ==
    \A p \in undisturbed : gen[p] \in Gens /\ \A q \in Procs \ {p} : pc[q] = "idle"

\* Until the dumps are made a process holds none, at the start of the loop.
LocalsFresh ==
    \A p \in Procs : pc[p] \in {"idle", "create", "write", "check", "backup"} =>
        idx[p] = 1 /\ backups[p] = NoBackups

\* Up to nft -f the kernel is as the run found it.
KernelKept(p) == pc[p] \in LoopSteps => kernel = pre[p]

\* The shared file holds the run's text, and the text nft -c accepted.
FileOwned(p) ==
    /\ pc[p] \in {"create", "write"} => p \notin stale
    /\ pc[p] = "write" => script = Empty
    /\ pc[p] \in {"check", "backup", "list", "load"} /\ p \notin stale => script = gen[p]
    /\ pc[p] \in {"backup", "list", "load"} => script = checked[p]

\* The dumps are complete for the tables the loop has passed.
DumpsMade(p) ==
    /\ pc[p] \in {"create", "write", "check", "backup"} => unlisted[p] = {}
    /\ pc[p] = "list" =>
          /\ \A t \in unlisted[p] : t < idx[p]
          /\ \A t \in Tables : backups[p][t] = IF t < idx[p] THEN Dumped(p, t) ELSE Absent
    /\ pc[p] \in {"load"} \cup RollbackSteps =>
          \A t \in Tables : backups[p][t] = Dumped(p, t)

\* The delete loop has emptied the tables it has passed, but for its failures.
Deleted(p) ==
    /\ pc[p] \in LoopSteps => undeleted[p] = {}
    /\ pc[p] = "delete" =>
          /\ \A t \in undeleted[p] : t < idx[p]
          /\ \A t \in Tables : kernel[t] = IF t < idx[p] /\ t \notin undeleted[p]
                                           THEN Absent ELSE pre[p][t]
    /\ pc[p] \in {"save", "restore"} =>
          \A t \in Tables : kernel[t] = IF t \in undeleted[p] THEN pre[p][t] ELSE Absent

\* A run at work has no outcome yet.
NoOutcomeYet(p) == pc[p] # "idle" => outcome[p] = "none"

\* The kernel a finished run leaves, by its outcome.
LeavesBehind(p) ==
    /\ outcome[p] = "kept" => kernel = pre[p]
    /\ outcome[p] = "ok" /\ p \notin stale => \A t \in Tables : kernel[t] = Block(gen[p])
    /\ outcome[p] = "ok" => \A t \in Tables : kernel[t] = pre[p][t] \/ kernel[t] # Absent
    /\ outcome[p] = "rolledBack" =>
          /\ \A t \in Tables \ (unlisted[p] \cup undeleted[p]) : kernel[t] = pre[p][t]
          /\ \A t \in Tables \ unlisted[p] : pre[p][t] # Absent => kernel[t] # Absent

RunInv(p) ==
    /\ KernelKept(p) /\ FileOwned(p) /\ DumpsMade(p) /\ Deleted(p)
    /\ NoOutcomeYet(p) /\ LeavesBehind(p)

IInv == TypeOK /\ Undisturbed /\ LocalsFresh /\ \A p \in undisturbed : RunInv(p)
-----------------------------------------------------------------------------
(* What nft -f makes of a table.                                           *)

\* A generated script leaves a table that exists, with one copy of its block.
LEMMA BlockType ==
    ASSUME NEW s \in Blocks
    PROVE  Block(s) \in Contents /\ Block(s) # Absent
  BY AbsentAssumption DEF Block, Contents, Copies

\* A dump of a table that existed leaves a table that exists.
LEMMA AppendedType ==
    ASSUME NEW c \in Contents, NEW d \in Copies
    PROVE  Appended(c, d) \in Copies
  BY AbsentAssumption DEF Appended, Contents, Copies

\* nft -f of the shared file keeps the kernel well formed.
LEMMA LoadedType ==
    ASSUME NEW s \in Gens \cup {Empty, Torn}, kernel \in [Tables -> Contents]
    PROVE  Loaded(s) \in [Tables -> Contents]
  BY BlockType DEF Loaded, Blocks

\* A run that returns keeps its local variables well formed.
LEMMA FinishType ==
    ASSUME TypeOK, NEW p \in Procs, NEW o \in Outcomes, Finish(p, o)
    PROVE  /\ pc' \in [Procs -> Steps] /\ outcome' \in [Procs -> Outcomes]
           /\ idx' \in [Procs -> Tables]
           /\ backups' \in [Procs -> [Tables -> Contents]]
           /\ checked' \in [Procs -> Gens \cup {Empty, Torn}]
  <1>1. 1 \in Tables
    BY SafeApplyAssumption DEF Tables
  <1>2. NoBackups \in [Tables -> Contents]
    BY DEF NoBackups, Contents
  <1> QED
    BY <1>1, <1>2 DEF TypeOK, Finish, Goto, Steps
-----------------------------------------------------------------------------
(* Type correctness.                                                       *)

\* A step of any process keeps every variable in its type.
LEMMA TypeStep ==
    ASSUME TypeOK, [Next]_vars
    PROVE  TypeOK'
  <1> USE DEF TypeOK
  <1>1. ASSUME NEW p \in Procs, NEW g \in Gens, Begin(p, g) PROVE TypeOK'
    BY <1>1 DEF Begin, Goto, Steps, Outcomes
  <1>2. ASSUME NEW p \in Procs, CreateScript(p) PROVE TypeOK'
    BY <1>2, FinishType DEF CreateScript, Continue, Goto, Steps, Outcomes
  <1>3. ASSUME NEW p \in Procs, WriteScript(p) PROVE TypeOK'
    BY <1>3, FinishType DEF WriteScript, Continue, Goto, Steps, Outcomes, ghosts
  <1>4. ASSUME NEW p \in Procs, Check(p) PROVE TypeOK'
    BY <1>4, FinishType DEF Check, Goto, Steps, Outcomes, ghosts
  <1>5. ASSUME NEW p \in Procs, BackupRuleset(p) PROVE TypeOK'
    BY <1>5, FinishType DEF BackupRuleset, Continue, Goto, Steps, Outcomes, ghosts
  <1>6. ASSUME NEW p \in Procs, ListTable(p) PROVE TypeOK'
    <2>1. idx[p] # NTables => idx[p] + 1 \in Tables
      BY SafeApplyAssumption DEF Tables
    <2>2. backups' \in [Procs -> [Tables -> Contents]]
      <3>1. idx[p] \in Tables /\ kernel[idx[p]] \in Contents
        OBVIOUS
      <3>2. [backups[p] EXCEPT ![idx[p]] = kernel[idx[p]]] \in [Tables -> Contents]
        BY <3>1
      <3>3. CASE backups' = [backups EXCEPT ![p][idx[p]] = kernel[idx[p]]]
        BY <3>2, <3>3
      <3>4. CASE UNCHANGED backups
        BY <3>4
      <3> QED
        BY <1>6, <3>3, <3>4 DEF ListTable
    <2>3. unlisted' \in [Procs -> SUBSET Tables]
      BY <1>6 DEF ListTable
    <2>4. idx' \in [Procs -> Tables] /\ pc' \in [Procs -> Steps]
      <3>1. \/ Goto(p, "load") /\ UNCHANGED idx
            \/ idx[p] # NTables /\ idx' = [idx EXCEPT ![p] = idx[p] + 1] /\ UNCHANGED pc
        BY <1>6 DEF ListTable
      <3> QED
        BY <2>1, <3>1 DEF Goto, Steps
    <2> QED
      BY <1>6, <2>2, <2>3, <2>4 DEF ListTable
  <1>7. ASSUME NEW p \in Procs, Load(p) PROVE TypeOK'
    <2>1. 1 \in Tables /\ Loaded(script) \in [Tables -> Contents]
      BY LoadedType, SafeApplyAssumption DEF Tables
    <2> QED
      BY <1>7, <2>1, FinishType DEF Load, Goto, Steps, Outcomes, ghosts
  <1>8. ASSUME NEW p \in Procs, DeleteTable(p) PROVE TypeOK'
    <2>1. idx[p] < NTables => idx[p] + 1 \in Tables
      BY SafeApplyAssumption DEF Tables
    <2>2. Absent \in Contents
      BY DEF Contents
    <2>3. kernel' \in [Tables -> Contents]
      <3>1. kernel' = [kernel EXCEPT ![idx[p]] = Absent] \/ UNCHANGED kernel
        BY <1>8 DEF DeleteTable
      <3> QED
        BY <3>1, <2>2
    <2>4. undeleted' \in [Procs -> SUBSET Tables]
      <3>1. \/ undeleted' = [undeleted EXCEPT ![p] = @ \cup {idx[p]}]
            \/ UNCHANGED undeleted
        BY <1>8 DEF DeleteTable
      <3>2. idx[p] \in Tables
        OBVIOUS
      <3> QED
        BY <3>1, <3>2
    <2>5. CASE idx[p] < NTables
      <3>1. /\ idx' = [idx EXCEPT ![p] = idx[p] + 1]
            /\ UNCHANGED <<pc, outcome, backups, checked>>
            /\ UNCHANGED <<script, gen, pre, unlisted, stale, undisturbed>>
        BY <1>8, <2>5 DEF DeleteTable
      <3> QED
        BY <3>1, <2>1, <2>3, <2>4, <2>5
    <2>6. CASE idx[p] >= NTables /\ backups[p] = NoBackups
      <3>1. Finish(p, "rolledBack")
        BY <1>8, <2>6, SafeApplyAssumption DEF DeleteTable, Tables
      <3> QED
        BY <1>8, <3>1, <2>3, <2>4, FinishType DEF DeleteTable, Outcomes
    <2>7. CASE idx[p] >= NTables /\ backups[p] # NoBackups
      <3>1. Continue(p, "save")
        BY <1>8, <2>7, SafeApplyAssumption DEF DeleteTable, Tables
      <3> QED
        BY <1>8, <3>1, <2>3, <2>4 DEF DeleteTable, Continue, Goto, Steps
    <2> QED
      BY <2>5, <2>6, <2>7, SafeApplyAssumption DEF Tables
  <1>9. ASSUME NEW p \in Procs, SaveRollback(p) PROVE TypeOK'
    BY <1>9, FinishType DEF SaveRollback, Continue, Goto, Steps, Outcomes, ghosts
  <1>10. ASSUME NEW p \in Procs, Restore(p) PROVE TypeOK'
    <2>1. ASSUME NEW t \in Tables, backups[p][t] # Absent
          PROVE  Appended(kernel[t], backups[p][t]) \in Contents
      <3>1. kernel[t] \in Contents /\ backups[p][t] \in Contents
        OBVIOUS
      <3>2. backups[p][t] \in Copies
        BY <2>1, <3>1 DEF Contents
      <3>3. Appended(kernel[t], backups[p][t]) \in Copies
        BY <3>1, <3>2, AppendedType
      <3> QED
        BY <3>3 DEF Contents
    <2> QED
      BY <1>10, <2>1, FinishType DEF Restore, Goto, Steps, Outcomes, ghosts
  <1>11. ASSUME NEW p \in Procs, Kill(p) PROVE TypeOK'
    BY <1>11, FinishType DEF Kill, Outcomes, ghosts
  <1>12. CASE UNCHANGED vars
    BY <1>12 DEF vars
  <1> QED
    BY <1>1, <1>2, <1>3, <1>4, <1>5, <1>6, <1>7, <1>8, <1>9, <1>10, <1>11, <1>12
    DEF Next, Apply

\* Every variable keeps its type: no step of any process leaves the range of
\* the loop index, the copies a table can hold, or the known outcomes.
THEOREM TypeCorrect == Spec => []TypeOK
  <1>1. Init => TypeOK
    BY SafeApplyAssumption
    DEF Init, TypeOK, NoBackups, Contents, Steps, Outcomes, Tables
  <1>2. TypeOK /\ [Next]_vars => TypeOK'
    BY TypeStep
  <1>3. QED
    BY <1>1, <1>2, PTL DEF Spec
-----------------------------------------------------------------------------
(* The inductive invariant.                                                *)

\* A run that has returned has nothing to keep but what it left behind.
LEMMA Returned ==
    ASSUME NEW p, pc'[p] = "idle", LeavesBehind(p)'
    PROVE  RunInv(p)'
  BY DEF RunInv, KernelKept, FileOwned, DumpsMade, Deleted, NoOutcomeYet,
         LoopSteps, RollbackSteps

\* A run at work has left nothing behind yet.
LEMMA AtWork ==
    ASSUME NEW p, outcome'[p] = "none",
           KernelKept(p)', FileOwned(p)', DumpsMade(p)', Deleted(p)'
    PROVE  RunInv(p)'
  BY DEF RunInv, NoOutcomeYet, LeavesBehind

\* Finish and Continue, seen by the process itself.
LEMMA FinishSelf ==
    ASSUME TypeOK, NEW p \in Procs, NEW o, Finish(p, o)
    PROVE  pc'[p] = "idle" /\ outcome'[p] = o
  BY DEF TypeOK, Finish, Goto

LEMMA ContinueSelf ==
    ASSUME TypeOK, NEW p \in Procs, NEW s, Continue(p, s)
    PROVE  pc'[p] = s /\ outcome' = outcome /\ idx' = idx
           /\ backups' = backups /\ checked' = checked
  BY DEF TypeOK, Continue, Goto

\* No step of a process but Begin disturbs, or is seen by, an undisturbed run
\* of another process: there is no such run.
LEMMA OnlySelf ==
    ASSUME Undisturbed, NEW p \in Procs, pc[p] # "idle"
    PROVE  undisturbed \subseteq {p}
  BY DEF Undisturbed

\* Fresh locals stay fresh: only the dump loop and the rollback touch them.
LEMMA FreshStep ==
    ASSUME TypeOK, LocalsFresh, [Next]_vars
    PROVE  LocalsFresh'
  <1> USE DEF TypeOK, LocalsFresh
  <1>1. ASSUME NEW p \in Procs, NEW g \in Gens, Begin(p, g) PROVE LocalsFresh'
    BY <1>1 DEF Begin, Goto
  <1>2. ASSUME NEW p \in Procs, NEW o, Finish(p, o) PROVE LocalsFresh'
    BY <1>2 DEF Finish, Goto
  <1>3. ASSUME NEW p \in Procs, NEW s, Continue(p, s),
               pc[p] \in {"create", "write", "check", "backup"} \/ s \in RollbackSteps
        PROVE  LocalsFresh'
    BY <1>3 DEF Continue, Goto, RollbackSteps
  <1>4. ASSUME NEW p \in Procs, CreateScript(p) PROVE LocalsFresh'
    BY <1>4, <1>2, <1>3 DEF CreateScript
  <1>5. ASSUME NEW p \in Procs, WriteScript(p) PROVE LocalsFresh'
    BY <1>5, <1>2, <1>3 DEF WriteScript
  <1>6. ASSUME NEW p \in Procs, Check(p) PROVE LocalsFresh'
    BY <1>6, <1>2 DEF Check, Goto
  <1>7. ASSUME NEW p \in Procs, BackupRuleset(p) PROVE LocalsFresh'
    BY <1>7, <1>2, <1>3 DEF BackupRuleset
  <1>8. ASSUME NEW p \in Procs, ListTable(p) PROVE LocalsFresh'
    <2>1. pc[p] = "list" /\ pc'[p] \in {"list", "load"}
      BY <1>8 DEF ListTable, Goto
    <2>2. \A q \in Procs \ {p} : pc'[q] = pc[q] /\ idx'[q] = idx[q] /\ backups'[q] = backups[q]
      BY <1>8 DEF ListTable, Goto
    <2> QED
      BY <2>1, <2>2
  <1>9. ASSUME NEW p \in Procs, Load(p) PROVE LocalsFresh'
    BY <1>9, <1>2 DEF Load, Goto
  <1>10. ASSUME NEW p \in Procs, DeleteTable(p) PROVE LocalsFresh'
    <2>1. CASE idx[p] < NTables
      <3>1. /\ pc[p] = "delete" /\ UNCHANGED <<pc, backups>>
            /\ idx' = [idx EXCEPT ![p] = idx[p] + 1]
        BY <1>10, <2>1 DEF DeleteTable
      <3> QED
        BY <3>1
    <2>2. CASE ~(idx[p] < NTables)
      BY <1>10, <1>2, <1>3, <2>2 DEF DeleteTable, RollbackSteps
    <2> QED
      BY <2>1, <2>2
  <1>11. ASSUME NEW p \in Procs, SaveRollback(p) PROVE LocalsFresh'
    BY <1>11, <1>2, <1>3 DEF SaveRollback, RollbackSteps
  <1>12. ASSUME NEW p \in Procs, Restore(p) PROVE LocalsFresh'
    BY <1>12, <1>2 DEF Restore
  <1>13. ASSUME NEW p \in Procs, Kill(p) PROVE LocalsFresh'
    BY <1>13, <1>2 DEF Kill
  <1>14. CASE UNCHANGED vars
    BY <1>14 DEF vars
  <1> QED
    BY <1>1, <1>4, <1>5, <1>6, <1>7, <1>8, <1>9, <1>10, <1>11, <1>12, <1>13, <1>14
    DEF Next, Apply
-----------------------------------------------------------------------------
(* Each step of an undisturbed run keeps its part of the invariant.        *)

LEMMA BeginRun ==
    ASSUME TypeOK, LocalsFresh, NEW p \in Procs, NEW g \in Gens, Begin(p, g)
    PROVE  RunInv(p)'
  <1> USE DEF TypeOK
  <1>1. /\ pc'[p] = "create" /\ outcome'[p] = "none" /\ pre'[p] = kernel /\ kernel' = kernel
        /\ unlisted'[p] = {} /\ undeleted'[p] = {} /\ p \notin stale'
    BY DEF Begin, Goto
  <1>2. KernelKept(p)' /\ FileOwned(p)' /\ DumpsMade(p)' /\ Deleted(p)'
    BY <1>1 DEF KernelKept, FileOwned, DumpsMade, Deleted, LoopSteps, RollbackSteps
  <1> QED
    BY <1>1, <1>2, AtWork

LEMMA CreateRun ==
    ASSUME TypeOK, NEW p \in Procs, RunInv(p), CreateScript(p)
    PROVE  RunInv(p)'
  <1>1. /\ outcome[p] = "none" /\ kernel = pre[p] /\ unlisted[p] = {} /\ undeleted[p] = {}
        /\ p \notin stale /\ pc[p] = "create"
    BY DEF CreateScript, RunInv, KernelKept, FileOwned, DumpsMade, Deleted, NoOutcomeYet,
           LoopSteps
  <1>2. UNCHANGED <<kernel, gen, pre, unlisted, undeleted, undisturbed>>
    BY DEF CreateScript
  <1>3. CASE script' = Empty /\ Continue(p, "write") /\ UNCHANGED stale
    <2>1. pc'[p] = "write" /\ outcome'[p] = "none"
      BY <1>1, <1>3, ContinueSelf
    <2>2. KernelKept(p)' /\ FileOwned(p)' /\ DumpsMade(p)' /\ Deleted(p)'
      BY <1>1, <1>2, <1>3, <2>1
      DEF KernelKept, FileOwned, DumpsMade, Deleted, LoopSteps, RollbackSteps
    <2> QED
      BY <2>1, <2>2, AtWork
  <1>4. CASE Continue(p, "check") /\ stale' = stale \cup {p}
    <2>1. pc'[p] = "check" /\ outcome'[p] = "none"
      BY <1>1, <1>4, ContinueSelf
    <2>2. KernelKept(p)' /\ FileOwned(p)' /\ DumpsMade(p)' /\ Deleted(p)'
      BY <1>1, <1>2, <1>4, <2>1
      DEF KernelKept, FileOwned, DumpsMade, Deleted, LoopSteps, RollbackSteps
    <2> QED
      BY <2>1, <2>2, AtWork
  <1>5. CASE Finish(p, "kept")
    <2>1. pc'[p] = "idle" /\ outcome'[p] = "kept"
      BY <1>5, FinishSelf
    <2> QED
      BY <1>1, <1>2, <2>1, Returned DEF LeavesBehind
  <1> QED
    BY <1>3, <1>4, <1>5 DEF CreateScript

LEMMA WriteRun ==
    ASSUME TypeOK, NEW p \in Procs, RunInv(p), WriteScript(p)
    PROVE  RunInv(p)'
  <1>1. /\ outcome[p] = "none" /\ kernel = pre[p] /\ unlisted[p] = {} /\ undeleted[p] = {}
        /\ script = Empty /\ pc[p] = "write"
    BY DEF WriteScript, RunInv, KernelKept, FileOwned, DumpsMade, Deleted, NoOutcomeYet,
           LoopSteps
  <1>2. UNCHANGED <<kernel, gen, pre, unlisted, undeleted, stale>>
    BY DEF WriteScript, ghosts
  <1>3. CASE script' = gen[p] /\ Continue(p, "check")
    <2>1. pc'[p] = "check" /\ outcome'[p] = "none"
      BY <1>1, <1>3, ContinueSelf
    <2>2. KernelKept(p)' /\ FileOwned(p)' /\ DumpsMade(p)' /\ Deleted(p)'
      BY <1>1, <1>2, <1>3, <2>1
      DEF KernelKept, FileOwned, DumpsMade, Deleted, LoopSteps, RollbackSteps
    <2> QED
      BY <2>1, <2>2, AtWork
  <1>4. CASE Finish(p, "kept")
    <2>1. pc'[p] = "idle" /\ outcome'[p] = "kept"
      BY <1>4, FinishSelf
    <2> QED
      BY <1>1, <1>2, <2>1, Returned DEF LeavesBehind
  <1> QED
    BY <1>1, <1>3, <1>4 DEF WriteScript

LEMMA CheckRun ==
    ASSUME TypeOK, NEW p \in Procs, RunInv(p), Check(p)
    PROVE  RunInv(p)'
  <1>1. /\ outcome[p] = "none" /\ kernel = pre[p] /\ unlisted[p] = {} /\ undeleted[p] = {}
        /\ p \notin stale => script = gen[p]
    BY DEF Check, RunInv, KernelKept, FileOwned, DumpsMade, Deleted, NoOutcomeYet, LoopSteps
  <1>2. UNCHANGED <<kernel, script, gen, pre, unlisted, undeleted, stale>>
    BY DEF Check, ghosts
  <1>3. CASE checked' = [checked EXCEPT ![p] = script] /\ Goto(p, "backup")
             /\ UNCHANGED outcome
    <2>1. pc'[p] = "backup" /\ outcome'[p] = "none" /\ checked'[p] = script
      BY <1>1, <1>3 DEF TypeOK, Goto
    <2>2. KernelKept(p)' /\ FileOwned(p)' /\ DumpsMade(p)' /\ Deleted(p)'
      BY <1>1, <1>2, <2>1
      DEF KernelKept, FileOwned, DumpsMade, Deleted, LoopSteps, RollbackSteps
    <2> QED
      BY <2>1, <2>2, AtWork
  <1>4. CASE Finish(p, "kept")
    <2>1. pc'[p] = "idle" /\ outcome'[p] = "kept"
      BY <1>4, FinishSelf
    <2> QED
      BY <1>1, <1>2, <2>1, Returned DEF LeavesBehind
  <1> QED
    BY <1>3, <1>4 DEF Check

LEMMA BackupRun ==
    ASSUME TypeOK, LocalsFresh, NEW p \in Procs, RunInv(p), BackupRuleset(p)
    PROVE  RunInv(p)'
  <1>1. /\ outcome[p] = "none" /\ kernel = pre[p] /\ unlisted[p] = {} /\ undeleted[p] = {}
        /\ p \notin stale => script = gen[p]
        /\ script = checked[p] /\ idx[p] = 1 /\ backups[p] = NoBackups
    BY DEF BackupRuleset, RunInv, KernelKept, FileOwned, DumpsMade, Deleted, NoOutcomeYet,
           LoopSteps, LocalsFresh
  <1>2. UNCHANGED <<kernel, script, gen, pre, unlisted, undeleted, stale>>
    BY DEF BackupRuleset, ghosts
  <1>3. CASE Continue(p, "list")
    <2>1. pc'[p] = "list" /\ outcome'[p] = "none" /\ UNCHANGED <<idx, backups, checked>>
      BY <1>1, <1>3, ContinueSelf
    <2>2. KernelKept(p)' /\ FileOwned(p)' /\ Deleted(p)'
      BY <1>1, <1>2, <2>1 DEF KernelKept, FileOwned, Deleted, LoopSteps
    <2>3. DumpsMade(p)'
      <3>1. \A t \in Tables : ~(t < 1) /\ backups'[p][t] = Absent
        <4>1. backups'[p] = [t \in Tables |-> Absent]
          BY <1>1, <2>1 DEF NoBackups
        <4> QED
          BY <4>1 DEF Tables
      <3>2. unlisted'[p] = {} /\ idx'[p] = 1
        BY <1>1, <1>2, <2>1
      <3> QED
        BY <2>1, <3>1, <3>2 DEF DumpsMade, RollbackSteps
    <2> QED
      BY <2>1, <2>2, <2>3, AtWork
  <1>4. CASE Finish(p, "kept")
    <2>1. pc'[p] = "idle" /\ outcome'[p] = "kept"
      BY <1>4, FinishSelf
    <2> QED
      BY <1>1, <1>2, <2>1, Returned DEF LeavesBehind
  <1> QED
    BY <1>3, <1>4 DEF BackupRuleset

LEMMA ListRun ==
    ASSUME TypeOK, NEW p \in Procs, RunInv(p), ListTable(p)
    PROVE  RunInv(p)'
  <1> DEFINE i == idx[p]
  <1> USE DEF TypeOK
  <1>0. /\ pc[p] = "list" /\ outcome[p] = "none" /\ kernel = pre[p] /\ undeleted[p] = {}
        /\ p \notin stale => script = gen[p]
        /\ script = checked[p] /\ i \in Tables
    BY DEF ListTable, RunInv, KernelKept, FileOwned, Deleted, NoOutcomeYet, LoopSteps
  <1>1. /\ \A t \in unlisted[p] : t < i
        /\ \A t \in Tables : backups[p][t] = IF t < i THEN Dumped(p, t) ELSE Absent
    BY <1>0 DEF RunInv, DumpsMade
  <1>2. UNCHANGED <<kernel, script, gen, checked, outcome, pre, undeleted, stale>>
    BY DEF ListTable
  <1>3. \/ i = NTables /\ pc'[p] = "load"
        \/ i # NTables /\ pc'[p] = "list" /\ idx'[p] = i + 1
    BY <1>0 DEF ListTable, Goto
  <1>4. KernelKept(p)' /\ FileOwned(p)' /\ Deleted(p)'
    BY <1>0, <1>2, <1>3 DEF KernelKept, FileOwned, Deleted, LoopSteps
  <1>5. /\ \A t \in unlisted'[p] : t < i + 1
        /\ \A t \in Tables : backups'[p][t] = IF t < i + 1 THEN Dumped(p, t)' ELSE Absent
    <2>1. CASE /\ backups' = [backups EXCEPT ![p][i] = kernel[i]]
               /\ UNCHANGED unlisted
      <3>1. \A t \in Tables : backups'[p][t] = IF t = i THEN pre[p][i] ELSE backups[p][t]
        BY <2>1, <1>0
      <3>2. i \notin unlisted[p]
        BY <1>0, <1>1 DEF Tables
      <3> QED
        BY <1>0, <1>1, <1>2, <2>1, <3>1, <3>2 DEF Dumped, Tables
    <2>2. CASE /\ unlisted' = [unlisted EXCEPT ![p] = @ \cup {i}]
               /\ UNCHANGED backups
      <3>1. unlisted'[p] = unlisted[p] \cup {i}
        BY <2>2
      <3> QED
        BY <1>0, <1>1, <1>2, <2>2, <3>1 DEF Dumped, Tables
    <2> QED
      BY <2>1, <2>2 DEF ListTable
  <1>6. DumpsMade(p)'
    <2>1. CASE i = NTables /\ pc'[p] = "load"
      <3>1. \A t \in Tables : t < i + 1
        BY <2>1, SafeApplyAssumption DEF Tables
      <3> QED
        BY <2>1, <3>1, <1>5 DEF DumpsMade, RollbackSteps
    <2>2. CASE pc'[p] = "list" /\ idx'[p] = i + 1
      BY <2>2, <1>5 DEF DumpsMade, RollbackSteps
    <2> QED
      BY <2>1, <2>2, <1>3
  <1> QED
    BY <1>0, <1>2, <1>4, <1>6, AtWork

LEMMA LoadRun ==
    ASSUME TypeOK, NEW p \in Procs, RunInv(p), gen[p] \in Gens, Load(p)
    PROVE  RunInv(p)'
  <1> USE DEF TypeOK
  <1>1. /\ pc[p] = "load" /\ outcome[p] = "none" /\ kernel = pre[p] /\ undeleted[p] = {}
        /\ p \notin stale => script = gen[p]
        /\ \A t \in Tables : backups[p][t] = Dumped(p, t)
    BY DEF Load, RunInv, KernelKept, FileOwned, DumpsMade, Deleted, NoOutcomeYet,
           LoopSteps
  <1>2. UNCHANGED <<script, gen, pre, unlisted, undeleted, stale>>
    BY DEF Load, ghosts
  <1>3. CASE kernel' = Loaded(script) /\ Finish(p, "ok")
    <2>1. pc'[p] = "idle" /\ outcome'[p] = "ok"
      BY <1>3, FinishSelf
    <2>2. script # Empty => \A t \in Tables : kernel'[t] = Block(script) /\ kernel'[t] # Absent
      <3>1. script # Empty => script \in Blocks
        BY DEF Blocks
      <3> QED
        BY <1>3, <3>1, BlockType DEF Loaded
    <2>3. script = Empty => kernel' = pre'[p]
      BY <1>1, <1>2, <1>3 DEF Loaded
    <2>4. LeavesBehind(p)'
      BY <1>1, <1>2, <2>1, <2>2, <2>3, SafeApplyAssumption DEF LeavesBehind
    <2> QED
      BY <2>1, <2>4, Returned
  <1>4. CASE /\ Goto(p, "delete") /\ idx' = [idx EXCEPT ![p] = 1]
             /\ UNCHANGED <<kernel, outcome, backups, checked>>
    <2>1. pc'[p] = "delete" /\ outcome'[p] = "none" /\ idx'[p] = 1
      BY <1>1, <1>4 DEF Goto
    <2>2. KernelKept(p)' /\ FileOwned(p)'
      BY <2>1 DEF KernelKept, FileOwned, LoopSteps
    <2>3. DumpsMade(p)'
      BY <1>1, <1>2, <1>4, <2>1 DEF DumpsMade, Dumped, RollbackSteps
    <2>4. Deleted(p)'
      BY <1>1, <1>2, <1>4, <2>1 DEF Deleted, LoopSteps, Tables
    <2> QED
      BY <2>1, <2>2, <2>3, <2>4, AtWork
  <1>5. CASE Finish(p, "kept") /\ UNCHANGED kernel
    <2>1. pc'[p] = "idle" /\ outcome'[p] = "kept"
      BY <1>5, FinishSelf
    <2> QED
      BY <1>1, <1>2, <1>5, <2>1, Returned DEF LeavesBehind
  <1> QED
    BY <1>3, <1>4, <1>5 DEF Load

LEMMA DeleteRun ==
    ASSUME TypeOK, NEW p \in Procs, RunInv(p), DeleteTable(p)
    PROVE  RunInv(p)'
  <1> DEFINE i == idx[p]
  <1> USE DEF TypeOK
  <1>1. /\ pc[p] = "delete" /\ outcome[p] = "none" /\ i \in Tables
        /\ \A t \in undeleted[p] : t < i
        /\ \A t \in Tables : kernel[t] = IF t < i /\ t \notin undeleted[p]
                                         THEN Absent ELSE pre[p][t]
        /\ \A t \in Tables : backups[p][t] = Dumped(p, t)
    BY DEF DeleteTable, RunInv, DumpsMade, Deleted, NoOutcomeYet, RollbackSteps
  <1>2. UNCHANGED <<script, gen, pre, unlisted, stale>>
    BY DEF DeleteTable
  <1>3. /\ \A t \in undeleted'[p] : t < i + 1
        /\ \A t \in Tables : kernel'[t] = IF t < i + 1 /\ t \notin undeleted'[p]
                                          THEN Absent ELSE pre[p][t]
    <2>1. CASE kernel' = [kernel EXCEPT ![i] = Absent] /\ UNCHANGED undeleted
      <3>1. i \notin undeleted[p]
        BY <1>1 DEF Tables
      <3>2. \A t \in Tables : kernel'[t] = IF t = i THEN Absent ELSE kernel[t]
        BY <2>1
      <3> QED
        BY <1>1, <2>1, <3>1, <3>2 DEF Tables
    <2>2. CASE undeleted' = [undeleted EXCEPT ![p] = @ \cup {i}] /\ UNCHANGED kernel
      <3>1. undeleted'[p] = undeleted[p] \cup {i}
        BY <2>2
      <3> QED
        BY <1>1, <2>2, <3>1 DEF Tables
    <2> QED
      BY <2>1, <2>2 DEF DeleteTable
  <1>4. CASE i < NTables
    <2>1. idx' = [idx EXCEPT ![p] = i + 1] /\ UNCHANGED <<pc, outcome, backups, checked>>
      BY <1>4 DEF DeleteTable
    <2>2. pc'[p] = "delete" /\ outcome'[p] = "none" /\ idx'[p] = i + 1
      BY <1>1, <2>1
    <2>3. KernelKept(p)' /\ FileOwned(p)'
      BY <2>2 DEF KernelKept, FileOwned, LoopSteps
    <2>4. DumpsMade(p)'
      BY <1>1, <1>2, <2>1, <2>2 DEF DumpsMade, Dumped, RollbackSteps
    <2>5. Deleted(p)'
      BY <1>2, <1>3, <2>2 DEF Deleted, LoopSteps
    <2> QED
      BY <2>2, <2>3, <2>4, <2>5, AtWork
  <1>5. CASE ~(i < NTables)
    <2>1. \A t \in Tables : kernel'[t] = IF t \in undeleted'[p] THEN pre[p][t] ELSE Absent
      BY <1>1, <1>3, <1>5, SafeApplyAssumption DEF Tables
    <2>2. CASE backups[p] = NoBackups /\ Finish(p, "rolledBack")
      <3>1. pc'[p] = "idle" /\ outcome'[p] = "rolledBack"
        BY <2>2, FinishSelf
      <3>2. \A t \in Tables \ unlisted[p] : pre[p][t] = Absent
        BY <1>1, <2>2 DEF Dumped, NoBackups
      <3> QED
        BY <1>2, <2>1, <3>1, <3>2, Returned DEF LeavesBehind
    <2>3. CASE Continue(p, "save")
      <3>1. pc'[p] = "save" /\ outcome'[p] = "none" /\ UNCHANGED backups
        BY <1>1, <2>3, ContinueSelf
      <3>2. KernelKept(p)' /\ FileOwned(p)'
        BY <3>1 DEF KernelKept, FileOwned, LoopSteps
      <3>3. DumpsMade(p)'
        BY <1>1, <1>2, <3>1 DEF DumpsMade, Dumped, RollbackSteps
      <3>4. Deleted(p)'
        BY <1>2, <2>1, <3>1 DEF Deleted, LoopSteps
      <3> QED
        BY <3>1, <3>2, <3>3, <3>4, AtWork
    <2> QED
      BY <1>5, <2>2, <2>3 DEF DeleteTable
  <1> QED
    BY <1>4, <1>5

LEMMA SaveRun ==
    ASSUME TypeOK, NEW p \in Procs, RunInv(p), SaveRollback(p)
    PROVE  RunInv(p)'
  <1>1. /\ pc[p] = "save" /\ outcome[p] = "none"
        /\ \A t \in Tables : kernel[t] = IF t \in undeleted[p] THEN pre[p][t] ELSE Absent
        /\ \A t \in Tables : backups[p][t] = Dumped(p, t)
    BY DEF SaveRollback, RunInv, DumpsMade, Deleted, NoOutcomeYet, RollbackSteps
  <1>2. UNCHANGED <<kernel, script, gen, pre, unlisted, undeleted, stale>>
    BY DEF SaveRollback, ghosts
  <1>3. CASE Continue(p, "restore")
    <2>1. pc'[p] = "restore" /\ outcome'[p] = "none" /\ UNCHANGED backups
      BY <1>1, <1>3, ContinueSelf
    <2>2. KernelKept(p)' /\ FileOwned(p)'
      BY <2>1 DEF KernelKept, FileOwned, LoopSteps
    <2>3. DumpsMade(p)' /\ Deleted(p)'
      BY <1>1, <1>2, <2>1 DEF DumpsMade, Deleted, Dumped, LoopSteps, RollbackSteps
    <2> QED
      BY <2>1, <2>2, <2>3, AtWork
  <1>4. CASE Finish(p, "rollbackFailed")
    <2>1. pc'[p] = "idle" /\ outcome'[p] = "rollbackFailed"
      BY <1>4, FinishSelf
    <2> QED
      BY <2>1, Returned DEF LeavesBehind
  <1> QED
    BY <1>3, <1>4 DEF SaveRollback

LEMMA RestoreRun ==
    ASSUME TypeOK, NEW p \in Procs, RunInv(p), Restore(p)
    PROVE  RunInv(p)'
  <1> USE DEF TypeOK
  <1>1. /\ \A t \in Tables : kernel[t] = IF t \in undeleted[p] THEN pre[p][t] ELSE Absent
        /\ \A t \in Tables : backups[p][t] = Dumped(p, t)
    BY DEF Restore, RunInv, DumpsMade, Deleted, RollbackSteps
  <1>2. UNCHANGED <<script, gen, pre, unlisted, undeleted, stale>>
    BY DEF Restore, ghosts
  <1>3. CASE /\ kernel' = [t \in Tables |->
                              IF backups[p][t] = Absent THEN kernel[t]
                              ELSE Appended(kernel[t], backups[p][t])]
             /\ Finish(p, "rolledBack")
    <2>1. pc'[p] = "idle" /\ outcome'[p] = "rolledBack"
      BY <1>3, FinishSelf
    <2>2. \A t \in Tables \ (unlisted[p] \cup undeleted[p]) : kernel'[t] = pre[p][t]
      BY <1>1, <1>3 DEF Dumped, Appended
    <2>3. ASSUME NEW t \in Tables \ unlisted[p], pre[p][t] # Absent PROVE kernel'[t] # Absent
      <3>1. backups[p][t] = pre[p][t] /\ backups[p][t] \in Copies /\ kernel[t] \in Contents
        BY <1>1, <2>3 DEF Dumped, Contents
      <3>2. Appended(kernel[t], backups[p][t]) \in Copies
        BY <3>1, AppendedType
      <3>3. kernel'[t] = Appended(kernel[t], backups[p][t])
        BY <1>3, <2>3, <3>1
      <3> QED
        BY <3>2, <3>3, AbsentAssumption
    <2> QED
      BY <1>2, <2>1, <2>2, <2>3, Returned DEF LeavesBehind
  <1>4. CASE Finish(p, "rollbackFailed")
    <2>1. pc'[p] = "idle" /\ outcome'[p] = "rollbackFailed"
      BY <1>4, FinishSelf
    <2> QED
      BY <2>1, Returned DEF LeavesBehind
  <1> QED
    BY <1>3, <1>4 DEF Restore

LEMMA KillRun ==
    ASSUME TypeOK, NEW p \in Procs, Kill(p)
    PROVE  RunInv(p)'
  <1>1. pc'[p] = "idle" /\ outcome'[p] = "killed"
    BY FinishSelf DEF Kill
  <1> QED
    BY <1>1, Returned DEF LeavesBehind
-----------------------------------------------------------------------------
(* The invariant, and what follows from it.                                *)

LEMMA InvInit == Init => IInv
  <1>1. Init => TypeOK
    BY SafeApplyAssumption
    DEF Init, TypeOK, NoBackups, Contents, Steps, Outcomes, Tables
  <1> QED
    BY <1>1 DEF Init, IInv, Undisturbed, LocalsFresh

\* A step of an undisturbed process, or of a process beside none.
LEMMA RunStep ==
    ASSUME IInv, NEW p \in Procs, Apply(p)
    PROVE  Undisturbed' /\ \A q \in undisturbed' : RunInv(q)'
  <1> USE DEF IInv
  <1>1. ASSUME NEW g \in Gens, Begin(p, g)
        PROVE  Undisturbed' /\ \A q \in undisturbed' : RunInv(q)'
    <2>1. undisturbed' \subseteq {p} /\ gen'[p] = g
      BY <1>1 DEF Begin, TypeOK
    <2>2. \A q \in Procs \ {p} : pc'[q] = pc[q]
      BY <1>1 DEF Begin, Goto, TypeOK
    <2>3. undisturbed' # {} => \A q \in Procs : pc[q] = "idle"
      BY <1>1 DEF Begin
    <2> QED
      BY <1>1, <2>1, <2>2, <2>3, BeginRun DEF Undisturbed
  <1>2. CASE \E g \in Gens : Begin(p, g)
    BY <1>1, <1>2
  <1>3. CASE ~(\E g \in Gens : Begin(p, g))
    <2> DEFINE Other == \/ CreateScript(p) \/ WriteScript(p) \/ Check(p) \/ BackupRuleset(p)
                        \/ ListTable(p) \/ Load(p) \/ DeleteTable(p)
                        \/ SaveRollback(p) \/ Restore(p) \/ Kill(p)
    <2>1. Other
      BY <1>3 DEF Apply
    <2>2. pc[p] # "idle"
      BY <2>1 DEF CreateScript, WriteScript, Check, BackupRuleset, ListTable, Load,
                  DeleteTable, SaveRollback, Restore, Kill
    <2>3. undisturbed \subseteq {p}
      BY <2>2, OnlySelf
    <2>4. undisturbed' = undisturbed /\ gen' = gen
      BY <2>1 DEF CreateScript, WriteScript, Check, BackupRuleset, ListTable, Load,
                  DeleteTable, SaveRollback, Restore, Kill, ghosts
    <2>5. \A q \in Procs \ {p} : pc'[q] = pc[q]
      BY <2>1 DEF CreateScript, WriteScript, Check, BackupRuleset, ListTable, Load,
                  DeleteTable, SaveRollback, Restore, Kill, Finish, Continue, Goto, TypeOK
    <2>6. Undisturbed'
      BY <2>3, <2>4, <2>5 DEF Undisturbed
    <2>7. p \in undisturbed => RunInv(p)'
      BY <2>1, CreateRun, WriteRun, CheckRun, BackupRun, ListRun, LoadRun, DeleteRun,
         SaveRun, RestoreRun, KillRun DEF Undisturbed
    <2> QED
      BY <2>3, <2>4, <2>6, <2>7
  <1> QED
    BY <1>2, <1>3

LEMMA InvStep == IInv /\ [Next]_vars => IInv'
  <1> SUFFICES ASSUME IInv, [Next]_vars PROVE IInv'
    OBVIOUS
  <1>1. TypeOK' /\ LocalsFresh'
    BY TypeStep, FreshStep DEF IInv
  <1>2. CASE UNCHANGED vars
    <2>1. Undisturbed' /\ \A p \in undisturbed' : RunInv(p)'
      BY <1>2 DEF IInv, vars, Undisturbed, RunInv, KernelKept, FileOwned, DumpsMade,
                  Dumped, Deleted, NoOutcomeYet, LeavesBehind, LoopSteps, RollbackSteps
    <2> QED
      BY <1>1, <2>1 DEF IInv
  <1>3. ASSUME NEW p \in Procs, Apply(p) PROVE IInv'
    BY <1>1, <1>3, RunStep DEF IInv
  <1> QED
    BY <1>2, <1>3 DEF Next

THEOREM Invariant == Spec => []IInv
  BY InvInit, InvStep, PTL DEF Spec

\* A rollback that reports success has restored every managed table that it
\* had a dump of and could delete: for any number of tables, any fault, and
\* whatever other processes did before the run.
THEOREM RollbackSafe == Spec => []RolledBackRestores
  <1>1. IInv => RolledBackRestores
    BY DEF IInv, RunInv, LeavesBehind, RolledBackRestores
  <1> QED
    BY <1>1, Invariant, PTL

\* A run that fails before nft -f, or whose nft -f cannot be started, has not
\* changed the kernel.
THEOREM KeptSafe == Spec => []KeptUntouched
  <1>1. IInv => KeptUntouched
    BY DEF IInv, RunInv, LeavesBehind, KeptUntouched
  <1> QED
    BY <1>1, Invariant, PTL

\* A run that reports success has installed its own text in every table.
THEOREM SuccessSafe == Spec => []SuccessInstalls
  <1>1. IInv => SuccessInstalls
    BY DEF IInv, RunInv, LeavesBehind, SuccessInstalls
  <1> QED
    BY <1>1, Invariant, PTL

\* No table disappears without a failure that explains it.
THEOREM OutageSafe == Spec => []NoSilentOutage
  <1>1. IInv => NoSilentOutage
    <2> SUFFICES ASSUME IInv, NEW p \in undisturbed,
                        outcome[p] \in {"ok", "kept", "rolledBack"},
                        NEW t \in Tables \ unlisted[p], pre[p][t] # Absent
                 PROVE  kernel[t] # Absent
      BY DEF NoSilentOutage
    <2> QED
      BY DEF IInv, RunInv, LeavesBehind
  <1> QED
    BY <1>1, Invariant, PTL
-----------------------------------------------------------------------------
(* Two sentences of the documentation that fail in general, and the        *)
(* condition under which each of them holds.                               *)

\* A process is at work only in a run that nobody overlapped.
Alone(p) == pc[p] # "idle" => p \in undisturbed

\* Of a single process, whatever faults it meets.
LEMMA AloneStep ==
    ASSUME NEW me, Procs = {me}, TypeOK, Alone(me), [Next]_vars
    PROVE  Alone(me)'
  <1> USE DEF Alone
  <1>1. CASE UNCHANGED vars
    BY <1>1 DEF vars
  <1>2. ASSUME NEW g \in Gens, Begin(me, g) PROVE Alone(me)'
    BY <1>2 DEF Begin
  <1>3. ASSUME pc[me] # "idle", UNCHANGED undisturbed PROVE Alone(me)'
    BY <1>3
  <1>4. CASE CreateScript(me) \/ WriteScript(me) \/ Check(me) \/ BackupRuleset(me)
             \/ ListTable(me) \/ Load(me) \/ DeleteTable(me) \/ SaveRollback(me)
             \/ Restore(me) \/ Kill(me)
    BY <1>3, <1>4 DEF CreateScript, WriteScript, Check, BackupRuleset, ListTable, Load,
                      DeleteTable, SaveRollback, Restore, Kill, ghosts
  <1> QED
    BY <1>1, <1>2, <1>4 DEF Next, Apply

\* The text nft -f commits is the text nft -c accepted, as the README says, of
\* a process that has nat-diy.nft to itself, whatever fails in it.
THEOREM AloneLoadsWhatItChecked ==
    ASSUME NEW me, Procs = {me}
    PROVE  Spec => AppliedWasChecked
  <1>1. Init => Alone(me)
    BY DEF Init, Alone
  <1>2. IInv /\ Alone(me) /\ [Next]_vars => Alone(me)'
    BY AloneStep DEF IInv
  <1>3. IInv /\ Alone(me) =>
            [\A p \in Procs : Load(p) /\ outcome'[p] = "ok" => script = checked[p]]_vars
    BY DEF IInv, Alone, RunInv, FileOwned, Load
  <1> QED
    BY <1>1, <1>2, <1>3, Invariant, PTL DEF Spec, AppliedWasChecked

\* Where no dump and no delete failed, none has left its mark.
NoneLost == \A p \in Procs : unlisted[p] = {} /\ undeleted[p] = {}

LEMMA NoneLostStep ==
    ASSUME ~Fault("list"), ~Fault("delete"), TypeOK, NoneLost, [Next]_vars
    PROVE  NoneLost'
  <1> USE DEF NoneLost, TypeOK
  <1>1. CASE UNCHANGED vars
    BY <1>1 DEF vars
  <1>2. ASSUME NEW p \in Procs, NEW g \in Gens, Begin(p, g) PROVE NoneLost'
    BY <1>2 DEF Begin
  <1>3. ASSUME NEW p \in Procs,
               CreateScript(p) \/ WriteScript(p) \/ Check(p) \/ BackupRuleset(p)
               \/ ListTable(p) \/ Load(p) \/ DeleteTable(p) \/ SaveRollback(p)
               \/ Restore(p) \/ Kill(p)
        PROVE  UNCHANGED <<unlisted, undeleted>>
    BY <1>3 DEF CreateScript, WriteScript, Check, BackupRuleset, ListTable, Load,
                DeleteTable, SaveRollback, Restore, Kill, ghosts
  <1>4. UNCHANGED <<unlisted, undeleted>> => NoneLost'
    OBVIOUS
  <1> QED
    BY <1>1, <1>2, <1>3, <1>4 DEF Next, Apply

\* A rollback that reports success has restored all managed tables, as the
\* final error text says, of any number of processes, when every table could
\* be dumped and deleted, whatever else failed.
THEOREM RollbackRestoresAll ==
    ASSUME ~Fault("list"), ~Fault("delete")
    PROVE  Spec => []RollbackRestoresPrior
  <1>1. Init => NoneLost
    BY DEF Init, NoneLost
  <1>2. IInv /\ NoneLost /\ [Next]_vars => NoneLost'
    BY NoneLostStep DEF IInv
  <1>3. IInv /\ NoneLost => RollbackRestoresPrior
    <2> SUFFICES ASSUME IInv, NoneLost, NEW p \in undisturbed, outcome[p] = "rolledBack"
                 PROVE  kernel = pre[p]
      BY DEF RollbackRestoresPrior
    <2>1. p \in Procs /\ kernel \in [Tables -> Contents] /\ pre[p] \in [Tables -> Contents]
      BY DEF IInv, TypeOK
    <2>2. \A t \in Tables : kernel[t] = pre[p][t]
      BY <2>1 DEF IInv, RunInv, LeavesBehind, NoneLost
    <2> QED
      BY <2>1, <2>2
  <1> QED
    BY <1>1, <1>2, <1>3, Invariant, PTL DEF Spec
=============================================================================
