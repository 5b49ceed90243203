-------------------------- MODULE Lifecycle_proofs --------------------------
(***************************************************************************)
(* An uninstallation that met no failure leaves nothing behind, whatever   *)
(* the service and systemd do meanwhile: each step of the removal rests on *)
(* the ones before it, the first on `systemctl stop`, after which nothing  *)
(* is started again.                                                       *)
(***************************************************************************)
EXTENDS Lifecycle, TLAPS

RemovalSteps == {"stop", "rmUnits", "rmBin", "tables", "data", "forget"}

\* Where a removal is, by what it still has to do.
After(steps) == pc \in steps /\ job.op = "uninstall" /\ ~trouble

\* Rules that the data mode keeps.
Kept(c) == job.keep = "keep" \/ (job.keep = "keepConfig" /\ c = "toml")

\* How far the host is cleared at each step; said tells the end.
Stopped    == svc = "stopped"
NoUnits    == InForce(units) = "absent"
NoBinary   == bin = "absent"
NoTables   == ~tables
RulesKept  == \A c \in Configs : before.files[c] = "own" /\ Kept(c) => files[c] = "own"
RulesThere == \A c \in Configs : before.files[c] = "own" => files[c] = "own"

IInv ==
    /\ After(RemovalSteps \ {"stop"}) => Stopped
    /\ After({"rmBin", "tables", "data", "forget"}) => NoUnits
    /\ After({"tables", "data", "forget"}) => NoBinary
    /\ After({"data", "forget"}) => NoTables
    /\ After({"stop", "rmUnits", "rmBin", "tables", "data"}) => RulesThere
    /\ After({"forget"}) => RulesKept
    /\ said = "uninstall" => pc = "idle" /\ job.op = "uninstall"
    /\ said = "uninstall" /\ ~trouble =>
         Stopped /\ NoBinary /\ NoTables /\ NoUnits /\ loaded = "absent" /\ RulesKept

\* The invariant reads these; a step that leaves them alone preserves it.
LEMMA Unread ==
    ASSUME IInv, UNCHANGED <<bin, units, loaded, svc, tables, files, job, pc, said, before>>,
           trouble => trouble'
    PROVE  IInv'
BY DEF IInv, After, RemovalSteps, Stopped, NoUnits, NoBinary, NoTables, RulesKept, RulesThere, Kept

\* A step of another script: it neither is at a removal step nor gets to one,
\* and does not say that a removal is over.
LEMMA Elsewhere ==
    ASSUME IInv, pc \notin RemovalSteps \cup {"idle"}, pc' \notin RemovalSteps,
           said' # "uninstall"
    PROVE  IInv'
BY DEF IInv, After, RemovalSteps

LEMMA InitIInv == Init => IInv
BY DEF Init, IInv, After, RemovalSteps

\* Scripts that do not remove anything.
LEMMA OtherScripts ==
    ASSUME IInv, Preparation \/ Setup \/ Rollback
    PROVE  IInv'
<1>1. /\ pc \notin RemovalSteps \cup {"idle"} /\ pc' \notin RemovalSteps
      /\ said' \in {said, "died", "kept", "failed", "updated", "rolledBack"}
  <2>1. CASE Preparation
    BY <2>1 DEF Preparation, BackupFiles, ChooseSource, Fetch, Build, Ready, NotReady, Ends, Goto, RemovalSteps
  <2>2. CASE Setup
    BY <2>2 DEF Setup, InstallBinary, Verify, WriteUnit, CreateConfig, Reload, Restart, IsActive,
                Started, Fails, Ends, Goto, RemovalSteps
  <2>3. CASE Rollback
    BY <2>3 DEF Rollback, RestoreBinary, RestoreUnits, RollbackReload, Ends, Goto, RemovalSteps
  <2> QED BY <2>1, <2>2, <2>3
<1>2. said # "uninstall"
  BY <1>1 DEF IInv
<1> QED BY <1>1, <1>2, Elsewhere

\* Each step of a removal does its part and keeps what the others did.
LEMMA RemovalStep ==
    ASSUME IInv, Removal
    PROVE  IInv'
<1> USE DEF IInv, After, RemovalSteps, Stopped, NoUnits, NoBinary, NoTables, RulesKept, RulesThere, Kept
<1>1. CASE StopService
  BY <1>1 DEF StopService, Try, Goto
<1>2. CASE RemoveUnits
  BY <1>2 DEF RemoveUnits, Aborts, Ends, Try, Goto, InForce, Dirs
<1>3. CASE RemoveBinary
  BY <1>3 DEF RemoveBinary, Aborts, Ends, Try, Goto
<1>4. CASE CleanupTables
  BY <1>4 DEF CleanupTables, Try, Goto
<1>5. CASE CleanupData
  BY <1>5 DEF CleanupData, Aborts, Ends, Try, Goto, Configs
<1>6. CASE Forget
  BY <1>6 DEF Forget, Try, Ends
<1> QED BY <1>1, <1>2, <1>3, <1>4, <1>5, <1>6 DEF Removal

\* A script begins: a removal with the files as they are.
LEMMA BeginStep ==
    ASSUME IInv, BeginUpdate \/ BeginInstall \/ BeginUninstall \/ UpdateWithoutScript
    PROVE  IInv'
<1>1. CASE BeginUpdate \/ BeginInstall
  BY <1>1 DEF BeginUpdate, BeginInstall, Begin, IInv, After, RemovalSteps
<1>2. CASE BeginUninstall
  <2> SUFFICES ASSUME NEW j, NEW step, Begin(j, step),
                      step = "stop" \/ (step = "tables" /\ j.op = "nftTables")
               PROVE  IInv'
    BY <1>2 DEF BeginUninstall, Job
  <2>1. files' = files /\ before'.files = files /\ pc' = step /\ job' = j /\ said' = "none"
    BY DEF Begin, host
  <2> QED BY <2>1 DEF IInv, After, RemovalSteps, RulesThere
<1>3. CASE UpdateWithoutScript
  BY <1>3 DEF UpdateWithoutScript, Ends, IInv, After, RemovalSteps
<1> QED BY <1>1, <1>2, <1>3

\* What happens whatever script runs: nothing is started, and nothing ends,
\* once the service is stopped.
LEMMA ServiceStep ==
    ASSUME IInv, Start \/ Dies \/ Applies \/ WriteRules \/ Kill
    PROVE  IInv'
<1> USE DEF IInv, After, RemovalSteps, Stopped, NoUnits, NoBinary, NoTables, RulesKept, RulesThere, Kept
<1>1. CASE Start
  BY <1>1 DEF Start, Started
<1>2. CASE Dies
  BY <1>2 DEF Dies
<1>3. CASE Applies
  BY <1>3 DEF Applies
<1>4. CASE WriteRules
  <2>1. PICK c \in Configs : files[c] = "default" /\ files' = [files EXCEPT ![c] = "own"]
    BY <1>4 DEF WriteRules
  <2>2. \A x \in Configs : files[x] = "own" => files'[x] = "own"
    BY <2>1
  <2> QED BY <1>4, <2>2 DEF WriteRules
<1>5. CASE Kill
  BY <1>5 DEF Kill, Ends
<1> QED BY <1>1, <1>2, <1>3, <1>4, <1>5

LEMMA NextIInv == IInv /\ [Next]_vars => IInv'
<1> SUFFICES ASSUME IInv, [Next]_vars PROVE IInv'
  OBVIOUS
<1>1. CASE UNCHANGED vars
  BY <1>1, Unread DEF vars, host
<1>2. CASE Next
  BY <1>2, BeginStep, OtherScripts, RemovalStep, ServiceStep DEF Next, Script
<1> QED BY <1>1, <1>2

\* After an uninstallation without a failed command nothing of the program
\* is left or comes back, and the rules that were to be kept are there.
THEOREM UninstallAlwaysLeavesNothing == Spec => []UninstallLeavesNothing
<1>1. IInv => UninstallLeavesNothing
  BY DEF IInv, UninstallLeavesNothing, Stopped, NoBinary, NoTables, NoUnits, RulesKept, Kept
<1> QED BY <1>1, InitIInv, NextIInv, PTL DEF Spec
=============================================================================
