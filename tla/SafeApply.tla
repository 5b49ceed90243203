------------------------------ MODULE SafeApply ------------------------------
(***************************************************************************)
(* The safe-apply pipeline of nat-cli/src/apply.rs, together with the step *)
(* of its two callers (handle_loop and refresh_once in main.rs) that       *)
(* writes the generated script to /etc/nftables-nat/nat-diy.nft:           *)
(*                                                                         *)
(*   create file, write it, nft -c, back up the ruleset, dump the managed  *)
(*   tables one by one, nft -f; and when nft -f is refused: delete the     *)
(*   managed tables one by one, save the dumps, nft -f the dumps.          *)
(*                                                                         *)
(* Every step is a separate child process or file operation, so another    *)
(* process (the menu and nat.service both run this pipeline) may act       *)
(* between any two of them, and a process may be killed between any two.   *)
(*                                                                         *)
(* A table's contents are counted in rule blocks: how many copies of the   *)
(* block that generation g put there.  Loading a generated script replaces *)
(* a table; loading a dump into a table that still exists appends to it.   *)
(*                                                                         *)
(* The module ends where a run returns.  What becomes of the ruleset when  *)
(* the service's process then exits (ExecStop of nat.service) is in        *)
(* NatService.                                                             *)
(***************************************************************************)
EXTENDS Naturals, FiniteSets

CONSTANTS
    Procs,      \* processes that run the pipeline
    LoopProcs,  \* those that run it from handle_loop: a failed File::create is ignored
    Gens,       \* generated scripts (one per distinct script text)
    NTables,    \* length of MANAGED_TABLES
    Faults,     \* which environment faults may happen
    Absent,     \* "no such table"
    Empty,      \* the script file missing, or truncated and not yet written
    Torn        \* the script file after two interleaved writers

FaultKinds == {"create", "disk", "list", "delete", "save", "restore", "kill"}

ASSUME SafeApplyAssumption ==
    /\ LoopProcs \subseteq Procs
    /\ NTables \in Nat \ {0}
    /\ Faults \subseteq FaultKinds
    /\ Empty \notin Gens /\ Torn \notin Gens /\ Empty # Torn

Tables == 1..NTables            \* positions in MANAGED_TABLES
Blocks == Gens \cup {Torn}
Copies == [Blocks -> 0..2]      \* 2 stands for "more than once"

ASSUME AbsentAssumption == Absent \notin Copies

Contents == Copies \cup {Absent}

VARIABLES
    kernel,     \* contents of every managed table
    script,     \* contents of the shared file nat-diy.nft
    pc,         \* next step of each process
    gen,        \* the script text a process generated
    idx,        \* loop index over MANAGED_TABLES
    backups,    \* the dumps a process holds (Absent: none pushed)
    checked,    \* what the file held when nft -c accepted it
    outcome,    \* how the last run of a process ended
    \* Observability: not in the program, read only by properties.
    pre,        \* the kernel when the run began
    unlisted,   \* tables whose dump failed although they existed
    undeleted,  \* tables the rollback could not delete
    stale,      \* processes that went on with an old file
    undisturbed \* {p} when p began the latest run and none overlapped it

ghosts == <<pre, unlisted, undeleted, stale, undisturbed>>
vars   == <<kernel, script, pc, gen, idx, backups, checked, outcome,
            pre, unlisted, undeleted, stale, undisturbed>>

Steps    == {"idle", "create", "write", "check", "backup", "list", "load",
             "delete", "save", "restore"}
Outcomes == {"none", "ok", "kept", "rolledBack", "rollbackFailed", "killed"}

NoBackups == [t \in Tables |-> Absent]

\* nft -f of a generated script: the table is deleted and rebuilt.
Block(s) == [b \in Blocks |-> IF b = s THEN 1 ELSE 0]

\* nft -f of a dump: its rules are appended to whatever the table holds.
Appended(c, d) ==
    IF c = Absent THEN d
    ELSE [b \in Blocks |-> IF c[b] + d[b] > 2 THEN 2 ELSE c[b] + d[b]]

\* The kernel after nft -f of the file contents s; an empty file changes nothing.
Loaded(s) == IF s = Empty THEN kernel ELSE [t \in Tables |-> Block(s)]

Goto(p, step)   == pc' = [pc EXCEPT ![p] = step]
Fault(f)        == f \in Faults

\* A run returns: its outcome is known and its local variables are gone.
Finish(p, o) ==
    /\ Goto(p, "idle")
    /\ outcome' = [outcome EXCEPT ![p] = o]
    /\ idx' = [idx EXCEPT ![p] = 1]
    /\ backups' = [backups EXCEPT ![p] = NoBackups]
    /\ checked' = [checked EXCEPT ![p] = Empty]

\* A run goes on to its next step without touching its local variables.
Continue(p, step) == Goto(p, step) /\ UNCHANGED <<outcome, idx, backups, checked>>

TypeOK ==
    /\ kernel    \in [Tables -> Contents]
    /\ script    \in Gens \cup {Empty, Torn}
    /\ pc        \in [Procs -> Steps]
    /\ gen       \in [Procs -> Gens \cup {Empty}]
    /\ idx       \in [Procs -> Tables]
    /\ backups   \in [Procs -> [Tables -> Contents]]
    /\ checked   \in [Procs -> Gens \cup {Empty, Torn}]
    /\ outcome   \in [Procs -> Outcomes]
    /\ pre       \in [Procs -> [Tables -> Contents]]
    /\ unlisted  \in [Procs -> SUBSET Tables]
    /\ undeleted \in [Procs -> SUBSET Tables]
    /\ stale     \in SUBSET Procs
    /\ undisturbed \in SUBSET Procs

Init ==
    /\ kernel = NoBackups
    /\ script = Empty
    /\ pc = [p \in Procs |-> "idle"]
    /\ gen = [p \in Procs |-> Empty]
    /\ idx = [p \in Procs |-> 1]
    /\ backups = [p \in Procs |-> NoBackups]
    /\ checked = [p \in Procs |-> Empty]
    /\ outcome = [p \in Procs |-> "none"]
    /\ pre = [p \in Procs |-> kernel]
    /\ unlisted = [p \in Procs |-> {}]
    /\ undeleted = [p \in Procs |-> {}]
    /\ stale = {}
    /\ undisturbed = {}
-----------------------------------------------------------------------------
(* The callers: generate, then write the shared script file.               *)

\* A caller has generated script text g and turns to the file.
Begin(p, g) ==
    /\ pc[p] = "idle"
    /\ Goto(p, "create")
    /\ gen' = [gen EXCEPT ![p] = g]
    /\ outcome' = [outcome EXCEPT ![p] = "none"]
    /\ pre' = [pre EXCEPT ![p] = kernel]
    /\ unlisted' = [unlisted EXCEPT ![p] = {}]
    /\ undeleted' = [undeleted EXCEPT ![p] = {}]
    /\ stale' = stale \ {p}
    /\ undisturbed' = IF \A q \in Procs : pc[q] = "idle" THEN {p} ELSE {}
    /\ UNCHANGED <<kernel, script, idx, backups, checked>>

\* Mutant: the file is opened without being truncated (OpenOptions::write).
CreateKeeps(p) ==
    /\ pc[p] = "create"
    /\ \/ Continue(p, "write") /\ UNCHANGED stale
       \/ /\ Fault("create") /\ p \in LoopProcs
          /\ Continue(p, "check") /\ stale' = stale \cup {p}
       \/ Fault("create") /\ p \notin LoopProcs /\ Finish(p, "kept") /\ UNCHANGED stale
    /\ UNCHANGED <<kernel, script, gen, pre, unlisted, undeleted, undisturbed>>

\* File::create truncates.  handle_loop ignores a failure and goes on with
\* the file as it is; refresh_once returns the error.
CreateScript(p) ==
    /\ pc[p] = "create"
    /\ \/ script' = Empty /\ Continue(p, "write") /\ UNCHANGED stale
       \/ /\ Fault("create") /\ p \in LoopProcs
          /\ Continue(p, "check")
          /\ stale' = stale \cup {p}
          /\ UNCHANGED script
       \/ /\ Fault("create") /\ p \notin LoopProcs
          /\ Finish(p, "kept")
          /\ UNCHANGED <<script, stale>>
    /\ UNCHANGED <<kernel, gen, pre, unlisted, undeleted, undisturbed>>

\* Mutant: the result of write_all is dropped.
WriteIgnored(p) ==
    /\ pc[p] = "write"
    /\ Continue(p, "check")
    /\ (script' = gen[p] \/ (Fault("disk") /\ UNCHANGED script))
    /\ UNCHANGED <<kernel, gen, ghosts>>

\* write_all; a failure (full disk) returns with the file truncated.  Over
\* the text of a second writer the new text wins, or leaves a tail of the
\* longer old one behind it.
WriteScript(p) ==
    /\ pc[p] = "write"
    /\ \/ /\ \/ script' = gen[p]
             \/ script \notin {Empty, gen[p]} /\ script' = Torn
          /\ Continue(p, "check")
       \/ Fault("disk") /\ Finish(p, "kept") /\ UNCHANGED script
    /\ UNCHANGED <<kernel, gen, ghosts>>
-----------------------------------------------------------------------------
(* apply_nft_script_with                                                   *)

\* Mutant: the check loads the file (nft -f without -c).
CheckLoads(p) ==
    /\ pc[p] = "check"
    /\ \/ /\ checked' = [checked EXCEPT ![p] = script]
          /\ kernel' = Loaded(script)
          /\ Goto(p, "backup")
          /\ UNCHANGED <<outcome, idx, backups>>
       \/ Finish(p, "kept") /\ UNCHANGED kernel
    /\ UNCHANGED <<script, gen, ghosts>>

\* check_nft_script: nft -c accepts or refuses the file.
Check(p) ==
    /\ pc[p] = "check"
    /\ \/ /\ checked' = [checked EXCEPT ![p] = script]
          /\ Goto(p, "backup")
          /\ UNCHANGED <<outcome, idx, backups>>
       \/ Finish(p, "kept")
    /\ UNCHANGED <<kernel, script, gen, ghosts>>

\* backup_current_ruleset.
BackupRuleset(p) ==
    /\ pc[p] = "backup"
    /\ \/ Continue(p, "list")
       \/ Fault("disk") /\ Finish(p, "kept")
    /\ UNCHANGED <<kernel, script, gen, ghosts>>

\* Mutant: the last managed table is never dumped.
ListButLast(p) ==
    LET t == idx[p] IN
    /\ pc[p] = "list"
    /\ backups' = IF t = NTables THEN backups ELSE [backups EXCEPT ![p][t] = kernel[t]]
    /\ IF t = NTables
       THEN Goto(p, "load") /\ UNCHANGED idx
       ELSE idx' = [idx EXCEPT ![p] = t + 1] /\ UNCHANGED pc
    /\ UNCHANGED <<kernel, script, gen, checked, outcome, ghosts>>

\* Mutant: the loop index is advanced past the last table.
ListPastEnd(p) ==
    LET t == idx[p] IN
    /\ pc[p] = "list"
    /\ backups' = [backups EXCEPT ![p][t] = kernel[t]]
    /\ idx' = [idx EXCEPT ![p] = t + 1]
    /\ IF t = NTables THEN Goto(p, "load") ELSE UNCHANGED pc
    /\ UNCHANGED <<kernel, script, gen, checked, outcome, ghosts>>

\* One turn of the loop in backup_managed_tables.  A table that does not
\* exist is skipped; so is, with nothing but a log line, one that exists
\* but cannot be listed.
ListTable(p) ==
    LET t == idx[p] IN
    /\ pc[p] = "list"
    /\ \/ /\ backups' = [backups EXCEPT ![p][t] = kernel[t]]
          /\ UNCHANGED unlisted
       \/ /\ Fault("list") /\ kernel[t] # Absent
          /\ unlisted' = [unlisted EXCEPT ![p] = @ \cup {t}]
          /\ UNCHANGED backups
    /\ IF t = NTables
       THEN Goto(p, "load") /\ UNCHANGED idx
       ELSE idx' = [idx EXCEPT ![p] = t + 1] /\ UNCHANGED pc
    /\ UNCHANGED <<kernel, script, gen, checked, outcome, pre, undeleted, stale,
                   undisturbed>>

\* nft -f of the file: one kernel transaction.  It commits, or is refused
\* (rollback follows), or nft cannot be started (the error is returned).
Load(p) ==
    /\ pc[p] = "load"
    /\ \/ kernel' = Loaded(script) /\ Finish(p, "ok")
       \/ /\ Goto(p, "delete")
          /\ idx' = [idx EXCEPT ![p] = 1]
          /\ UNCHANGED <<kernel, outcome, backups, checked>>
       \/ Finish(p, "kept") /\ UNCHANGED kernel
    /\ UNCHANGED <<script, gen, ghosts>>
-----------------------------------------------------------------------------
(* rollback_managed_tables                                                 *)

\* Mutant: the delete loop is skipped; the dumps go onto what is there.
DeleteNothing(p) ==
    /\ pc[p] = "delete"
    /\ IF backups[p] = NoBackups THEN Finish(p, "rolledBack")
                                 ELSE Continue(p, "save")
    /\ UNCHANGED <<kernel, script, gen, ghosts>>

\* One turn of the delete loop; every failure is ignored.  After the last
\* table an empty list of dumps ends the rollback.
DeleteTable(p) ==
    LET t == idx[p] IN
    /\ pc[p] = "delete"
    /\ \/ kernel' = [kernel EXCEPT ![t] = Absent] /\ UNCHANGED undeleted
       \/ /\ Fault("delete") /\ kernel[t] # Absent
          /\ undeleted' = [undeleted EXCEPT ![p] = @ \cup {t}]
          /\ UNCHANGED kernel
    /\ IF t < NTables
       THEN /\ idx' = [idx EXCEPT ![p] = t + 1]
            /\ UNCHANGED <<pc, outcome, backups, checked>>
       ELSE IF backups[p] = NoBackups THEN Finish(p, "rolledBack")
                                      ELSE Continue(p, "save")
    /\ UNCHANGED <<script, gen, pre, unlisted, stale, undisturbed>>

\* The dumps are written to managed-rollback-<time>.nft.
SaveRollback(p) ==
    /\ pc[p] = "save"
    /\ \/ Continue(p, "restore")
       \/ Fault("save") /\ Finish(p, "rollbackFailed")
    /\ UNCHANGED <<kernel, script, gen, ghosts>>

\* nft -f of the dumps, one transaction.
Restore(p) ==
    /\ pc[p] = "restore"
    /\ \/ /\ kernel' = [t \in Tables |->
                           IF backups[p][t] = Absent THEN kernel[t]
                           ELSE Appended(kernel[t], backups[p][t])]
          /\ Finish(p, "rolledBack")
       \/ Fault("restore") /\ Finish(p, "rollbackFailed") /\ UNCHANGED kernel
    /\ UNCHANGED <<script, gen, ghosts>>

\* The process is killed (systemctl restart, Ctrl-C in the menu).
Kill(p) ==
    /\ Fault("kill") /\ pc[p] # "idle"
    /\ Finish(p, "killed")
    /\ UNCHANGED <<kernel, script, gen, ghosts>>
-----------------------------------------------------------------------------
Apply(p) ==
    \/ \E g \in Gens : Begin(p, g)
    \/ CreateScript(p) \/ WriteScript(p)
    \/ Check(p) \/ BackupRuleset(p) \/ ListTable(p) \/ Load(p)
    \/ DeleteTable(p) \/ SaveRollback(p) \/ Restore(p)
    \/ Kill(p)

Next == \E p \in Procs : Apply(p)

Spec == Init /\ [][Next]_vars
-----------------------------------------------------------------------------
(* Properties.  Each speaks of a run that no other run overlapped, whatever *)
(* the other processes did before it, and whatever faults it met.           *)

\* A rollback that reports success has put back every managed table as the
\* run found it, save those it could not dump and those it could not delete
\* (apply_nft_script_with, "managed tables rolled back").
RolledBackRestores ==
    \A p \in undisturbed : outcome[p] = "rolledBack" =>
        \A t \in Tables \ (unlisted[p] \cup undeleted[p]) : kernel[t] = pre[p][t]

\* A run that ends in an error before the rollback leaves the kernel as it
\* found it: a refused check, a failed write or backup changes nothing.
KeptUntouched ==
    \A p \in undisturbed : outcome[p] = "kept" => kernel = pre[p]

\* A run that reports success has installed exactly the text it generated,
\* in all managed tables, unless it went on with a file it could not create.
SuccessInstalls ==
    \A p \in undisturbed \ stale :
        outcome[p] = "ok" => \A t \in Tables : kernel[t] = Block(gen[p])

\* No managed table that was there when the run began is missing after the
\* run, unless its dump failed, the rollback failed, or the process was killed.
NoSilentOutage ==
    \A p \in undisturbed : outcome[p] \in {"ok", "kept", "rolledBack"} =>
        \A t \in Tables \ unlisted[p] : pre[p][t] # Absent => kernel[t] # Absent

\* What the README's pipeline and the final error text say: a rollback that
\* reports success has restored the managed tables, all of them.
RollbackRestoresPrior ==
    \A p \in undisturbed : outcome[p] = "rolledBack" => kernel = pre[p]

\* What the README's pipeline says of the check: the text nft -f commits is
\* the text nft -c has accepted for this run.
AppliedWasChecked ==
    [][\A p \in Procs : Load(p) /\ outcome'[p] = "ok" => script = checked[p]]_vars
=============================================================================
