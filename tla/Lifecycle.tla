------------------------------ MODULE Lifecycle ------------------------------
(***************************************************************************)
(* Installing, updating and uninstalling the program: install.sh and       *)
(* setup.sh, the menu's update and uninstall pages, and the service that   *)
(* systemd keeps running meanwhile (Restart=always, Type=simple).          *)
(*                                                                         *)
(* A program is known by what it can do; a configuration by whether it     *)
(* holds the operator's own rules.  Two unit files may exist; the one in   *)
(* /etc hides the one in /lib, and systemd goes by what it read at its     *)
(* last daemon-reload.  Prompts, dry runs, the packages apt installs and   *)
(* `systemctl enable` are left out.                                        *)
(***************************************************************************)
EXTENDS Naturals

CONSTANTS
    Faults,     \* which failures of the environment may happen
    MaxOps      \* bound on installations, updates and removals

FaultKinds == {"net", "disk", "systemctl", "nft", "rm", "die", "kill"}

ASSUME LifecycleAssumption == Faults \subseteq FaultKinds /\ MaxOps \in Nat

Programs == {"old", "new", "crash", "glibc"}    \* what an archive may hold
Configs  == {"toml", "legacy"}
Dirs     == {"lib", "etc"}

Launches(b) == b \in {"old", "new", "crash"}    \* nat --version works
Serves(b)   == b \in {"old", "new"}             \* and it goes on running

VARIABLES
    bin,        \* /usr/local/bin/nat: a program, "absent" or "partial"
    units,      \* the two nat.service files: a config type, "absent" or "partial"
    loaded,     \* the unit as systemd last read it
    svc,        \* "stopped", "running", or "waiting" for RestartSec
    image,      \* what runs: its program, its configuration, and whether
                \* the file at /usr/local/bin/nat is still the one it runs from
    tables,     \* the managed tables exist
    files,      \* /etc/nat.toml, /etc/nat.conf: "absent", "empty", "default", "own"
    saved,      \* the backup directory of run_update
    job,        \* the script under way: operation, config type, payload, data mode
    pc,         \* its next step
    said,       \* what the last one reported
    ops,
    \* Observability: not in the program, read only by properties.
    before,     \* program, unit in force, service and files when the script began
    trouble     \* a command whose failure the script ignores has failed, or systemd
                \* restarted the service between the two halves of a rollback

host == <<bin, units, loaded, svc, image, tables, files>>
vars == <<host, saved, job, pc, said, ops, before, trouble>>

Fault(f)   == f \in Faults
Goto(step) == pc' = step
Ends(how)  == pc' = "idle" /\ said' = how

\* The unit systemd would read now.
InForce(u) == IF u["etc"] # "absent" THEN u["etc"] ELSE u["lib"]

NoImage == [prog |-> "absent", conf |-> "absent", same |-> FALSE]
Job(op, conf, keep) == [op |-> op, conf |-> conf, payload |-> "absent", keep |-> keep]
NoJob   == Job("none", "toml", "keep")
Nothing == [bin |-> "absent", lib |-> "absent", etc |-> "absent"]

\* A bare host, or one where the service runs the operator's rules.
Init ==
    /\ \E c \in Configs \cup {"absent"}, d \in Dirs :
         /\ bin = IF c = "absent" THEN "absent" ELSE "old"
         /\ units = [x \in Dirs |-> IF x = d THEN c ELSE "absent"]
         /\ loaded = c
         /\ svc = IF c = "absent" THEN "stopped" ELSE "running"
         /\ image = IF c = "absent" THEN NoImage
                    ELSE [prog |-> "old", conf |-> c, same |-> TRUE]
         /\ tables = (c # "absent")
         /\ files = [x \in Configs |-> IF x = c THEN "own" ELSE "absent"]
         /\ before = [bin |-> bin, conf |-> c, svc |-> svc,
                       ran |-> <<image.prog, image.conf>>, loaded |-> loaded, files |-> files]
    /\ saved = Nothing /\ job = NoJob /\ pc = "idle" /\ said = "none"
    /\ ops = 0 /\ trouble = FALSE
-----------------------------------------------------------------------------
(* systemd and the service.                                                *)

\* RestartSec is over, or `systemctl restart`: the program at the path is
\* started with the unit as loaded.
Started ==
    /\ Launches(bin) /\ loaded \in Configs
    /\ svc' = "running"
    /\ image' = [prog |-> bin, conf |-> loaded, same |-> TRUE]

Start ==
    /\ svc = "waiting"
    /\ Started
    /\ trouble' = (trouble \/ pc \in {"undoUnits", "undoReload"})
    /\ UNCHANGED <<bin, units, loaded, tables, files, saved, job, pc, said, ops, before>>

\* ExecStop runs whenever the process ends.
Dies ==
    /\ svc = "running"
    /\ image.prog = "crash" \/ Fault("die")
    /\ svc' = "waiting" /\ image' = NoImage /\ tables' = FALSE
    /\ UNCHANGED <<bin, units, loaded, files,
                   saved, job, pc, said, ops, before, trouble>>

\* The service applies its configuration, in any round.
Applies ==
    /\ svc = "running" /\ Serves(image.prog)
    /\ tables' = TRUE
    /\ UNCHANGED <<bin, units, loaded, svc, image, files,
                   saved, job, pc, said, ops, before, trouble>>

\* The operator writes rules into a configuration file.
WriteRules ==
    /\ pc = "idle"
    /\ \E c \in Configs : files[c] = "default" /\ files' = [files EXCEPT ![c] = "own"]
    /\ UNCHANGED <<bin, units, loaded, svc, image, tables,
                   saved, job, pc, said, ops, before, trouble>>
-----------------------------------------------------------------------------
(* install.sh: preparing the payload.                                      *)

Begin(j, step) ==
    /\ pc = "idle" /\ ops < MaxOps
    /\ ops' = ops + 1
    /\ job' = j
    /\ before' = [bin |-> bin, conf |-> InForce(units), svc |-> svc,
                      ran |-> <<image.prog, image.conf>>, loaded |-> loaded, files |-> files]
    /\ trouble' = FALSE
    /\ pc' = step /\ said' = "none"
    /\ UNCHANGED host

\* run_update copies the program and the units that exist; a copy that
\* fails ends the script (set -e).
BeginUpdate ==
    /\ \E c \in Configs : Begin(Job("update", c, "keep"), "copy")
    /\ UNCHANGED saved

BackupFiles ==
    /\ pc = "copy"
    /\ \/ /\ saved' = [bin |-> bin, lib |-> units["lib"], etc |-> units["etc"]]
          /\ Goto("source") /\ UNCHANGED said
       \/ Fault("disk") /\ Ends("died") /\ UNCHANGED saved
    /\ UNCHANGED <<bin, units, loaded, svc, image, tables, files, job, ops, before, trouble>>

BeginInstall ==
    /\ \E c \in Configs : Begin(Job("install", c, "keep"), "source")
    /\ saved' = Nothing

\* The menu pipes the script from curl into bash: when curl fails, bash reads
\* an empty script, and the menu takes its exit status for success.
UpdateWithoutScript ==
    /\ Fault("net")
    /\ pc = "idle" /\ ops < MaxOps
    /\ ops' = ops + 1 /\ job' = NoJob
    /\ Ends("updated")
    /\ UNCHANGED <<host, saved, before, trouble>>

Ready(p) == job' = [job EXCEPT !.payload = p] /\ Goto("install") /\ UNCHANGED said

\* Nothing has been replaced yet: the script returns 1.
NotReady == Ends("kept") /\ UNCHANGED job

\* A local binary or archive has no fallback; a release may come from a
\* mirror first.
ChooseSource ==
    /\ pc = "source"
    /\ \/ \E p \in Programs : Ready(p)
       \/ Fault("net") /\ NotReady
       \/ \E site \in {"mirror", "github", "build"} : Goto(site) /\ UNCHANGED <<job, said>>
    /\ UNCHANGED <<host, saved, ops, before, trouble>>

\* download_release_from_base, then the checks of the archive.  Only a failed
\* download of the mirror's asset (status 10) leads to GitHub; a checksum that
\* differs (11) or is not listed (12), or an archive that is damaged, leads to
\* the build from source.  Without SHA256SUMS the archive is used unchecked.
Fetch(site) ==
    /\ pc = site
    /\ \/ \E p \in Programs : Ready(p)
       \/ Fault("net") /\ Goto("build") /\ UNCHANGED <<job, said>>
       \/ /\ Fault("net") /\ site = "mirror"
          /\ Goto("github") /\ UNCHANGED <<job, said>>
    /\ UNCHANGED <<host, saved, ops, before, trouble>>

Build ==
    /\ pc = "build"
    /\ Ready("new") \/ NotReady
    /\ UNCHANGED <<host, saved, ops, before, trouble>>
-----------------------------------------------------------------------------
(* setup.sh, run by run_core_install.                                      *)

\* setup.sh exits with an error; only an update has something to put back.
Fails == IF job.op = "update" THEN Goto("undoBin") /\ UNCHANGED said
         ELSE Ends("failed")

\* `install` unlinks the old file first, so a running program keeps its own;
\* a failure may come before that (dependencies), or leave nothing or a piece.
InstallBinary ==
    /\ pc = "install"
    /\ \/ /\ bin' = job.payload
          /\ image' = [image EXCEPT !.same = FALSE]
          /\ Goto("verify") /\ UNCHANGED said
       \/ /\ Fault("disk") /\ Fails
          /\ \/ UNCHANGED <<bin, image>>
             \/ /\ bin' \in {"absent", "partial"}
                /\ image' = [image EXCEPT !.same = FALSE]
    /\ UNCHANGED <<units, loaded, svc, tables, files, saved, job, ops, before, trouble>>

\* check_binary_glibc_compat, check_installed_nat_version: the file is
\* already in place.
Verify ==
    /\ pc = "verify"
    /\ IF Launches(bin) THEN Goto("unit") /\ UNCHANGED said ELSE Fails
    /\ UNCHANGED <<host, saved, job, ops, before, trouble>>

\* The unit in /lib is written over, for the config type asked for.
WriteUnit ==
    /\ pc = "unit"
    /\ \/ /\ units' = [units EXCEPT !["lib"] = job.conf]
          /\ Goto("config") /\ UNCHANGED said
       \/ Fault("disk") /\ units' = [units EXCEPT !["lib"] = "partial"] /\ Fails
    /\ UNCHANGED <<bin, loaded, svc, image, tables, files, saved, job, ops, before, trouble>>

\* /opt/nat, its env file and the example are created (set -e), and the
\* configuration when it is missing or empty; a write that fails may leave it
\* with nothing in it.
CreateConfig ==
    /\ pc = "config"
    /\ LET kept == files[job.conf] \notin {"absent", "empty"}
           Holds(what) == files' = IF kept THEN files ELSE [files EXCEPT ![job.conf] = what]
       IN \/ Holds("default") /\ Goto("reload") /\ UNCHANGED said
          \/ Fault("disk") /\ Fails /\ (UNCHANGED files \/ Holds("empty"))
    /\ UNCHANGED <<bin, units, loaded, svc, image, tables, saved, job, ops,
                   before, trouble>>

Reload ==
    /\ pc = "reload"
    /\ \/ loaded' = InForce(units) /\ Goto("restart") /\ UNCHANGED said
       \/ Fault("systemctl") /\ Fails /\ UNCHANGED loaded
    /\ UNCHANGED <<bin, units, svc, image, tables, files, saved, job, ops, before, trouble>>

\* Verify has run the program, so it starts; it may end before the next step.
Restart ==
    /\ pc = "restart"
    /\ \/ Started /\ tables' = FALSE /\ Goto("active") /\ UNCHANGED said
       \/ Fault("systemctl") /\ Fails /\ UNCHANGED <<svc, image, tables>>
    /\ UNCHANGED <<bin, units, loaded, files, saved, job, ops, before, trouble>>

\* One look, right after the start.
IsActive ==
    /\ pc = "active"
    /\ IF svc = "running" THEN Ends("updated") ELSE Fails
    /\ UNCHANGED <<host, saved, job, ops, before, trouble>>
-----------------------------------------------------------------------------
(* rollback_update_files.                                                  *)

\* cp writes into the file at the path: not while that file is being executed,
\* and a failed copy ends the script (set -e).
RestoreBinary ==
    /\ pc = "undoBin"
    /\ \/ saved.bin = "absent" /\ Goto("undoUnits") /\ UNCHANGED <<bin, said>>
       \/ /\ saved.bin # "absent" /\ ~image.same
          /\ bin' = saved.bin /\ Goto("undoUnits") /\ UNCHANGED said
       \/ saved.bin # "absent" /\ image.same /\ Ends("died") /\ UNCHANGED bin
       \/ /\ saved.bin # "absent" /\ ~image.same /\ Fault("disk")
          /\ bin' = "partial" /\ Ends("died")
    /\ UNCHANGED <<units, loaded, svc, image, tables, files, saved, job, ops, before, trouble>>

\* Mutant: only the program is put back.
ForgetUnits ==
    /\ pc = "undoUnits"
    /\ Goto("undoReload")
    /\ UNCHANGED <<host, saved, job, said, ops, before, trouble>>

RestoreUnits ==
    /\ pc = "undoUnits"
    /\ \/ /\ units' = [d \in Dirs |-> IF saved[d] = "absent" THEN units[d] ELSE saved[d]]
          /\ Goto("undoReload") /\ UNCHANGED said
       \/ Fault("disk") /\ Ends("died") /\ UNCHANGED units
    /\ UNCHANGED <<bin, loaded, svc, image, tables, files, saved, job, ops, before, trouble>>

\* daemon-reload || true; the service is not restarted.
RollbackReload ==
    /\ pc = "undoReload"
    /\ \/ loaded' = InForce(units) /\ UNCHANGED trouble
       \/ Fault("systemctl") /\ trouble' = TRUE /\ UNCHANGED loaded
    /\ Ends("rolledBack")
    /\ UNCHANGED <<bin, units, svc, image, tables, files, saved, job, ops, before>>
-----------------------------------------------------------------------------
(* execute_uninstall of the menu goes on after every failure;              *)
(* run_uninstall of install.sh does but for a failed rm, which ends it     *)
(* (set -e).                                                               *)

\* Each step does its work, or fails and is reported as done or as a warning.
Try(f, done, left) == (done /\ UNCHANGED trouble) \/ (Fault(f) /\ left /\ trouble' = TRUE)

Aborts == Fault("rm") /\ Ends("died")

DataModes == {"keep", "keepConfig", "purge"}

BeginUninstall ==
    /\ \/ \E k \in DataModes : Begin(Job("uninstall", "toml", k), "stop")
       \/ Begin(Job("nftTables", "toml", "keep"), "tables")
    /\ UNCHANGED saved

\* Mutant: the process is killed instead of the unit stopped.
StopByKill ==
    /\ pc = "stop"
    /\ IF svc = "running"
       THEN svc' = "waiting" /\ image' = NoImage /\ tables' = FALSE
       ELSE UNCHANGED <<svc, image, tables>>
    /\ Goto("rmUnits")
    /\ UNCHANGED <<bin, units, loaded, files, saved, job, said, ops, before, trouble>>

StopService ==
    /\ pc = "stop"
    /\ Try("systemctl",
           svc' = "stopped" /\ image' = NoImage /\ tables' = (tables /\ svc # "running"),
           UNCHANGED <<svc, image, tables>>)
    /\ Goto("rmUnits")
    /\ UNCHANGED <<bin, units, loaded, files, saved, job, said, ops, before>>

RemoveUnits ==
    /\ pc = "rmUnits"
    /\ \/ /\ Try("rm", units' = [d \in Dirs |-> "absent"], UNCHANGED units)
          /\ Goto("rmBin") /\ UNCHANGED said
       \/ Aborts /\ UNCHANGED <<units, trouble>>
    /\ UNCHANGED <<bin, loaded, svc, image, tables, files, saved, job, ops, before>>

RemoveBinary ==
    /\ pc = "rmBin"
    /\ \/ /\ Try("rm", bin' = "absent" /\ image' = [image EXCEPT !.same = FALSE],
                 UNCHANGED <<bin, image>>)
          /\ Goto("tables") /\ UNCHANGED said
       \/ Aborts /\ UNCHANGED <<bin, image, trouble>>
    /\ UNCHANGED <<units, loaded, svc, tables, files, saved, job, ops, before>>

CleanupTables ==
    /\ pc = "tables"
    /\ Try("nft", tables' = FALSE, UNCHANGED tables)
    /\ Goto("data")
    /\ UNCHANGED <<bin, units, loaded, svc, image, files, saved, job, said, ops, before>>

\* Statistics go with the legacy file, backups only when everything is purged.
CleanupData ==
    /\ pc = "data"
    /\ \/ /\ Try("rm",
                 files' = [c \in Configs |->
                             IF job.keep = "purge" \/ (job.keep = "keepConfig" /\ c = "legacy")
                             THEN "absent" ELSE files[c]],
                 UNCHANGED files)
          /\ Goto("forget") /\ UNCHANGED said
       \/ job.keep = "purge" /\ Aborts /\ UNCHANGED <<files, trouble>>
    /\ UNCHANGED <<bin, units, loaded, svc, image, tables, saved, job, ops, before>>

Forget ==
    /\ pc = "forget"
    /\ Try("systemctl", loaded' = InForce(units), UNCHANGED loaded)
    /\ Ends(job.op)
    /\ UNCHANGED <<bin, units, svc, image, tables, files, saved, job, ops, before>>

\* The session is lost while a script runs.
Kill ==
    /\ Fault("kill") /\ pc # "idle"
    /\ Ends("died")
    /\ UNCHANGED <<host, saved, job, ops, before, trouble>>
-----------------------------------------------------------------------------
Preparation == BackupFiles \/ ChooseSource \/ Fetch("mirror") \/ Fetch("github") \/ Build

Setup == InstallBinary \/ Verify \/ WriteUnit \/ CreateConfig \/ Reload \/ Restart \/ IsActive

Rollback == RestoreBinary \/ RestoreUnits \/ RollbackReload

Removal == StopService \/ RemoveUnits \/ RemoveBinary \/ CleanupTables \/ CleanupData \/ Forget

Script == Preparation \/ Setup \/ Rollback \/ Removal

Next ==
    \/ BeginUpdate \/ BeginInstall \/ BeginUninstall \/ UpdateWithoutScript
    \/ Script \/ Kill
    \/ Start \/ Dies \/ Applies \/ WriteRules

Spec == Init /\ [][Next]_vars

\* Scripts go on, systemd restarts what ended, a program that crashes does so.
Fairness == WF_vars(Script) /\ WF_vars(Start) /\ WF_vars(Dies /\ image.prog = "crash")

FairSpec == Spec /\ Fairness
-----------------------------------------------------------------------------
(* Properties.                                                             *)

Runs(b, c) == svc = "running" /\ image.prog = b /\ image.conf = c

\* README.md, one-key update: "失败尝试回滚".  When an update says that it rolled
\* back, a service that was up with the unit on disk comes back with the program
\* and the unit it had, although the rollback itself restarts nothing (save when
\* systemd started it half-way: the old program with the new unit).
RollbackBringsBack ==
    /\ said = "rolledBack" /\ ~trouble
    /\ before.svc # "stopped" /\ Serves(before.bin)
    /\ before.conf \in Configs /\ before.loaded = before.conf
    ~> \/ said # "rolledBack"
       \/ Runs(before.bin, before.conf)
       \/ Runs(before.ran[1], before.ran[2])

\* An update that keeps the config type, to a program that works, ends with
\* the service serving the rules that were there.
UpdateServesRules ==
    /\ said = "updated" /\ job.op = "update"
    /\ Serves(job.payload) /\ job.conf = before.conf
    ~> \/ said # "updated" \/ job.op # "update"
       \/ /\ Runs(job.payload, before.conf)
          /\ before.files[before.conf] = "own" => files[before.conf] = "own"

\* What was running serves again after an update, whichever way it ended.
ServiceComesBack == RollbackBringsBack /\ UpdateServesRules

\* Uninstalling without a failed command leaves no process, no program and no
\* table, for good, and the operator's rules where the data mode keeps them.
UninstallLeavesNothing ==
    said = "uninstall" /\ ~trouble =>
        /\ svc = "stopped" /\ bin = "absent" /\ ~tables
        /\ InForce(units) = "absent" /\ loaded = "absent"
        /\ \A c \in Configs :
             /\ before.files[c] = "own"
             /\ job.keep = "keep" \/ (job.keep = "keepConfig" /\ c = "toml")
             => files[c] = "own"
=============================================================================
