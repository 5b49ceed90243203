# Verification of nftables-nat-rust

TLA+ models, TLC runs and TLAPS proofs for the program in this repository: the
`nat` binary, which is both the service `nat.service` (`nat-cli/src/main.rs`,
`handle_loop`) and the interactive menu (`nat-cli/src/menu.rs`), and the library
`nat-common`. Every definition is translated from the Rust source; `PROJECT.json`
gives, for each one, the file, the lines and the function.

1. [The system](#the-system): parts, state, operations, interactions
2. [What can go wrong](#what-can-go-wrong), and what correct means
3. [Modules](#modules): correspondence with the code
4. [Runs](#runs): what is checked, bounds, fairness
5. [Proofs](#proofs)
6. [Divergences](#divergences): statements of the repository that the code does not keep
7. [Not modelled](#not-modelled)

## The system

Two kinds of process work on the same files and the same kernel, with no lock
between them: one service, started and restarted by systemd, and any number of
menus an operator opens.

| part | source | state it keeps | operations | talks to |
|---|---|---|---|---|
| safe apply | `nat-cli/src/apply.rs` | `nat-diy.nft`, the backups, the managed tables (`self-nat`, `self-filter`, for ip and ip6) | check, back up, dump, load, roll back | called by the loop and the menu's refresh; runs `nft` |
| service loop | `nat-cli/src/main.rs` | hash of the last script, times of the last round of each kind | one round: quota, statistics, runtime config, rules, last-good, render, compare, apply, record | all other parts |
| manual refresh | `main.rs` (`refresh_once`) | none beyond the call | the same round without the comparison | same files and kernel as the loop |
| service unit | `setup.sh` | whether the process runs | start, restart after 60 s, `ExecStop` (deletes the managed tables) | the loop, the kernel |
| last-good cache | `nat-common/src/last_good.rs` | `last-good.json`: last successful address per rule | load, prune, update, save | the loop and the refresh |
| rule rendering | `nat-cli/src/config.rs`, `nat-common/src/lib.rs`, `geoip.rs` | none | parse and validate the configuration, one set of nft lines per rule | DNS, last-good, egress_control, dynamic whitelist |
| traffic statistics | `nat-common/src/stats.rs`, `nat-cli/src/runtime.rs`, `telegram.rs` | `stats.json` | collect, roll over, report, reset | nft counters, the loop, the menu, the quota |
| rule quota | `nat-common/src/quota.rs`, `nat-cli/src/quota_loop.rs` | `quota-state.json`; sets `enabled` in `nat.toml` | one quota round | statistics, configuration, Telegram |
| configuration store | `nat-cli/src/menu/backup.rs`, `nat-common/src/atomic.rs` | `/etc/nat.toml`, its backups | validate, back up, replace by rename, restore | menu, quota, dynamic whitelist |
| dynamic whitelist | `nat-common/src/dynamic_whitelist.rs` | `dynamic-whitelist.json` | refresh of domains and files, staleness | rendering, menu |
| menu | `nat-cli/src/menu.rs` | what a page has loaded | edit, toggle, reset, refresh, import | all files |
| audit log | `nat-common/src/audit.rs` | `audit.log` and its rotations | append, rotate, read | every operation reports to it |
| update, installation, removal | `install.sh`, `setup.sh`, `menu/update.rs`, `menu.rs` (`uninstall_menu`) | the binary, the unit, the configuration files | fetch, back up, replace, restart, check, roll back, remove | systemd, the menu |
| query page, connectivity page | `menu.rs`, `nat-common/src/forward_test.rs` | none | say what the rules do to a source, and whether a rule works | read-only |

How they meet:

* the file `/etc/nat.toml`: edited by the menu and by hand, by the quota round, by
  the whitelist; read twice in each round of the service;
* the names of domains and the keys of rules, under which the whitelist's state and
  the last-good cache are kept by one process and looked up by another;
* the file `nat-diy.nft` and the kernel's managed tables: written by the service
  and by each manual refresh;
* `last-good.json`, `stats.json`, `quota-state.json`: loaded, changed and saved as
  a whole by several processes;
* the kernel's counters: reset by every apply, read by every collection, named by
  the position of a rule among the enabled ones.

## What can go wrong

The complete list, each at its line, is under "hazards" in `PROJECT.json`. In short:

* **several steps, each with its own failure**: a rollback that meets a failed
  dump, delete or restore; a round that dies between apply and save; a quota round
  that cannot write the file it decided to change;
* **several processes without a lock**: a shared script file, load-change-save on
  each JSON file, the configuration read before a prompt and written after it;
* **something remembered in place of what it stands for**: the script's hash for
  the kernel, `last_counters` for the counters, a position for a rule, yesterday's
  bytes for today's;
* **endings**: the process exits on a failed apply, and systemd's `ExecStop` acts
  on the tables;
* **progress**: a change must reach the kernel in the end, a rule over its quota
  must leave it.

For each part that is modelled, correct means:

* safe apply: what a run reports is what happened to the kernel, all or nothing;
* service: the hash never lies, the ruleset becomes what configuration and DNS call
  for, no address gets around `egress_control`, a DNS failure keeps a rule working;
* rendering: the script does to a packet what the configuration says: sources,
  destinations, countries, ports, counters; and the pages that explain it are right;
* statistics: no byte is counted that did not pass, totals and parts agree;
* quota: a rule is disabled for its own bytes, an exceeded quota is enforced, a
  notice is sent once;
* configuration store: the file is never torn, stays loadable, keeps the saves of a
  menu apart, and what a save replaced can be restored;
* dynamic whitelist: only addresses found for configured names get in, an outage of
  DNS locks nobody out, the list follows DNS once it settles;
* update and removal: what ran before runs after, in the old or the new version; a
  removal leaves nothing but what was to be kept.

## Modules

### SafeApply, and the promise in AtomicRuleset

`SafeApply.tla` is `apply_nft_script_with` (`apply.rs:22-202`) with the two lines
before each call that create and write `nat-diy.nft`. Each external command or file
operation is one action, because another process may act between any two:

| action | code |
|---|---|
| `Begin` | a round that decided to apply its script |
| `CreateScript`, `WriteScript` | `File::create` and `write_all`; the loop ignores a failed creation, the refresh returns it |
| `Check` | `nft -c -f` |
| `BackupRuleset` | `nft list ruleset` to `.bak` |
| `ListTable` | one `nft list table` of the four, a missing table told from an error |
| `Load` | `nft -f`, one transaction |
| `DeleteTable`, `SaveRollback`, `Restore` | the rollback |
| `Kill` | the process dies |

A table's contents are `Absent`, the block of some script, or a combination of a
dump appended to a table still there; a script is a model value, or `Torn` when a
write was cut short. `outcome` is the error (or success) the function returns.
History variables (`pre`, `undisturbed`, `unlisted`, `undeleted`, `stale`,
`checked`) record what the run found and which faults it met.

`AtomicRuleset.tla` is the abstract specification: an attempt installs its whole
text or leaves what was there, and says which. `SafeApplySolo.tla` states, with
`INSTANCE AtomicRuleset WITH`, that the pipeline of one process implements it when
nothing fails but `nft -c` or `nft -f` refusing the generated script, the disk before
the kernel is touched, and (in `refresh_once`) the creation of the file. A dump, a
deletion, the save or the load of a rollback that fails, and a kill, are excluded:
each of them does break the promise. During a rollback the abstract ruleset is the
one being put back. `MCSafeApply` bounds the instance of two processes with two
scripts.

### NatService

`NatService.tla` is the round of `handle_loop` (`main.rs:141-405`) and of
`refresh_once` (`main.rs:489-591`) from the configuration to the recorded apply:

| action | code |
|---|---|
| `LoadRuntime` | `load_runtime_config`: the first read of the file, defaults when it does not parse |
| `ParseConf` | `parse_conf`: the second read; load and prune last-good |
| `Build` | resolve live or from the cache, `egress_control`, render |
| `Compare` | `check_and_prepare`, and the hash (service only) |
| `ApplyScript` | write and apply; safe apply as in `AtomicRuleset` |
| `Record` | update and save last-good, remember the hash |
| `Kill`, `ExecStop`, `Restart` | the unit of `setup.sh:250-265` |
| `StartRefresh` | the operator's refresh |
| `EditConfig`, `DnsChange` | the environment |

A script is the function from rules to the address each is sent to. The egress
allow-list stands for all the policies that come from the first read, the enabled
rules for all that comes from the second. FNV-1a hashes are taken as injective: the
hash is the script. `steady` (rules installed and recorded since) and `foreign` (the
kernel was last loaded by someone else, or from an old file) are observers.

### TrafficQuota

`TrafficQuota.tla` joins the two parts that share the positional ids: the collection
(`List`, `Load`, `Save`, `Report`: `stats.rs:347-456`, `runtime.rs:124-149`,
`telegram.rs:19-50`), the quota round (`ReadConfig` to `Mark`:
`quota_loop.rs:44-212`), the part of the service's round that installs the enabled
rules (`Refresh`, `Apply`: `main.rs:207-388`), and the menu's operations on the same
files (`ShowStats`, `BeginReset`/`ResetDaily`, `OpenToggle` to `StoreToggle`). The
parts that the intervals may leave out of a round have an action that skips them.
`Fold` is `apply_counter_snapshot_with_mode`, `Over` is `check_and_decide`. Months
repeat the logic of days and are left out; the clocks of the statistics (local time)
and of the quota (UTC) are taken as one, that is, the host runs on UTC. A torn
`stats.json` (`fs::write` truncates first) reads as an empty one, as in `load_state`.

`NatService` and `TrafficQuota` abstract each other: the first takes the enabled
rules from any edit, the second takes address changes as a `Refresh` that applies
although the rules are the same. `MCNatService` and `MCTrafficQuota` hold the
instances' constants.

### Cells, RuleBuild and the pages that explain them

`Cells.tla` is the data every other part works on: the four kinds of rule, their
validation (`lib.rs`, `NftCell::validate`), the legacy line in both directions
(`Display`, `ParseLine`, `ReadLegacy`), and the keys of the last-good cache
(`RuleKey`, `Identities`). A line is a sequence of fields, never characters;
addresses are model values of two families. `EnabledRules` (the filter of
`read_toml_config`) and `ReadLegacy` (which skips comments) keep the members of a list
at some of its places, in order (`Filtered`): each by its rank among those kept, which
for a rule is the id it gets everywhere else and what the proofs reason with.

`RuleBuild.tla` is `build_new_script_with_global` (`main.rs:1050`) and all it calls.
The script is a set of records, one per nft line, each with its chain, its place in
the chain, the sets it matches and its verdict:

| operators | code |
|---|---|
| `RemoteIp`, `ResolvedIp`, `TargetIp` | resolution, fake answers, last-good, `egress_control` |
| `AccessWithDynamic`, `AccessCondition`, `Closed`, `AccessDrop` | `access_control` with the sources found |
| `NatRules`, `RedirectRules`, `DropRule`, `CellRules` | `build_with_rule_index`, per kind of rule |
| `Postrouting`, `SnatTo`, `TrafficCounters` | SNAT and counters |
| `GeoPrerouting`, `GeoForwardRules`, `GeoSshRules`, `CnSet`, `MssRules` | GeoIP, MSS |
| `Script` | the whole |
| `Matches`, `Verdict`, `Passed`, `Journey` | netfilter, external: prerouting, nat, input or forward, postrouting |

The reference meaning is written from the configuration, not from the lines
(`Admitted`, `Asked`, `FirstAsked`, `ToAddress`, `ToPort`). The state machine is one
packet: `Init` renders a configuration, of which nft accepts the script (`Accepted`),
`Arrive` sends a packet through it.

Two inputs are not the same for everybody. The cache has two switches: the service
uses a cached address only with both on (`FallsBack`, `last_good.rs:408`), the page
shows one with the first (`menu.rs:6573`). And the legacy variable `nat_local_ip` is
an environment: `cfg.snat.legacy` is that of the process that builds the script (the
unit's `EnvironmentFile`, `setup.sh:257`, or the menu's own in a manual refresh),
`cfg.snat.shown` that of the menu's process that shows the page (`menu.rs:6709`). A
variable that is set to nothing is `Blank`: the generator writes a line without an
address (`config.rs:463`), which nft refuses, the page ignores it
(`forward_test.rs:724`).

`SourceQuery.tla` is the page that says whether a source may use the rules;
`Connectivity.tla` the one that tests a rule: what it reads from the installed ruleset
(`Presence`), how it classifies it, and what it concludes from the service's state,
the last apply and a probe (`Facts`), and its own mirror of the SNAT decision
(`SnatPlan`). What it says of a cached address is claimed for
`use_last_good_on_dns_failure` on (`AddressIsTrue`), and the address it shows where
the legacy variable decides for a menu that has the variable of the process that
built the script (`PlanIsTrue`); without these conditions, `CachedIsUsed` and `PlanIsTrueAnywhere`, it is
not true (see the divergences). `MCRuleset` holds the configurations and packets.

What the code guarantees of the data is assumed of the constants, and TLC evaluates it
on every run: `RulesetAssumption`, that each rule has the fields of its kind with the
types of `NftCell` (`IsCell`) and that modes and versions are of their enumerations; `CacheAssumption`, that the
last-good cache is as a round under the same configuration left it. The loop prunes it
by the keys of the configuration, keeps one entry for a key, resolves within the
family that is part of the key, and records the verdict of `egress_control`
(`last_good.rs:308-378`). What the page says of a cached address between a change of
the allow-list and the next round is therefore not claimed.

### RuleEdit, PolicyEdit and ConfigStore

`RuleEdit.tla` has the operations on rules (add, edit, delete, toggle, quota; port
conflicts, rule conflicts; `PruneStale` of the cache), `PolicyEdit.tla` those on the
other sections, with the validation of each. An operation is an operator from the
configuration and the answers to the set of results: empty when it is refused,
cancelled, or changes nothing. `ConfigStore.tla` runs them in processes over the one
file:

| action | code |
|---|---|
| `Ask`, `Answer`, `Cancel`, `Refused` | an operation of the menu; most load the file before the prompts, some after |
| `OpenPage`, `EditPage`, `SavePage`, `LeavePage`, `Return` | the page of the source lists, which keeps a copy while it opens other pages |
| `AskRestore`, `AnswerRestore`, `BackUp` | backups taken and restored by hand |
| `CheckQuota` | the quota round's write |
| `CopyToBackup`, `BackupFails`, `CreateTmp`, `FillTmp`, `WriteFails`, `Rename` | `safe_write_config_to` and `write_atomic` |
| `After` | the pruning of the last-good cache after an edit or a deletion |
| `Learn`, `Tick`, `Kill` | the service's round, the clock, the end of a process |

`ConfigStore` instantiates `RuleBuild` to compare the scripts of two configurations.
`ConfigStoreAssumption` says what a file that serde parsed looks like (`Shaped`), what
a prompt can answer (`Answered`: ports within `u16`, addresses of a family), and that
the file the run starts from passes its own validation. Everything else about a
configuration is for the operations to keep.

### SourceAccess

`SourceAccess.tla` follows an allowed source from the name in the configuration to
the list in the kernel: `Refreshed` is `refresh_state_with_resolver` for one domain,
`View` the expansion in use, `Merged` what `access_config_with_dynamic_whitelist`
makes of all. The service: `Wake`, `Resolve`, `Save`, `GiveUp` (a bad source file
ends the round), `Apply`, the two timers, `Restart`. The menu has two pages:

| action | code |
|---|---|
| `Edit` | the page of the DDNS sources, each change loaded, made and saved at once; a deletion goes on with `MenuLoadsToPrune`, `MenuSave` |
| `MenuRefresh`, `MenuResolve`, `MenuSave` | its refresh by hand |
| `OpenPage` | `access_control_menu` loads a copy of the configuration (`menu.rs:2789`) |
| `PageEdit` | choices 2 to 7: switch of the mode, entries added, removed, cleared, in the copy only (`menu.rs:2829-2884`) |
| `SavePage` | choice 12: the copy is validated and saved (`menu.rs:2904-2909`) |
| `LeavePage` | back, or on to another page after which the copy is loaded anew |

Around them: `SetDns`, `SetFile`, `LoseState`. The lock check of a switch to whitelist
is `WarnsOfLock`; it looks at the copy and at the state file of that moment, and
neither the later choices nor the save look again. The history variables `menu.vetted`
(this copy was switched without a warning, outside a round with its domains, and
nothing was taken out of it since) and `assured` (such a copy is in the file, and the state file
is still what rounds with its domains made of it) mark what `LockCheckTrue` speaks of.

### Lifecycle

`Lifecycle.tla` is `install.sh`, `setup.sh`, the menu's update and uninstall pages,
one action per command that can fail or be interrupted, beside systemd:

| action | code |
|---|---|
| `BeginUpdate`, `BeginInstall`, `BeginUninstall`, `UpdateWithoutScript` | the ways in; the last one is `curl` failing in `curl ... \| bash` |
| `BackupFiles`, `ChooseSource`, `Fetch`, `Build` | preparation (local archive, mirror, GitHub, source) |
| `InstallBinary` to `IsActive` | `setup.sh`: install, check that it runs, unit, configuration, reload, restart, check |
| `RestoreBinary`, `RestoreUnits`, `RollbackReload` | `rollback_update_files` |
| `StopService` to `Forget` | removal, step by step |
| `Start`, `Dies`, `Applies` | `Restart=always`, `ExecStop`, the loop |

A program is known by what it can do: start, go on running, or neither. Where the
shell runs under `set -e` a failed command ends the script: in `setup.sh` at the
creation of the configuration too, which may leave an empty file (`CreateConfig`), in
the removal of `install.sh` at its `rm`s (`Aborts`, `install.sh:703-710`). Where
`install.sh` adds `|| true` and where the menu takes the result with best effort it
does not, and `trouble` remembers it.

## Runs

`SafeApply_*`, `SafeApplySolo`, `NatService_*` and `TrafficQuota_*` are checked for
deadlock as well; none of these systems may stop. In `Ruleset` (one packet),
`ConfigStore`, `SourceAccess` and `Lifecycle` (a number of operations) it may, and
`CHECK_DEADLOCK FALSE` says so.

| run | properties | instance |
|---|---|---|
| `SafeApply_solo` | `TypeOK`, `NoSilentOutage`: no table is lost unless the run says that its rollback failed | one process, 4 tables, 2 scripts, every fault any number of times |
| `SafeApply_pair` | `RolledBackRestores`, `KeptUntouched`, `SuccessInstalls`: each outcome is true of the kernel, for a run no other overlapped, whatever state overlapping runs left | service and menu, 2 scripts, 2 tables, faults create, delete, kill; at most 2 rule blocks in a table; 3213937 states up to `SYMMETRY` and `VIEW` |
| `SafeApplySolo` | `KeepsPromise`: the pipeline implements `AtomicRuleset` | one process, 4 tables, 3 scripts, faults create, disk |
| `NatService_alone` | `TypeOK`; `HashMatchesKernel`, `OnePolicyAdmits`; `DnsOutageKeepsRule`, `Converges` | 2 rules, 2 addresses, 2 allow-lists, 3 changes, 2 faults; whole-file edits |
| `NatService_menu` | `ConvergesIfOwn`: as `Converges`, when the last script loaded was the service's own | 1 rule, service and menu, half-written files, 2 changes, 1 fault |
| `TrafficQuota_service` | `NeverOvercounts`, `Ledger`, `FirstDisabledByOwnTraffic` | 2 rules, 2 bytes, 2 days, one look or reset by an operator, 1 fault |
| `TrafficQuota_live` | `NoticesDeduplicated`, `QuotaEnforced` | 2 rules, 2 bytes, one toggle, 1 fault |
| `TrafficQuota_cascade` | violation: `DisabledForOwnTraffic` | 2 rules, 3 bytes, no fault |
| `Ruleset` | `AccessHolds`, `EgressHolds`, `GeoHolds`: the policies are closed; `RoutesAsConfigured`, `TrafficIsCounted`: the script means the configuration; `PageIsTrue`, `PlanIsTrue`, `QueryIsTrue`: the pages agree with it; `LinesRoundTrip`: the legacy file gives the rules back | every pair of 13 rules, under the variants of one policy and under GeoIP combined with `access_control`; environments of service and menu alike and different, last-good used, shown only and off; 26 packets; 253152 states |
| `ConfigStore` | `NeverTorn`, `StaysLoadable`, `EditsStayApart`, `KeepsItsOwnSaves`, `ReplacedIsKept`: what a save may do to the file; `SaysTrue`: what the menu says of it and what the audit line gives back; `CacheKeepsToItsDomain` | 2 menus and the quota check, 2 operations, 1 fault, 2 seconds |
| `SourceAccess` | `SourcesAreResolved`, `WidthFollows`; `OutageKeepsSources`, `LockCheckTrue`, `Settles` | 2 domains of one name, an empty whitelist at first, 3 saves, refreshes, changes of DNS or file and faults together, of them 1 fault; 687017 states |
| `Lifecycle` | `UninstallLeavesNothing`, `ServiceComesBack` | 2 operations, every failure, a bare host or a running service; 1147230 states |

Why the bounds are enough.

* Safe apply treats the four tables alike and in a fixed order, so two tables show
  every mix of done and not yet done, and the run with four shows the real list. Two
  scripts, in all three runs, tell "mine" from "the other's" and "the one before".
  Faults are not bounded. In `SafeApply_pair` a state in which a table holds more than
  `MaxBlocks` = 2 blocks (a restore on top of a table that could not be deleted, twice)
  is not followed; scripts are symmetric, since no definition tells one from another;
  and `View` leaves out what is recorded of a run that another one overlapped, of which
  no property speaks, and texts that no further step reads.
* In `NatService` rules are rendered one by one; two suffice for one that resolves
  beside one that does not, and two allow-lists with one address each make every
  address tell under which list it was admitted. Three changes are: break, repair,
  break again; two faults are one and another during the recovery.
* In `TrafficQuota`, with a daily and a total quota of two bytes, disabling the first
  rule moves the id of the second; two bytes reach either limit; two days contain one
  rollover with traffic before and after it. `NeverOvercounts` and
  `FirstDisabledByOwnTraffic` speak of the behaviours in which no operator interfered
  (`edits = 0`); `Ledger` of all.
* In `Ruleset` lines of two rules can shadow, count for or leak into each other only
  in pairs; the 13 rules contain every kind, every address family and protocol
  setting, overlapping ranges, a shared target, a disabled rule, and targets that are
  literals, names of one or both families, names that fail, fake answers and this
  host. One policy is varied at a time because each has a chain, a position or a
  clause of its own; GeoIP is varied in all its switches, and together with
  `access_control`, since the source query joins the two into one answer.
* In `ConfigStore` the operations that touch each other's data (`MCOps`) are run in
  every interleaving of two, by two menus and the quota check; the others (`MCAlone`),
  of which each appears at the limits of what its checks let through, one at a time.
  A file named by the second meets another within the same second and in the next.
* In `SourceAccess` two domains are enough for a name that comes to stand for the
  other; three changes are, for instance, the save of a switch, an outage and a lost
  file. What is done to a copy on the page before it is saved is not bounded.
* In `Lifecycle` two operations are an installation and its removal, or an update on
  top of an update; each program and each failure is in the choice of every step.

The case that each property is about does happen under these bounds: for each
property, a mutant of a mapped definition, of the kind a bug in the code would be,
violates it under the run's own configuration (`mutants` in `PROJECT.json`; the
mutated forms stand before the definitions they replace). A few examples: a dump one
table short, a reset of counters recognised by distance, counters on the listening
port, an id taken as a prefix, one temporary name for all, a page that goes on with
its old copy, addresses found by name alone, a removal that deletes the tables before
it stops the service.

Fairness.

* `NatService`: the loop sleeps for at most `MAIN_LOOP_MAX_SLEEP_SECS` (5 s,
  `runtime.rs:76-97`) and each call in it has a timeout or ends, and systemd restarts
  the process whenever it ends (`Restart=always`, `RestartSec=60`), so the service's
  steps are weakly fair; a refresh that was started goes on; starting one, editing
  and DNS are not fair. Faults and edits are finite, as "eventually" needs.
* `TrafficQuota`: the service is weakly fair; the interval of each part makes it due
  again and again, so that `ReadConfig` and `Refresh`, which compete with the action
  that skips them, are strongly fair; nothing obliges an operator to answer a prompt,
  so the toggle has no fairness, and the steps of the menu that need no operator
  have. Collection needs none: `QuotaEnforced` starts from a credit already in the
  file.
* `SourceAccess`: weak fairness of each step of the loop and of the two timers, for
  the same reason; none for the menu or the world. `Settles` supposes that DNS does.
* `Lifecycle`: a script goes on by itself (weak fairness of `Script`), systemd starts
  what is waiting (`Start`), and a program that crashes does so. Nothing obliges an
  operator to begin anything, and no fairness is needed of the failures.

## Proofs

Proved with TLAPS for every value of the constants that satisfies the `ASSUME`s of
the modules: any number of processes, tables, scripts, rules, addresses, packets.

* `SafeApply_proofs`: `TypeCorrect`, and `RollbackSafe`, `KeptSafe`, `SuccessSafe`,
  `OutageSafe`, one for each safety property of `SafeApply`. The properties speak of
  the end of a run, so none is inductive. `IInv` is the strengthening (theorem
  `Invariant`): for a run that no other overlapped, the script file holds the run's
  text once it was written; each table is as found until the load; the dumps made so
  far are the contents found; during the rollback, tables deleted so far are absent
  or were not deletable, and the text to restore is made of the dumps. An overlapping
  run drops out of the invariant (`undisturbed`) at the step at which it begins,
  which is why the proof needs nothing about the other process. Two sentences of the
  documentation that fail in general (see below) are proved under the condition that
  is missing: `AloneLoadsWhatItChecked`, of a single process, whatever fails, and
  `RollbackRestoresAll`, of any number of processes, when no dump and no delete fails.
* `SafeApplySolo_proofs`: `Refinement`, that `SafeApply` implements
  `AtomicRuleset` under the assumptions of `SafeApplySolo`: one process, and no failure
  but a script that nft refuses, checked or loaded, the disk before the kernel is
  touched, and the creation of the file in `refresh_once`. It says nothing of failed
  dumps, deletions, saves, restores and kills; what holds of those is in
  `RollbackSafe`, `KeptSafe`, `SuccessSafe` and `OutageSafe`. `Begin` and the step that
  decides map to the abstract actions, every other step to a stutter.
* `NatService_proofs`: `TypeCorrect`; `HashSafe`, from the invariant that adds the
  two moments at which the hash is not the witness (between apply and record the
  round's script stands for it; a service that is not running has none); `PolicySafe`,
  under `HandEdits = FALSE`, from the invariant that every text in the pipeline (the
  round's script, `nat-diy.nft`, the kernel) was rendered under one configured list and
  that the list a round holds is a configured one. The assumption is needed: with it
  dropped, TLC finds the divergence below. `OutageKeepsRule`, under `Procs =
  {Service}`, from `OutageInv`: an installed and recorded rule has the address of the
  kernel in `last-good.json` (`Kept`), a round that has read the cache holds it too
  (`Seen`), and the script of a round is what its live and cached addresses come to
  (`Chosen`). With a menu beside the service it fails, see below.
* `RuleBuild_proofs`: `AccessAlwaysHolds`, `EgressAlwaysHolds`,
  `TrafficAlwaysCounted`, for every configuration, DNS answer, cache and packet. The
  argument goes from lines to packets. First, what each line of the script is:
  a translating line carries the sources of `access_control` and comes with the
  counters of its target (`NatRulesLine`, `RedirectLine`), and lines of the other
  policies are in other chains (`OtherChains`, `ScriptLine`); a final line of
  `FORWARD` is a drop rule (`ForwardLine`). Then, what the first
  matching line decides (`VerdictFirst`, `JourneyTranslated`). A blacklist needs more
  than its line: the drop stands before the translation of the same rule, so a packet
  of a listed source that reached the translation would have been dropped by it
  (`AccessOfPacket`). The invariant `Judged` says that the fate on record is that of
  the packet in the script of the configuration.
  On top of it, in the same module, `RoutesAlwaysAsConfigured` and `GeoAlwaysHolds`.
  Here the line that decides has to be known, not only what it is like. `ChainOfScript` says
  of any line whether it stands in the nat chain of a script; `LineMatches` which
  packets it matches; the first rule that asks for a packet exists because the naturals
  are well-founded (`Least`, from `WFMin`), and its line stands before every other that
  matches (`NatDrops`, `NatTranslates`, `VerdictIs`). For GeoIP the same argument in the
  chain of its own (`GeoDrops`), and that a rule with an IPv4 line is in the summary
  that chain is made of: what it resolved to fits its version (`TargetFits`).

  Last, the three pages, from the same lemmas on lines. `QueryAlwaysTrue`: a source the
  query calls refused is not translated, and one it allows is, by cases of which of
  `access_control` and GeoIP decided (`MissIsDropped`, `YesIsServed`). `PlanAlwaysTrue`:
  the page's mirror of `resolve_snat_action` and the POSTROUTING line of the rule name
  the same address (`SnatLine`), if the environments agree or the variable does not
  decide (`FromVariable`). `PageAlwaysTrue` has one lemma for each conjunct: the
  line that a rule called normal is identified by is the rule's own where its place in
  the file is its rank (`SameId`, see below; `PlaceOf`, `LineById`, `NormalTrue`); a line of each family of the rule, and the
  two counters when it goes to another host, are then present, so nothing applied is
  called half applied (`OwnFamilies`, `OwnCounters`, `AlarmTrue`); the words of the
  sections follow from that of the classification (`ClassifiedWords`, `SectionsTrue`);
  and the address shown comes from the answer or the cache entry the service uses
  (`ShownIs`, `EntryIs`, `AddressTrue`), where `CacheAssumption` is needed, and of an
  entry that the service may use it (`use_last_good_on_dns_failure`).

  Apart from packets, `LinesAlwaysRoundTrip`: for any list of valid rules the legacy
  file is valid and read back as these rules. Reading the file is reading each line
  after the comment that `Display` puts first (`FilteredRest`); a line is
  read back by kind of rule (`NatBack`, `RedirectBack`, `DropBack`). The line of a drop
  rule has a field only for what is set: each field adds what it says of its own key
  and nothing to what the line says of another one (`FieldAdded`), and a key that no
  field mentions is read as unset (`MentionedText`, `MentionedPorts`).
* `SourceAccess_proofs`: `TypeCorrect`, `ResolvedOnly` and `WidthSafe`, from `IInv`:
  every state in a file, in the service or in a menu (`EntryOk`) holds only addresses
  that its domain was seen to have and that fit the families asked for, and its
  expansion is that of the width it records; the list in force is then made of
  such addresses, under the configuration the round had (`basis`). `OutageSafe` adds
  `Kept`: while only look-ups fail, the stored state and the one of a round under way
  cover every address in force, and hold nothing for a domain but what it still
  resolves to (`Steady`). `LockCheckSafe` adds `Assured`: from
  the check on, some entry of the list or some good address of an enabled domain is in
  the state file, in the round under way and, once its look-ups are done, in use. It is
  kept for two configurations at once: the copy on the page while it is `vetted`
  (`Open`), whatever the service resolves and saves before the operator saves, and the
  file's once the copy is saved (`PageEditOk`, `SetEntries`, `OpenSaves`). Both theorems
  need that no domain is listed twice with two switches (`OneSwitchEach`): the entry
  that is off empties the list that the other needs.
* `ConfigStore_proofs`. First, about the operations alone: each changes one section
  (`Edits`, `SectionOf`) and turns a configuration the service can load into another
  one (`Sound`), whatever was answered; 24 operations on policies and those on rules,
  one lemma each. Then `Inductive`, the invariant of the writers: whoever is about to
  save holds such a change of what it loaded (`Prepared`); where the file has become
  something else than it loaded, another process wrote that section last
  (`UpToDate`); what is about to be replaced is in the backups, unless another wrote in
  between (`Secured`); at the rename its own temporary file is whole (`Filled`); cache
  entries are under the keys of their domains (`CacheHolds`). From it `RenameWhole`,
  `LoadableStays`, `EditsSafe`, `OwnSavesKept`, `SavesTellTheTruth`, `BackupKept` and
  `CacheSafe`, for any file, answers, number of menus, faults and seconds.
* `TrafficQuota_proofs`: `NoticesAlwaysDeduplicated`, `AlwaysUndercounts` and
  `FirstAlwaysOwn`. For the first, `NInv`: a key that is in neither `quota-state.json`
  nor the copy of a round between its decision and its save has been notified only as
  often as there were excuses. For the second, `CInv`: while no operator interfered, each copy of the
  statistics (the file, and the one in memory) satisfies total + counter - last <=
  passed, so that folding any listing taken since the counters began cannot pass what
  passed (`FoldIsBacked`); an emptied file and reset counters keep it. The third adds
  `OInv` to it: while every rule is still enabled, a chain and a configuration that were
  read hold all the rules or none, so that an id is the place of its rule
  (`PlaceOfAll`) and what an id was credited with went through that very rule; no day
  exceeds its total; and a round decides on the file it read. `LedgerAlwaysBalances`
  is by `LInv`: every copy of the statistics, in the file and in a process, is
  `Balanced`. Both sides are sums over all ids, and the library defines a sum by a
  `CHOOSE` of the function of all partial sums; that this function exists, and that
  adding to one id adds to the sum, is shown by a least subset for which it fails,
  which needs no induction theorem.
* `Lifecycle_proofs`: `UninstallAlwaysLeavesNothing`. `IInv` is what each step of the
  removal rests on: after `systemctl stop` nothing is started, so that what the later
  steps remove stays removed; a step met by a failure sets `trouble` or ends the
  removal, and drops out.

Only model-checked: liveness (`Converges`, `ConvergesIfOwn`, `QuotaEnforced`,
`Settles`, `ServiceComesBack`), which is beyond the prover. Every other property of a
passing run is stated by a theorem.

Four proofs did not go through at first, for good reasons:

* `QueryIsTrue` said that a source which GeoIP refuses is dropped. It is not when the
  whitelist is closed for its family, for then there is no chain to drop it in: it is
  only left untranslated. TLC confirmed it as soon as the instance combined the two
  policies; the property now tells the two apart.
* `SnatTo` and `ForwardPorts` had `CASE`s with overlapping arms, of which TLA+ says
  nothing; TLC takes the first, as the code does. They are now nested conditions.
* `AddressIsTrue` needs the program to be switched on: while it is off, rounds leave an
  older verdict in the cache.
* `LinesRoundTrip` failed for a drop rule that has the end of a port range and no start:
  the validation accepts it, and `Display`, which writes an end only after a start,
  loses it. The rule means the same without it; `InLine` now forgets the end, and the
  instance has such a rule.

## Divergences

The first has a run and an entry under "findings". The next ones were met while the
models were written; each is stated as a property in its module, and TLC finds it
violated when it is checked under the constants given.

| statement | what the code does | property, constants |
|---|---|---|
| `quota.rs:3`: a rule is disabled when its own bytes reach the quota | the next rule inherits the id and the bytes of the disabled one (`quota.rs:127`) | `DisabledForOwnTraffic`, run `TrafficQuota_cascade` |
| `README.md:83`: a failed apply rolls back by itself | the process exits after the rollback and `ExecStop` deletes the tables until the restart (`setup.sh:259`) | `FailureKeepsRules` in `NatService`, `Faults = {"apply"}` |
| `README.md:78`: the service detects a change and applies it | an older script loaded by a manual refresh stays, the hash in memory being unchanged (`main.rs:331`) | `Converges`, service and menu, no fault |
| the rollback restores the managed tables | a table whose dump failed is deleted and not restored, the error is the same (`apply.rs:119`) | `RollbackRestoresPrior`, `Faults = {"list"}` |
| `README.md:83`: `nft -c` before apply | the file can be replaced between check and load by the other process (`apply.rs:36`) | `AppliedWasChecked`, two processes, no fault |
| `README.md:78`: changes are applied | when `nat-diy.nft` cannot be created the loop applies the old one and remembers the new hash (`main.rs:345`) | `Converges`, service alone, `Faults = {"create"}` |
| README: last-good never bypasses `egress_control` | a file that does not parse at the first read and parses at the second is rendered without the allow-list (`main.rs:675`) | `OnePolicyAdmits`, `HandEdits = TRUE` |
| README: a DNS failure reuses the last address | a manual refresh writes back the cache it loaded before the service updated it (`main.rs:238`) | `DnsOutageKeepsRule`, service and menu |
| `quota.rs:82`: the next excess after re-enabling is notified | the menu clears the id of the place in the file, the quota counts enabled rules only (`menu.rs:7531`) | `ReenabledIsNotified`, `MenuOps = {"toggle"}` |
| `quota.rs:3`: the current period counts | a round after midnight and before the next collection uses yesterday's bytes (`quota.rs:149`) | `CurrentPeriodDecides`, service alone, `MaxDay = 2` |
| README: traffic is counted by the counters | an older listing folded after a newer one makes the next collection count bytes twice (`stats.rs:444`) | `NeverOvercounts` without `edits = 0`, `MenuOps = {"show"}` |
| `CHANGELOG.md:14`: the address of a rule's own SNAT is used for that rule only | the POSTROUTING line matches address, protocol and port of the target, which two rules may share (`config.rs:524`) | `OwnSnat` in `RuleBuild`, constants of run `Ruleset` |
| `menu.rs:6588`: "last-good (ip)" is shown where the cache is used, "none" where not | the page reads `last_good.enabled` only (`menu.rs:6573`); with `use_last_good_on_dns_failure` off it shows a cached address as allowed and the rule has no line (`last_good.rs:413`) | `CachedIsUsed` in `Connectivity`, constants of run `Ruleset` |
| `forward_test.rs:704`: the mirror agrees with `resolve_snat_action` | the page reads `nat_local_ip` of the menu's process (`menu.rs:6709`), the service that of `/opt/nat/env` (`setup.sh:257`) | `PlanIsTrueAnywhere` in `Connectivity`, constants of run `Ruleset` |
| `CHANGELOG.md:39`: a prompt against locking oneself out when the whitelist is empty | the check belongs to the switch (`menu.rs:2838`); switch, clear the entries, save is silent (`menu.rs:2909`) | `NoSilentLock`, constants of run `SourceAccess` |
| `README.md:137`: the addresses of the DDNS domains join the list | two enabled domains of one name and one domain share the first state entry (`dynamic_whitelist.rs:125`) | `EveryDomainCounts`, run `SourceAccess` with `Edits <- MCEditsAgain` |

Others follow from reading the code beside the models; no property states them.

* *Pages.* A rule is looked up by its place in the file and marked in the ruleset by
  its place among the enabled ones, so that after a disabled rule the connectivity
  page speaks of another rule (`NormalIsTrue` and `NoFalseAlarm` exclude it,
  `SameId`), and so do the page's last-good label and the menu's quota pages
  (`menu.rs:443`, `2505`, `7525`). A rule to a target for `all` families is reported
  half applied for ever. IPv6 targets are never probed (the address is joined to the
  port without brackets). The page ignores `nat_local_ipv6`, which `config.rs:482`
  obeys, and finds a rule's SNAT in any rule. It speaks of `egress_control` for a
  redirect, which is not subject to it. An entry of the cache that was once blocked
  stays so when it is used again after the list has changed (`last_good.rs:353-378`), so
  that the page can call an address in use blocked. The query page ignores
  `file_sources` (`menu.rs:3186`).
* *GeoIP.* A missing or empty set turns the restriction off. A rule for `all`
  families whose name resolved to IPv6 still gets the IPv4 lines of GeoIP and MSS.
  The MSS line matches all forwarded TCP to its port, not only its rule's.
* *Legacy lines.* In `DROP` the last protocol word wins and a field without `=` is
  ignored; `read_config` does not validate. The end of a port range without a start
  is accepted, and lost in the line. Drop rules with ports and protocol `all`
  are refused; an IPv4 source with an IPv6 destination is accepted, and then refused by
  nft.
* *Configuration store.* Load-prompt-save loses what another process saved in
  between, the quota's disabling included. `README.md:84` promises that any failing
  step keeps the old file: the backup, made with `fs::copy`, can be left cut short,
  and a restore writes it unread. Adding or enabling a rule does not ask whether it
  conflicts with another one, only editing does. A notice is cleared before the
  configuration is saved. `last_good.rs:209`, `quota.rs:50` and `geoip.rs:28` use one
  name for everybody's temporary file, `atomic.rs` one per process.
* *Service.* An interval below 10 s in the file ends the loop, and systemd restarts it
  into the same (`main.rs:153`). A kill between the quota's write and its notices
  loses them (`quota_loop.rs:206`).
* *Sources.* The lock check counts last-good addresses that no round would use before
  the next look-up, and neither counts the source files nor looks at the
  families. A domain listed twice, on and off, has the list of the one that is on
  emptied by the one that is off. A round begun before a switch of mode may save over
  the state that the lock check looked at. A clock set back delays the next look-up. A state file that could not be
  saved leaves an outage with older addresses.
* *Update.* When `curl` fails, `bash` ends with 0 and the menu reports
  success (`update.rs:83`). A legacy installation updated without `NAT_CONFIG_TYPE`
  gets the unit of `/etc/nat.toml`, with no rules in it. `is-active` right after the
  restart is true of a program that is about to crash. `cp -a` onto a running binary
  fails (`ETXTBSY`) and, under `set -e`, ends the rollback; a restart by systemd between
  the two halves of a rollback runs the old program with the new unit. An uninstall
  reports success whatever its commands returned.

## Not modelled

* *Inside modelled parts*: check-only; the preparation of `ip_forward` beyond its
  failure; statuses and times in `last-good.json`; monthly bytes and the traffic
  mode; the exact times of the loop (the timers are actions under fairness); the
  manual refresh's own collection; the change notices of the whitelist; dry runs and
  the installation of packages; the views of the menu that only print.
* *The audit log*: lines are appended and rotated with best effort and without a
  lock, so two processes that rotate at once can lose some (`audit.rs:95-152`);
  nothing promises otherwise and no decision is taken from them, save a line of the
  connectivity page, which has it as an input (`Facts`).
* *Hash and logging*: FNV-1a is taken as injective on the scripts of a model; a logger
  has no state.
* *Texts*: TOML, JSON, nft syntax and the wording of messages. What a text means is
  modelled (a script by its lines, a legacy line by its fields), what it looks like is
  not. Serialisation is `serde`'s.
* *netfilter, systemd, DNS, `nft`*: modelled as the code uses them, and marked external
  in `PROJECT.json`.

What would extend the project: the months of the statistics beside the days, with the
two time zones; the manual refresh's collection inside `TrafficQuota`.
