----------------------------- MODULE ConfigStore -----------------------------
(***************************************************************************)
(* /etc/nat.toml and those who write it: the menus operators have open     *)
(* (nat-cli/src/menu.rs, menu/backup.rs) and the quota check of the        *)
(* service (quota_loop.rs).  Each loads the file, works on its copy, and   *)
(* saves all of it: backup, temporary file, rename (nat-common/atomic.rs). *)
(*                                                                         *)
(* A process is at                                                         *)
(*   "idle"    in the main menu,                                           *)
(*   "asked"   in the prompts of an operation,                             *)
(*   "page"    in the page of the source lists, editing its copy,          *)
(*   "backup", "create", "fill", "rename"   in safe_write_config_to,       *)
(*   "after"   past the rename.                                            *)
(***************************************************************************)
EXTENDS PolicyEdit

CONSTANTS
    Menus,          \* the menus that are open
    Ops,            \* what their operators ask for,
    Alone,          \* and what one asks for when nothing else happens (a bound)
    PageOps,        \* what they do on the page of the source lists
    Start,          \* the file at first
    StartCache,     \* the last-good cache at first
    Ip(_),          \* the address a name resolves to
    Zones,          \* the time zones the system knows
    Over,           \* the rules over their quota
    MaxOps,         \* bound on the operations begun
    MaxFaults,      \* bound on failures and kills
    MaxClock        \* bound on the seconds that pass

\* What the file is parsed to: its sections, and the fields of those that have
\* some.
Fields ==
    [access |-> {"mode", "entries"}, dw |-> {"enabled", "interval", "cidr", "domains"},
     geo |-> {"enabled", "forward", "ssh", "sshPort", "hours"}, egress |-> {"enabled", "allowed"},
     snat |-> {"mode", "fixed"}, mss |-> {"enabled", "size"},
     telegram |-> {"enabled", "token", "minutes"}]
Sections == DOMAIN Fields \cup {"global", "rules", "traffic", "timezone"}

HasFields(r, fields) == r = [f \in fields |-> r[f]]
IsList(s) == s \in Seq({s[n] : n \in DOMAIN s})
DomainFields == {"name", "domain", "enabled"}
CellShaped(c) ==
    /\ c.type \in {"single", "range", "redirect", "drop"}
    /\ IsForward(c) => /\ HasFields(c, DOMAIN Single(1, 1, NoText, "all", "all"))
                       /\ c.lo \in Int /\ c.hi \in Int
Shaped(c) ==
    /\ HasFields(c, Sections)
    /\ \A f \in DOMAIN Fields : HasFields(c[f], Fields[f])
    /\ IsList(c.dw.domains)
    /\ \A n \in DOMAIN c.dw.domains : HasFields(c.dw.domains[n], DomainFields)
    /\ IsList(c.rules) /\ \A n \in DOMAIN c.rules : CellShaped(c.rules[n])

AddsRule(o) == o.op \in {"rule.add.single", "rule.add.range"}

\* What the prompts can be answered with.
Answered(o) ==
    /\ AddsRule(o) => CellShaped(o.rule)
    /\ o.op = "dynamic_whitelist.domain.add" => HasFields(o.domain, DomainFields)
    /\ o.op = "rule.edit" /\ o.patch.sport # <<>> =>
            o.patch.sport[1] \in Int /\ o.patch.sport[2] \in Int

\* An address in the cache is that of the domain of its rule, which the key
\* ends with.
Cached(e) ==
    /\ HasFields(e, {"id", "key", "domain", "ip"})
    /\ e.ip = Ip(IF e.key = NoKey THEN e.domain ELSE e.key[6])

ASSUME ConfigStoreAssumption ==
    /\ {"service", "nobody"} \cap Menus = {}
    /\ Shaped(Start) /\ ConfigValid(Start)
    /\ \A e \in StartCache : Cached(e)
    /\ \A o \in Ops \cup Alone : Answered(o)
    /\ \A o \in PageOps : o.op \in {"mode", "add", "delete", "clear"}
    /\ MaxOps \in Nat /\ MaxFaults \in Nat /\ MaxClock \in Nat

Processes == Menus \cup {"service"}

VARIABLES
    file,       \* the file in place
    tmp,        \* the temporary files, by name
    backups,    \* the backup directory: contents by <<reason, second>>
    cache,      \* last-good-state.json
    proc,       \* where each process is, its copy, and whether it is on the page
    clock,      \* the second of the wall clock
    writer,     \* history: who last changed each section of the file
    ops, faults \* how many operations and failures there were

vars == <<file, tmp, backups, cache, proc, clock, writer, ops, faults>>

RB == INSTANCE RuleBuild WITH
        Configs <- {}, Packets <- {}, config <- file, script <- {}, packet <- {}, out <- {}

\* A file cut short: it does not parse.
Broken == [broken |-> TRUE]
Absent == [absent |-> TRUE]
Loadable(x) == x \notin {Broken, Absent} /\ ConfigValid(x)

NoOp == [op |-> "none"]
Idle == [at |-> "idle", op |-> NoOp, copy |-> Absent, base |-> Absent, page |-> FALSE]

\* One process, one temporary file; a fixed name would be everybody's.
TmpShared(p) == "tmp"
TmpOf(p) == p

------------------------------------------------------------------------------
(* The operations, by the reason they save with.                            *)

\* The rest load first and keep that copy through their prompts.
LoadsLast(o) == AddsRule(o) \/ (o.op = "snat.mode.update" /\ o.address = NoText)

OfRules(o, rules) ==
    CASE AddsRule(o)           -> AddRule(rules, o.rule, o.ss, o.yes)
      [] o.op = "rule.edit"    -> EditRule(rules, o.n, o.patch, o.ss, o.yes)
      [] o.op = "rule.delete"  -> DeleteRule(rules, o.n)
      [] o.op = "rule.toggle"  -> ToggleRule(rules, o.n, o.on)
      [] o.op = "quota.config.update" -> SetRuleQuota(rules, o.n, o.field, o.value)
      [] OTHER -> {}

OfPolicies(o, c) ==
    CASE o.op = "access_control.ssh_source.add"   -> AddSshSource(c, o.entry, o.yes)
      [] o.op = "dynamic_whitelist.domain.add"    -> AddDomain(c, o.domain)
      [] o.op = "dynamic_whitelist.domain.delete" -> DeleteDomain(c, o.n)
      [] o.op = "dynamic_whitelist.domain.toggle" -> ToggleDomain(c, o.n)
      [] o.op = "dynamic_whitelist.interval.update" -> SetSourceInterval(c, o.seconds)
      [] o.op = "dynamic_whitelist.cidr_expand.update" -> SetExpansion(c, o.bits, o.yes)
      [] o.op = "geoip.forward.update"         -> ToggleGeoForward(c, o.yes)
      [] o.op = "geoip.ssh.update"             -> ToggleGeoSsh(c, o.yes)
      [] o.op = "geoip.ssh.port.update"        -> SetSshPort(c, o.port)
      [] o.op = "geoip.update_interval.update" -> SetGeoHours(c, o.hours)
      [] o.op = "egress_control.update"        -> ToggleEgress(c, o.yes)
      [] o.op = "egress.add"                   -> AddEgress(c, o.entry)
      [] o.op = "egress.delete"                -> DeleteEgress(c, o.entry)
      [] o.op = "global.enabled.update"        -> SetGlobal(c, o.on, o.yes)
      [] o.op = "snat.mode.update"             -> SetSnatMode(c, o.mode, o.address, o.yes)
      [] o.op = "snat.fixed_source_ip.update"  -> SetFixedSource(c, o.address)
      [] o.op = "mss_clamp.toggle"             -> ToggleMss(c, o.yes)
      [] o.op = "mss_clamp.size.update"        -> SetMssSize(c, o.size)
      [] o.op = "telegram.config.update"       -> ConfigureTelegram(c, o.token, o.on)
      [] o.op = "telegram.toggle"              -> SwitchTelegram(c, o.on)
      [] o.op = "telegram.interval.update"     -> SetTelegramMinutes(c, o.minutes)
      [] o.op = "stats.mode.update"            -> SwitchTrafficMode(c, o.mode)
      [] o.op = "ui.timezone.update"           -> SetTimezone(c, o.zone, Zones)
      [] o.op = "quota.auto_disable"           -> AutoDisable(c, Over)
      [] OTHER -> {}

Results(o, c) == {[c EXCEPT !.rules = r] : r \in OfRules(o, c.rules)} \cup OfPolicies(o, c)

OnPage(o, c) ==
    CASE o.op = "mode"   -> AccessMode(c, o.mode, o.yes)
      [] o.op = "add"    -> AddEntry(c, o.entry)
      [] o.op = "delete" -> DeleteEntry(c, o.entry)
      [] o.op = "clear"  -> ClearEntries(c, o.yes)

\* The menus that page 12 opens on top of itself.
FromPage(o) == o.op \in {"access_control.ssh_source.add",
    "dynamic_whitelist.domain.add", "dynamic_whitelist.domain.delete",
    "dynamic_whitelist.domain.toggle", "dynamic_whitelist.interval.update",
    "dynamic_whitelist.cidr_expand.update"}

\* The section an operation is about.
SectionOf(o) ==
    CASE AddsRule(o) \/ o.op \in {"rule.edit", "rule.delete", "rule.toggle",
                                  "quota.config.update", "quota.auto_disable"} -> "rules"
      [] o.op \in {"access_control.update", "access_control.ssh_source.add"} -> "access"
      [] FromPage(o) /\ o.op # "access_control.ssh_source.add" -> "dw"
      [] o.op \in {"geoip.forward.update", "geoip.ssh.update", "geoip.ssh.port.update",
                   "geoip.update_interval.update"} -> "geo"
      [] o.op \in {"egress_control.update", "egress.add", "egress.delete"} -> "egress"
      [] o.op = "global.enabled.update" -> "global"
      [] o.op \in {"snat.mode.update", "snat.fixed_source_ip.update"} -> "snat"
      [] o.op \in {"mss_clamp.toggle", "mss_clamp.size.update"} -> "mss"
      [] o.op \in {"telegram.config.update", "telegram.toggle",
                   "telegram.interval.update"} -> "telegram"
      [] o.op = "stats.mode.update" -> "traffic"
      [] o.op = "ui.timezone.update" -> "timezone"

\* The restore of a whole file is about all of them.
IsRestore(o) == o.op = "backup.restore"

\* The list without the SSH port.
AffectsNftShort(o) ==
    o.op \notin {"telegram.config.update", "telegram.toggle", "telegram.interval.update",
                 "ui.timezone.update", "dynamic_whitelist.interval.update", "geoip.ssh.port.update"}

\* reason_affects_nft
AffectsNft(o) ==
    o.op \notin {"telegram.config.update", "telegram.toggle", "telegram.interval.update",
                 "ui.timezone.update", "dynamic_whitelist.interval.update"}

------------------------------------------------------------------------------
(* Steps of a process.                                                      *)

At(p, at) == proc[p].at = at
Becomes(p, r) == proc' = [proc EXCEPT ![p] = r]
Goes(p, at) == proc' = [proc EXCEPT ![p].at = at]
\* Back where the operation was asked for: the page is loaded again.
Ends(p) == Goes(p, IF proc[p].page THEN "return" ELSE "idle")
\* The backup directory with x under the name of a reason and this second.
With(reason, x) ==
    LET name == <<reason, clock>>
    IN [b \in DOMAIN backups \cup {name} |-> IF b = name THEN x ELSE backups[b]]
Fault == faults < MaxFaults /\ faults' = faults + 1

Init ==
    /\ file = Start
    /\ tmp = [n \in Processes \cup {"tmp"} |-> Absent]
    /\ backups = <<>>
    /\ cache = StartCache
    /\ proc = [p \in Processes |-> Idle]
    /\ clock = 0
    /\ writer = [f \in Sections |-> "nobody"]
    /\ ops = 0 /\ faults = 0

\* A choice in the main menu, or in a menu opened from the page.
Ask(p, o) ==
    /\ p \in Menus
    /\ IF o \in Ops THEN ops < MaxOps /\ ops' = ops + 1
                    ELSE ops = 0 /\ ops' = MaxOps
    /\ At(p, "idle") \/ (At(p, "page") /\ FromPage(o))
    /\ LoadsLast(o) \/ Loadable(file)
    /\ Becomes(p, [at |-> "asked", op |-> o, copy |-> file, base |-> file,
                   page |-> At(p, "page")])
    /\ UNCHANGED <<file, tmp, backups, cache, clock, writer, faults>>

\* The answers given, the copy is changed; a refusal leaves the file alone.
Answer(p) ==
    /\ At(p, "asked") /\ ~IsRestore(proc[p].op)
    /\ LET o == proc[p].op
           c == IF LoadsLast(o) THEN file ELSE proc[p].copy
       IN \E new \in (IF Loadable(c) THEN Results(o, c) ELSE {}) :
            Becomes(p, [proc[p] EXCEPT !.copy = new, !.base = c,
                          !.at = IF o.op = "rule.delete" THEN "create" ELSE "backup"])
    /\ UNCHANGED <<file, tmp, backups, cache, clock, writer, ops, faults>>

Cancel(p) ==
    /\ At(p, "asked")
    /\ Ends(p)
    /\ UNCHANGED <<file, tmp, backups, cache, clock, writer, ops, faults>>

\* An error goes all the way up to the main menu, through the page.
Refused(p) ==
    /\ At(p, "asked")
    /\ Becomes(p, Idle)
    /\ UNCHANGED <<file, tmp, backups, cache, clock, writer, ops, faults>>

AskRestore(p) ==
    /\ p \in Menus /\ At(p, "idle") /\ backups # <<>>
    /\ ops < MaxOps /\ ops' = ops + 1
    /\ Becomes(p, [Idle EXCEPT !.at = "asked", !.op = [op |-> "backup.restore"]])
    /\ UNCHANGED <<file, tmp, backups, cache, clock, writer, faults>>

\* Whatever the chosen backup holds is what will be written.
AnswerRestore(p) ==
    /\ At(p, "asked") /\ IsRestore(proc[p].op)
    /\ \E b \in DOMAIN backups :
         Becomes(p, [proc[p] EXCEPT !.at = "backup", !.copy = backups[b], !.base = file])
    /\ UNCHANGED <<file, tmp, backups, cache, clock, writer, ops, faults>>

\* Menu 10. The name says the second, not who asked.
BackUp(p) ==
    /\ p \in Menus /\ At(p, "idle")
    /\ ops < MaxOps /\ ops' = ops + 1
    /\ backups' = With("nat-config", file)
    /\ UNCHANGED <<file, tmp, cache, proc, clock, writer, faults>>

\* The page of the source lists.
OpenPage(p) ==
    /\ p \in Menus /\ At(p, "idle") /\ Loadable(file)
    /\ ops < MaxOps /\ ops' = ops + 1
    /\ Becomes(p, [Idle EXCEPT !.at = "page", !.copy = file, !.base = file, !.page = TRUE])
    /\ UNCHANGED <<file, tmp, backups, cache, clock, writer, faults>>

EditPage(p, o) ==
    /\ At(p, "page")
    /\ \E new \in OnPage(o, proc[p].copy) : Becomes(p, [proc[p] EXCEPT !.copy = new])
    /\ UNCHANGED <<file, tmp, backups, cache, clock, writer, ops, faults>>

SavePage(p) ==
    /\ At(p, "page") /\ AccessValid(proc[p].copy.access)
    /\ Becomes(p, [proc[p] EXCEPT !.at = "backup", !.op = [op |-> "access_control.update"]])
    /\ UNCHANGED <<file, tmp, backups, cache, clock, writer, ops, faults>>

LeavePage(p) ==
    /\ At(p, "page")
    /\ Becomes(p, Idle)
    /\ UNCHANGED <<file, tmp, backups, cache, clock, writer, ops, faults>>

\* The page goes on with its copy from before the menu it opened.
ReturnWithCopy(p) ==
    /\ At(p, "return")
    /\ Becomes(p, [proc[p] EXCEPT !.at = "page", !.op = NoOp, !.copy = proc[p].base])
    /\ UNCHANGED <<file, tmp, backups, cache, clock, writer, ops, faults>>

\* The page loads the file again after a menu opened from it; what it had
\* not saved is gone.
Return(p) ==
    /\ At(p, "return")
    /\ Becomes(p, IF Loadable(file)
                  THEN [Idle EXCEPT !.at = "page", !.copy = file, !.base = file, !.page = TRUE]
                  ELSE Idle)
    /\ UNCHANGED <<file, tmp, backups, cache, clock, writer, ops, faults>>

\* The quota check of the service, once it has decided.
CheckQuota ==
    /\ At("service", "idle") /\ Loadable(file)
    /\ ops < MaxOps /\ ops' = ops + 1
    /\ \E new \in AutoDisable(file, Over) :
         Becomes("service", [Idle EXCEPT !.at = "backup", !.op = [op |-> "quota.auto_disable"],
                                         !.copy = new, !.base = file])
    /\ UNCHANGED <<file, tmp, backups, cache, clock, writer, faults>>

------------------------------------------------------------------------------
(* safe_write_config_to                                                     *)

\* The saves of the menu without what write_atomic is preceded by.
SkipBackup(p) ==
    /\ At(p, "backup")
    /\ Goes(p, "create")
    /\ UNCHANGED <<file, tmp, backups, cache, clock, writer, ops, faults>>

CopyToBackup(p) ==
    /\ At(p, "backup")
    /\ backups' = With(proc[p].op.op, file)
    /\ Goes(p, "create")
    /\ UNCHANGED <<file, tmp, cache, clock, writer, ops, faults>>

\* A copy that failed half way stays in the directory; the save is given up.
BackupFails(p) ==
    /\ At(p, "backup") /\ Fault
    /\ \E b \in {backups, With(proc[p].op.op, Broken)} : backups' = b
    /\ Becomes(p, Idle)
    /\ UNCHANGED <<file, tmp, cache, clock, writer, ops>>

CreateTmp(p) ==
    /\ At(p, "create")
    /\ tmp' = [tmp EXCEPT ![TmpOf(p)] = Broken]
    /\ Goes(p, "fill")
    /\ UNCHANGED <<file, backups, cache, clock, writer, ops, faults>>

FillTmp(p) ==
    /\ At(p, "fill")
    /\ tmp' = [tmp EXCEPT ![TmpOf(p)] = proc[p].copy]
    /\ Goes(p, "rename")
    /\ UNCHANGED <<file, backups, cache, clock, writer, ops, faults>>

\* write_atomic removes its file when the write or the rename fails.
WriteFails(p) ==
    /\ proc[p].at \in {"create", "fill", "rename"} /\ Fault
    /\ tmp' = [tmp EXCEPT ![TmpOf(p)] = Absent]
    /\ Becomes(p, Idle)
    /\ UNCHANGED <<file, backups, cache, clock, writer, ops>>

Differ(f, a, b) == a \in {Broken, Absent} \/ b \in {Broken, Absent} \/ a[f] # b[f]

Rename(p) ==
    /\ At(p, "rename")
    /\ file' = tmp[TmpOf(p)]
    /\ tmp' = [tmp EXCEPT ![TmpOf(p)] = Absent]
    /\ writer' = [f \in Sections |-> IF Differ(f, file, file') THEN p ELSE writer[f]]
    /\ Goes(p, "after")
    /\ UNCHANGED <<backups, cache, clock, ops, faults>>

\* What follows the save: an edit and a deletion prune the last-good cache,
\* the page goes on after its own save, the rest is audit and messages.
After(p) ==
    /\ At(p, "after")
    /\ cache' = IF proc[p].op.op \in {"rule.edit", "rule.delete"}
                THEN PruneStale(cache, Identities(proc[p].copy.rules)) ELSE cache
    /\ IF proc[p].op.op = "access_control.update" THEN Goes(p, "page") ELSE Ends(p)
    /\ UNCHANGED <<file, tmp, backups, clock, writer, ops, faults>>

\* A killed menu, or a killed service.  Before the write a kill is like an
\* error: nothing was done.
Kill(p) ==
    /\ proc[p].at \in {"backup", "create", "fill", "rename", "after"} /\ Fault
    /\ \/ UNCHANGED backups
       \/ At(p, "backup") /\ backups' = With(proc[p].op.op, Broken)
    /\ Becomes(p, Idle)
    /\ UNCHANGED <<file, tmp, cache, clock, writer, ops>>

------------------------------------------------------------------------------
(* Around them.                                                             *)

\* A round of the service: prune, then the addresses its rules resolved to.
Learn ==
    /\ Loadable(file)
    /\ LET live == Identities(file.rules)
           kept == PruneStale(cache, live)
       IN cache' = {e \in kept : \A r \in live : r.key # e.key}
                   \cup {[id |-> r.id, key |-> r.key, domain |-> r.domain, ip |-> Ip(r.domain)] :
                           r \in live}
    /\ UNCHANGED <<file, tmp, backups, proc, clock, writer, ops, faults>>

Tick ==
    /\ clock < MaxClock
    /\ clock' = clock + 1
    /\ UNCHANGED <<file, tmp, backups, cache, proc, writer, ops, faults>>

Write(p) ==
    \/ CopyToBackup(p) \/ BackupFails(p)
    \/ CreateTmp(p) \/ FillTmp(p) \/ WriteFails(p) \/ Rename(p) \/ After(p)

Next ==
    \/ \E p \in Menus :
         \/ \E o \in Ops \cup Alone : Ask(p, o)
         \/ Answer(p) \/ Cancel(p) \/ Refused(p)
         \/ AskRestore(p) \/ AnswerRestore(p) \/ BackUp(p)
         \/ OpenPage(p) \/ SavePage(p) \/ LeavePage(p) \/ Return(p)
         \/ \E o \in PageOps : EditPage(p, o)
    \/ CheckQuota
    \/ \E p \in Processes : Write(p) \/ Kill(p)
    \/ Learn \/ Tick

Spec == Init /\ [][Next]_vars

------------------------------------------------------------------------------
(* Properties.                                                              *)

Contents(x) == x = Broken \/ DOMAIN x = Sections
TypeOK ==
    /\ Contents(file)
    /\ \A n \in DOMAIN tmp : tmp[n] = Absent \/ Contents(tmp[n])
    /\ \A b \in DOMAIN backups : b[2] \in 0..MaxClock /\ Contents(backups[b])
    /\ \A p \in Processes : proc[p].at \in {"idle", "asked", "page", "return", "backup",
                                            "create", "fill", "rename", "after"}
    /\ \A f \in Sections : writer[f] \in Processes \cup {"nobody"}

Renames(p) == At(p, "rename") /\ proc'[p].at = "after"
Saving(p) == proc[p].op

\* "原子化写文本文件" (atomic.rs:1): what a process puts in place is the whole
\* of what it meant to write, whoever else is writing.
NeverTorn == [][\A p \in Processes : Renames(p) => file' = proc[p].copy]_vars

\* No sequence of menu operations leads from a file the service can load to
\* one it cannot (it would fall back to the defaults, with every restriction
\* off), though a save checks its own section at most.  Only the restoring of
\* a backup can, which checks nothing (restore_config_interactive).
StaysLoadable ==
    [][Loadable(file) /\ ~Loadable(file') =>
         \E p \in Menus : Renames(p) /\ IsRestore(Saving(p))]_vars

\* An edit is not saved while a rule that is on takes some of the same
\* traffic (find_rule_edit_conflicts): taken packet by packet, not by the
\* ends of the ranges.
Takes(c) == (c.lo..Ingress(c).hi) \X (IF c.protocol = "all" THEN {"tcp", "udp"} ELSE {c.protocol})
            \X (IF c.version = "all" THEN {"ipv4", "ipv6"} ELSE {c.version})
EditsStayApart ==
    [][\A p \in Menus : Renames(p) /\ Saving(p).op = "rule.edit" =>
         LET rules == proc[p].copy.rules
             n == Saving(p).n
         IN rules[n].enabled =>
              \A m \in DOMAIN rules \ {n} :
                 IsForward(rules[m]) /\ rules[m].enabled => Takes(rules[m]) \cap Takes(rules[n]) = {}]_vars

\* A save may undo what another process wrote since it loaded, never what the
\* same menu saved before: the page of the source lists loads the file again
\* after the menus it opens (access_control_menu, options 8 and 10).
KeepsItsOwnSaves ==
    [][\A p \in Processes : Renames(p) /\ ~IsRestore(Saving(p)) =>
         \A f \in Sections \ {SectionOf(Saving(p))} : Differ(f, file, file') => writer[f] # p]_vars

\* "该配置不会改变 nft 转发规则" (format_non_nft_save_hint_lines): said only of
\* saves that leave the nft script what it was.
ScriptOf(c) ==
    RB!Script([global |-> c.global, cells |-> c.rules, access |-> c.access,
               dynamic |-> IF c.dw.enabled
                           THEN {Ip(c.dw.domains[n].domain) :
                                   n \in {m \in DOMAIN c.dw.domains : c.dw.domains[m].enabled}}
                           ELSE {},
               egress |-> c.egress, mss |-> c.mss.enabled,
               snat |-> [mode |-> c.snat.mode, fixed |-> c.snat.fixed,
                         legacy |-> [ip |-> NoText, ip6 |-> NoText], shown |-> NoText],
               geo |-> [enabled |-> c.geo.enabled, forward |-> c.geo.forward, ssh |-> c.geo.ssh,
                        sshPort |-> c.geo.sshPort, sshMode |-> "allow-cn", allowLan |-> FALSE,
                        lan |-> {}, file |-> V4],
               dns |-> [answers |-> [t \in Names |-> <<Ip(t)>>], rejectFake |-> FALSE, fake |-> {}],
               lastGood |-> [enabled |-> FALSE, onFailure |-> FALSE], cache |-> {}])
HintIsTrue ==
    \A p \in Processes : Renames(p) /\ ~AffectsNft(Saving(p)) =>
      ScriptOf(proc[p].copy) = ScriptOf(proc[p].base)

\* The rule `c` with the values `was` of its snapshot.
PutBack(c, was) ==
    LET Old(f, now) == IF f \in DOMAIN was THEN was[f] ELSE now
        sport == Old("sport", Snapshot(c).sport)
    IN [c EXCEPT !.lo = sport[1], !.hi = IF Len(sport) = 1 THEN NoPort ELSE sport[2],
                 !.target = Old("target", @), !.protocol = Old("protocol", @),
                 !.dport = IF c.type = "range" THEN @ ELSE Old("dport", <<@>>)[1],
                 !.enabled = Old("enabled", @), !.comment = Old("comment", @),
                 !.snat = IF c.type = "redirect" THEN @ ELSE Old("snat", @)]

\* "rule.edit" in the audit log (rule_edit_audit_detail): as long as nobody else
\* changed the rules, the saved rule with the old values of its audit line put
\* back is the rule that was in the file, the fields the line never names
\* included, and no other rule changed.
EditIsOnRecord ==
    \A p \in Menus :
      Renames(p) /\ Saving(p).op = "rule.edit" /\ writer["rules"] \in {"nobody", p} =>
        LET n == Saving(p).n
            new == proc[p].copy.rules
            line == AuditDetail(n, proc[p].base.rules[n], new[n])
        IN /\ DOMAIN line.old # {}
           /\ file'.rules = new
           /\ file.rules = [new EXCEPT ![line.index + 1] = PutBack(@, line.old)]

\* What a save says of itself, on the screen and in the log, is so.
SaysTrue == [][HintIsTrue /\ EditIsOnRecord]_vars

\* "备份 → 临时文件 + fsync → rename" (README.md:84): as long as nobody else
\* writes, the content a save replaces is in the backup directory, unless a save
\* with the same reason overwrote that backup within the second and failed; a
\* deletion makes no backup (skips_config_backup).
ReplacedIsKept ==
    [][\A p \in Processes :
         /\ Renames(p) /\ Saving(p).op # "rule.delete"
         /\ \A f \in Sections : writer[f] \in {"nobody", p}
         => \E b \in DOMAIN backups :
              backups[b] = file \/ (b[1] = Saving(p).op /\ backups[b] = Broken)]_vars

\* Whatever edits, deletions and prunes there were, a cached address is kept
\* under the key of a rule for the domain that it was resolved from
\* (prune_stale_rules, rule_key_for_cell).
CacheKeepsToItsDomain == \A e \in cache : e.key # NoKey => e.ip = Ip(e.key[6])
=============================================================================
