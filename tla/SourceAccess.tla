---------------------------- MODULE SourceAccess ----------------------------
(***************************************************************************)
(* Who may use the forwarding rules: the DDNS sources and the source files *)
(* beside the static list (nat-common/src/dynamic_whitelist.rs), from the  *)
(* look-up of a name to the list in the kernel, and the menu that edits,   *)
(* refreshes and prunes at the same time.                                  *)
(*                                                                         *)
(* The service is at                                                       *)
(*   "sleep", "resolve" (the state file is loaded, the names are looked    *)
(*   up), "save" (the answers are in memory), "read" (files and rules).    *)
(* The menu is at "idle", "resolve" or "save" in a refresh, at "prune" or  *)
(* "pruned" after the deletion of a domain, and at "page" on the page of   *)
(* the lists, which edits a copy of the configuration until it is saved.   *)
(***************************************************************************)
EXTENDS PolicyEdit

CONSTANTS
    Net(_),         \* the /24 network of an IPv4 address
    Answers,        \* what the look-up of a name may yield; {} is a failure
    Files,          \* what the source file may hold
    Edits,          \* what the operator asks for
    Start,          \* the configuration at first
    StartDns,       \* the answers at first
    MaxChanges,     \* bound on saves and refreshes of the menu, changes of DNS
                    \* and file, failures and restarts, all together
    MaxFaults       \* bound on failures and restarts

FileOf(entries) == [good |-> TRUE, entries |-> entries]     \* a missing one has none
BadFile == [good |-> FALSE, entries |-> {}]                 \* unreadable, or an invalid line
NoRules == [mode |-> "none", entries |-> {}]

\* The operations of the page of the lists; the others are of the DDNS page.
ListOps == {"mode", "enter", "remove", "clear"}

\* What the two sections of the file hold, as it is parsed.
Modes == {"off", "whitelist", "blacklist"}
Domains == [name : STRING, domain : Names, enabled : BOOLEAN]
Policies ==
    [access : [mode : Modes, entries : SUBSET Addresses],
     dw : [enabled : BOOLEAN, interval : Nat, cidr : {24, 32}, v4 : BOOLEAN, v6 : BOOLEAN,
           lastGood : BOOLEAN, files : BOOLEAN, domains : Seq(Domains)]]

ASSUME SourceAccessAssumption ==
    /\ MaxChanges \in Nat /\ MaxFaults \in Nat
    /\ Start \in Policies /\ DynamicValid(Start.dw)
    /\ StartDns \in [Names -> SUBSET Addresses] /\ Answers \subseteq SUBSET Addresses
    /\ Files \subseteq [good : BOOLEAN, entries : SUBSET Addresses]
    /\ \A o \in Edits : /\ o.op \in ListOps \cup {"add", "delete", "toggle", "expand"}
                        /\ o.op = "mode" => o.mode \in Modes
                        /\ o.op = "add" => o.domain \in Domains

VARIABLES
    conf,       \* access_control and dynamic_whitelist of the file
    dns,        \* what each domain resolves to
    disk,       \* the source file
    stored,     \* the state file, domain states by position
    service, menu,
    due,        \* which of the two intervals of the loop are over
    kernel,     \* the sources in force
    basis,      \* history: the last list applied, and the configuration it was made from
    heard,      \* history: all that each domain was ever seen to resolve to
    calm,       \* history: since the last apply nothing but failures happened
    assured,    \* history: what is in the file was vetted, and the state file
                \*          is still what rounds with these domains made of it
    changes, faults

env == <<conf, dns, disk>>
history == <<basis, heard, calm, assured>>
vars == <<env, stored, service, menu, due, kernel, history, changes, faults>>

------------------------------------------------------------------------------
(* The state of one domain.                                                 *)

Expand(ips, cidr) == IF cidr = 24 THEN {IF a \in V4 THEN Net(a) ELSE a : a \in ips} ELSE ips

Entry(dw, d, good, current, stale) ==
    [name |-> d.name, domain |-> d.domain, good |-> good, current |-> current,
     effective |-> Expand(current, dw.cidr), cidr |-> dw.cidr, stale |-> stale]

NoEntry == [name |-> NoText, domain |-> NoText, good |-> {}, current |-> {},
            effective |-> {}, cidr |-> 0, stale |-> FALSE]

FirstOf(state, at) ==
    IF at = {} THEN NoEntry ELSE state[CHOOSE n \in at : \A m \in at : n <= m]

\* The state of a name, whatever it stood for.
FindByName(state, d) == FirstOf(state, {n \in DOMAIN state : state[n].name = d.name})

\* find_domain_state
Find(state, d) ==
    FirstOf(state, {n \in DOMAIN state : state[n].name = d.name /\ state[n].domain = d.domain})

OfFamily(dw, ips) == {a \in ips : IF a \in V4 THEN dw.v4 ELSE dw.v6}

\* A domain once resolved is left at that.
RefreshedOnce(dw, d, was, answer) ==
    LET ips == IF was.current = {} THEN OfFamily(dw, answer) ELSE was.current
    IN Entry(dw, d, ips, ips, FALSE)

\* A failure forgets what was good.
RefreshedForgets(dw, d, was, answer) ==
    LET ips == IF d.enabled THEN OfFamily(dw, answer) ELSE {}
    IN Entry(dw, d, ips, ips, FALSE)

\* refresh_state_with_resolver, for one domain.
Refreshed(dw, d, was, answer) ==
    LET ips  == OfFamily(dw, answer)
        good == OfFamily(dw, was.good)
        kept == IF dw.lastGood THEN good ELSE {}
    IN CASE ~d.enabled -> Entry(dw, d, was.good, {}, FALSE)
         [] d.enabled /\ ips # {} -> Entry(dw, d, ips, ips, FALSE)
         [] d.enabled /\ ips = {} -> Entry(dw, d, good, kept, kept # {})

Refresh(dw, state, answers) ==
    IF ~dw.enabled THEN state
    ELSE [n \in DOMAIN dw.domains |->
            LET d == dw.domains[n] IN Refreshed(dw, d, Find(state, d), answers[d.domain])]

\* What is kept keeps its position, as only the order tells.
PruneState(dw, state) ==
    LET kept == {n \in DOMAIN state :
                   \E m \in DOMAIN dw.domains : /\ dw.domains[m].name = state[n].name
                                              /\ dw.domains[m].domain = state[n].domain}
    IN [n \in kept |-> state[n]]

EnabledDomains(dw) == {dw.domains[n] : n \in {m \in DOMAIN dw.domains : dw.domains[m].enabled}}

\* What was expanded for another width stays in use.
StaleView(s, cidr) == IF s.effective # {} THEN s.effective ELSE Expand(s.current, cidr)

\* effective_sources_view
View(s, cidr) ==
    IF s.cidr = cidr /\ s.effective # {} THEN s.effective ELSE Expand(s.current, cidr)

DynamicSources(dw, state) ==
    IF dw.enabled THEN UNION {View(Find(state, d), dw.cidr) : d \in EnabledDomains(dw)} ELSE {}

FileRefused(dw) == dw.enabled /\ dw.files /\ disk = BadFile
FileSources(dw) == IF dw.enabled /\ dw.files THEN disk.entries ELSE {}

Merged(access, sources) ==
    [mode |-> access.mode,
     entries |-> access.entries \cup (IF access.mode = "whitelist" THEN sources ELSE {})]

\* The list a round makes.
ListOf(c, state) == Merged(c.access, DynamicSources(c.dw, state) \cup FileSources(c.dw))

------------------------------------------------------------------------------
(* whitelist_empty_lock_warning_needed                                      *)

\* Domains that are off counted in.
UsableOfAll(dw, state) ==
    IF ~dw.enabled THEN {}
    ELSE UNION {LET s == Find(state, dw.domains[n])
                IN IF s.current = {} /\ dw.lastGood THEN s.good ELSE s.current : n \in DOMAIN dw.domains}

\* Unlike the service, the check falls back on the last good addresses of a
\* domain that has no current ones, and does not look at the source files.
Usable(dw, state) ==
    IF ~dw.enabled THEN {}
    ELSE UNION {LET s == Find(state, d)
                IN Expand(IF s.current = {} /\ dw.lastGood THEN s.good ELSE s.current, dw.cidr) :
                  d \in EnabledDomains(dw)}

WarnsOfLock(c) == c.access.entries = {} /\ Usable(c.dw, stored) = {}

------------------------------------------------------------------------------
Asleep == [at |-> "sleep", conf |-> Start, state |-> <<>>, dyn |-> FALSE]
\* `vetted` is history: the copy was switched to whitelist without a warning,
\* outside a round with its domains, and nothing was taken out of it since.
MenuIdle == [at |-> "idle", state |-> <<>>, conf |-> Start, vetted |-> FALSE]

Init ==
    /\ conf = Start /\ dns = StartDns /\ disk = FileOf({})
    /\ stored = <<>>
    /\ service = Asleep /\ menu = MenuIdle
    /\ due = [dyn |-> TRUE, ddns |-> TRUE]
    /\ kernel = NoRules
    /\ basis = [conf |-> Start, entries |-> {}] /\ heard = [d \in Names |-> {}]
    /\ calm = FALSE /\ assured = FALSE
    /\ changes = 0 /\ faults = 0

Change == changes + faults < MaxChanges /\ changes' = changes + 1
Fault == faults < MaxFaults /\ changes + faults < MaxChanges /\ faults' = faults + 1

\* What look-ups made now bring to light.
Hear(dw) ==
    heard' = [d \in Names |->
                IF \E e \in EnabledDomains(dw) : e.domain = d THEN heard[d] \cup dns[d] ELSE heard[d]]

------------------------------------------------------------------------------
(* The loop of the service (handle_loop).                                   *)

Wake ==
    /\ service.at = "sleep"
    /\ LET dyn == conf.dw.enabled /\ due.dyn
       IN /\ due.ddns \/ dyn
          /\ service' = [at |-> IF dyn THEN "resolve" ELSE "read",
                         conf |-> conf, state |-> stored, dyn |-> dyn]
    /\ UNCHANGED <<env, stored, menu, due, kernel, history, changes, faults>>

Resolve ==
    /\ service.at = "resolve"
    /\ service' = [service EXCEPT !.at = "save",
                     !.state = Refresh(service.conf.dw, @, dns)]
    /\ Hear(service.conf.dw)
    /\ UNCHANGED <<env, stored, menu, due, kernel, basis, calm, assured, changes, faults>>

\* A failed save is a warning: the round goes on with what is in memory.
Save ==
    /\ service.at = "save"
    /\ \/ /\ stored' = service.state
          /\ assured' = (assured /\ service.conf.dw = conf.dw)
          /\ menu' = [menu EXCEPT !.vetted = @ /\ service.conf.dw = menu.conf.dw]
          /\ UNCHANGED <<calm, faults>>
       \/ Fault /\ calm' = FALSE /\ UNCHANGED <<stored, assured, menu>>
    /\ service' = [service EXCEPT !.at = "read"]
    /\ due' = [due EXCEPT !.dyn = FALSE]
    /\ UNCHANGED <<env, kernel, basis, heard, changes>>

\* A bad source file, or a script that cannot be built, ends the round.
GiveUp ==
    /\ service.at = "read"
    /\ \/ FileRefused(service.conf.dw) /\ UNCHANGED faults
       \/ ~FileRefused(service.conf.dw) /\ Fault
    /\ service' = Asleep
    /\ UNCHANGED <<env, stored, menu, due, kernel, history, changes>>

\* The state file says what the names resolve to, but for failures.
UpToDate(state) ==
    /\ state = stored
    /\ \A d \in EnabledDomains(conf.dw) :
         OfFamily(conf.dw, dns[d.domain]) \in {{}, Find(stored, d).current}

Apply ==
    /\ service.at = "read" /\ ~FileRefused(service.conf.dw)
    /\ kernel' = ListOf(service.conf, service.state)
    /\ basis' = [conf |-> service.conf, entries |-> kernel'.entries]
    /\ calm' = (service.conf = conf /\ UpToDate(service.state))
    /\ due' = [due EXCEPT !.ddns = FALSE]
    /\ service' = Asleep
    /\ UNCHANGED <<env, stored, menu, heard, assured, changes, faults>>

DynTimer ==
    /\ ~due.dyn /\ due' = [due EXCEPT !.dyn = TRUE]
    /\ UNCHANGED <<env, stored, service, menu, kernel, history, changes, faults>>
DdnsTimer ==
    /\ ~due.ddns /\ due' = [due EXCEPT !.ddns = TRUE]
    /\ UNCHANGED <<env, stored, service, menu, kernel, history, changes, faults>>

\* The unit removes the tables when the service stops.
Restart ==
    /\ Fault
    /\ service' = Asleep /\ due' = [dyn |-> TRUE, ddns |-> TRUE]
    /\ kernel' = NoRules
    /\ UNCHANGED <<env, stored, menu, history, changes>>

------------------------------------------------------------------------------
(* The menu.                                                                *)

Results(o, c) ==
    CASE o.op = "add"    -> AddDomain(c, o.domain)
      [] o.op = "delete" -> DeleteDomain(c, o.n)
      [] o.op = "toggle" -> ToggleDomain(c, o.n)
      [] o.op = "expand" -> SetExpansion(c, o.bits, TRUE)

\* The page of the DDNS sources saves each change at once.
Edit(o) ==
    /\ menu.at = "idle" /\ Change /\ o.op \notin ListOps
    /\ conf' \in Results(o, conf)
    /\ menu' = IF o.op = "delete" THEN [menu EXCEPT !.at = "prune"] ELSE menu
    /\ calm' = FALSE /\ assured' = FALSE
    /\ UNCHANGED <<dns, disk, stored, service, due, kernel, basis, heard, faults>>

\* access_control_menu loads the configuration once.  Going to the DDNS page
\* and back is LeavePage and OpenPage: it drops what was not saved.
OpenPage ==
    /\ menu.at = "idle" /\ changes + faults < MaxChanges
    /\ menu' = [MenuIdle EXCEPT !.at = "page", !.conf = conf, !.vetted = assured]
    /\ UNCHANGED <<env, stored, service, due, kernel, history, changes, faults>>
LeavePage ==
    /\ menu.at = "page" /\ menu' = MenuIdle
    /\ UNCHANGED <<env, stored, service, due, kernel, history, changes, faults>>

\* `yes` answers the warning; the other questions are answered with a yes.
PageResults(o, c) ==
    CASE o.op = "mode"   -> AccessMode(c, o.mode, o.mode = "whitelist" /\ WarnsOfLock(c) => o.yes)
      [] o.op = "enter"  -> AddEntry(c, o.entry)
      [] o.op = "remove" -> DeleteEntry(c, o.entry)
      [] o.op = "clear"  -> ClearEntries(c, TRUE)

Vetted(o) ==
    \/ /\ o.op = "mode" /\ o.mode = "whitelist" /\ ~WarnsOfLock(menu.conf)
       /\ service.at = "sleep" \/ service.conf.dw # menu.conf.dw
    \/ o.op = "enter" /\ menu.vetted

\* Only the switch of the mode looks at what is stored.
PageEdit(o) ==
    /\ menu.at = "page" /\ o.op \in ListOps
    /\ \E c \in PageResults(o, menu.conf) :
         menu' = [menu EXCEPT !.conf = c, !.vetted = Vetted(o)]
    /\ UNCHANGED <<env, stored, service, due, kernel, history, changes, faults>>

\* The copy is saved without another look; the page stays.
SavePage ==
    /\ menu.at = "page" /\ Change /\ AccessValid(menu.conf.access)
    /\ conf' = menu.conf
    /\ calm' = (calm /\ conf' = conf) /\ assured' = menu.vetted
    /\ UNCHANGED <<dns, disk, stored, service, menu, due, kernel, basis, heard, faults>>

\* refresh_dynamic_whitelist_interactive: the state is read, the names are
\* looked up, and the state is written over whatever it is by then.
MenuRefresh ==
    /\ menu.at = "idle" /\ Change
    /\ conf.dw.enabled /\ conf.dw.domains # <<>>
    /\ menu' = [MenuIdle EXCEPT !.at = "resolve", !.state = stored]
    /\ UNCHANGED <<env, stored, service, due, kernel, history, faults>>
MenuResolve ==
    /\ menu.at = "resolve"
    /\ menu' = [menu EXCEPT !.at = "save", !.state = Refresh(conf.dw, @, dns)]
    /\ Hear(conf.dw)
    /\ UNCHANGED <<env, stored, service, due, kernel, basis, calm, assured, changes, faults>>

MenuLoadsToPrune ==
    /\ menu.at = "prune"
    /\ menu' = [menu EXCEPT !.at = "pruned", !.state = PruneState(conf.dw, stored)]
    /\ UNCHANGED <<env, stored, service, due, kernel, history, changes, faults>>

MenuSave ==
    /\ menu.at \in {"save", "pruned"}
    /\ stored' = menu.state
    /\ menu' = MenuIdle
    /\ calm' = FALSE /\ assured' = FALSE
    /\ UNCHANGED <<env, service, due, kernel, basis, heard, changes, faults>>

------------------------------------------------------------------------------
(* Around them.                                                             *)

SetDns(d, answer) ==
    /\ Change /\ dns[d] # answer
    /\ dns' = [dns EXCEPT ![d] = answer]
    /\ calm' = (calm /\ answer = {})
    /\ UNCHANGED <<conf, disk, stored, service, menu, due, kernel, basis, heard, assured, faults>>

SetFile(f) ==
    /\ Change /\ disk # f
    /\ disk' = f
    /\ calm' = (calm /\ f = BadFile)
    /\ UNCHANGED <<conf, dns, stored, service, menu, due, kernel, basis, heard, assured, faults>>

\* A state file that is lost or does not parse is loaded as an empty one.
LoseState ==
    /\ Fault /\ stored # <<>>
    /\ stored' = <<>>
    /\ menu' = [menu EXCEPT !.vetted = FALSE]
    /\ calm' = FALSE /\ assured' = FALSE
    /\ UNCHANGED <<env, service, due, kernel, basis, heard, changes>>

Next ==
    \/ Wake \/ Resolve \/ Save \/ GiveUp \/ Apply
    \/ DynTimer \/ DdnsTimer \/ Restart
    \/ \E o \in Edits : Edit(o) \/ PageEdit(o)
    \/ OpenPage \/ SavePage \/ LeavePage
    \/ MenuRefresh \/ MenuResolve \/ MenuLoadsToPrune \/ MenuSave
    \/ \E d \in Names, a \in Answers : SetDns(d, a)
    \/ \E f \in Files : SetFile(f)
    \/ LoseState

Spec == Init /\ [][Next]_vars

\* The loop goes on for ever, and both intervals end again and again; the
\* operator and the environment need not do anything.
Fairness ==
    /\ WF_vars(Wake) /\ WF_vars(Resolve) /\ WF_vars(Save) /\ WF_vars(GiveUp) /\ WF_vars(Apply)
    /\ WF_vars(DynTimer) /\ WF_vars(DdnsTimer)
FairSpec == Spec /\ Fairness

------------------------------------------------------------------------------
(* Properties.                                                              *)

Sources == Addresses \cup {Net(a) : a \in V4}
TypeOK ==
    /\ AccessValid(conf.access) /\ DynamicValid(conf.dw)
    /\ kernel.mode \in {"none", "off", "whitelist", "blacklist"} /\ kernel.entries \subseteq Sources
    /\ \A n \in DOMAIN stored :
         /\ stored[n].good \subseteq Addresses /\ stored[n].current \subseteq stored[n].good
         /\ stored[n].effective = Expand(stored[n].current, stored[n].cidr)
    /\ service.at \in {"sleep", "resolve", "save", "read"}
    /\ menu.at \in {"idle", "resolve", "save", "prune", "pruned", "page"}
    /\ AccessValid(menu.conf.access) /\ DynamicValid(menu.conf.dw)

FileEntries == UNION {f.entries : f \in Files}

\* "同名域名变更后 DNS 失败不再复用旧域名 last-good 来源 IP" (CHANGELOG.md:47):
\* every source in force is in the static list, came from the file, or is an
\* answer once given for a domain that was enabled in the configuration used.
SourcesAreResolved ==
    LET used == basis.conf
        resolved == UNION {Expand(heard[d.domain], used.dw.cidr) : d \in EnabledDomains(used.dw)}
    IN kernel.mode = "whitelist" =>
         kernel.entries \subseteq used.access.entries \cup FileEntries \cup resolved

\* A switch back to /32 takes the networks out of the next list applied, not
\* only of the next one resolved (effective_sources_view).
WidthFollows ==
    kernel.mode = "whitelist" /\ basis.conf.dw.cidr = 32 => kernel.entries \subseteq Addresses

\* No domain is listed twice, once on and once off: the state holds one answer
\* for both, and the entry that comes first decides.
OneSwitchEach(dw) ==
    \A m, n \in DOMAIN dw.domains :
        dw.domains[m].name = dw.domains[n].name /\ dw.domains[m].domain = dw.domains[n].domain
        => dw.domains[m].enabled = dw.domains[n].enabled

\* "DNS 失败可用 last-good 来源 IP 兜底" (README.md:137), and "内容无效会阻止
\* 刷新/应用" (README.md:138): over failed look-ups, a bad file and restarts,
\* no list is applied that lacks a source of the one before.
OutageKeepsSources ==
    [][Apply /\ calm /\ conf = basis.conf /\ conf.dw.lastGood /\ OneSwitchEach(conf.dw)
         => basis.entries \subseteq kernel'.entries]_vars

\* The switch to a whitelist warns when nobody could get in
\* (whitelist_empty_lock_warning_needed), and the page saves later without
\* another look.  If the switch passed without a warning, and nothing was taken
\* out of the copy nor lost from the state file since, a list is never empty
\* once the names were looked up: whatever DNS, the service and failed saves do
\* between the check, the save and the round.
LockCheckTrue ==
    [][Apply /\ service.dyn /\ assured /\ service.conf = conf
       /\ conf.dw.lastGood /\ OneSwitchEach(conf.dw)
         => kernel'.entries # {}]_vars

\* "设置 whitelist 时增加空白名单防锁死提示" (CHANGELOG.md:39), taken for the
\* save as well: an operator who never goes on over a warning saves no whitelist
\* that the check would warn of.  The check belongs to the switch alone, and
\* whitelist, clear, save is silent.
NoSilentLock ==
    [][SavePage /\ (\A o \in Edits : o.op = "mode" => ~o.yes)
       /\ menu.conf.access # conf.access /\ menu.conf.access.mode = "whitelist"
         => ~WarnsOfLock(menu.conf)]_vars

\* Once the names resolve and stay as they are, the list in force becomes what
\* the configuration, the file and DNS say, and stays so.
Wanted ==
    Merged(conf.access, FileSources(conf.dw) \cup
        IF conf.dw.enabled
        THEN UNION {Expand(OfFamily(conf.dw, dns[d.domain]), conf.dw.cidr) : d \in EnabledDomains(conf.dw)}
        ELSE {})
AllResolve == disk # BadFile /\ \A d \in EnabledDomains(conf.dw) : OfFamily(conf.dw, dns[d.domain]) # {}
Settles == <>[](AllResolve /\ OneSwitchEach(conf.dw)) => <>[](AllResolve /\ kernel = Wanted)

\* "定期解析自有 DDNS 域名，把结果并入来源白名单" (README.md:137): the list a
\* round makes holds what it has just found for every enabled domain.
EveryDomainCounts ==
    [][Apply /\ service.dyn /\ kernel'.mode = "whitelist" =>
         \A n \in DOMAIN service.conf.dw.domains : service.conf.dw.domains[n].enabled =>
            service.state[n].effective \subseteq kernel'.entries]_vars
=============================================================================
