------------------------------ MODULE NatService ------------------------------
(***************************************************************************)
(* The loop of nat.service (handle_loop in nat-cli/src/main.rs) and the    *)
(* manual refresh of the menu (refresh_once), the two processes that turn  *)
(* /etc/nat.toml and the DNS into the managed ruleset.                     *)
(*                                                                         *)
(* A round reads the runtime configuration, reads the file a second time   *)
(* for the rules, loads and prunes the last-good cache, resolves every     *)
(* rule's target, renders the script, applies it and saves the cache.  The *)
(* service applies only when the script differs from the one whose hash it *)
(* keeps in memory; the manual refresh always applies.                     *)
(*                                                                         *)
(* A script is abstracted to the target it sends each rule to (NoAddr: no  *)
(* line for the rule); the egress allow-list stands for the policies that  *)
(* the runtime configuration carries.  Safe apply is the abstract one of   *)
(* AtomicRuleset: it installs the whole script or leaves the ruleset.      *)
(* The unit that setup.sh installs is part of the model: whenever the      *)
(* service's process ends, systemd runs ExecStop, which deletes the        *)
(* managed tables, and starts the process again.                           *)
(***************************************************************************)
EXTENDS Naturals

CONSTANTS
    Procs,      \* the processes at work: Service, and perhaps a menu
    Service,    \* the process running handle_loop
    Rules,      \* rules with a domain target; a rule stands for its rule_key
    Addrs,      \* addresses a domain may resolve to
    AllowLists, \* the egress allow-lists the configuration may hold
    NoAddr,     \* not resolved, not cached, no line
    None,       \* no script: tables absent, no hash
    Invalid,    \* a configuration file that is unreadable or does not parse
    HandEdits,  \* TRUE: an editor may leave the file Invalid for a while
    Faults,     \* which faults may happen
    MaxChanges, \* bound on the changes of the file and of the DNS
    MaxFaults   \* bound on the faults

FaultKinds == {"apply", "prepare", "save", "create", "kill"}

ASSUME NatServiceAssumption ==
    /\ Service \in Procs
    /\ NoAddr \notin Addrs
    /\ AllowLists \subseteq SUBSET Addrs
    /\ HandEdits \in BOOLEAN
    /\ Faults \subseteq FaultKinds
    /\ MaxChanges \in Nat /\ MaxFaults \in Nat

Targets == [Rules -> Addrs \cup {NoAddr}]   \* also what a script says
Configs == [rules : SUBSET Rules, allowed : AllowLists]

ASSUME DistinctAssumption == None \notin Targets /\ Invalid \notin Configs

Nothing == [r \in Rules |-> NoAddr]

VARIABLES
    file,       \* /etc/nat.toml
    dns,        \* what each rule's domain resolves to now
    lastGood,   \* last-good.json
    diy,        \* /etc/nftables-nat/nat-diy.nft
    kernel,     \* the managed ruleset
    hash,       \* latest_script_hash of the service
    pc,         \* next step of each process
    allowed,    \* the egress allow-list of the round
    cells,      \* the enabled rules of the round
    cache,      \* the last-good state the round loaded
    live,       \* the round's LiveResolved events
    script,     \* the script of the round
    \* Observability: not in the program.
    steady,     \* rules whose line is installed and recorded since
    foreign,    \* kernel was last loaded by another process or from an old file
    changes, faults \* spent so far of MaxChanges and MaxFaults

locals == <<allowed, cells, cache, live, script>>
vars   == <<file, dns, lastGood, diy, kernel, hash, pc, locals, steady, foreign,
            changes, faults>>

Steps == {"off", "load", "parse", "build", "compare", "apply", "record", "stop"}

TypeOK ==
    /\ file \in Configs \cup {Invalid}
    /\ dns \in Targets /\ lastGood \in Targets
    /\ diy \in Targets \cup {None}
    /\ kernel \in Targets \cup {None}
    /\ hash \in Targets \cup {None}
    /\ pc \in [Procs -> Steps]
    /\ allowed \in [Procs -> SUBSET Addrs]
    /\ cells \in [Procs -> SUBSET Rules]
    /\ cache \in [Procs -> Targets]
    /\ live \in [Procs -> Targets]
    /\ script \in [Procs -> Targets]
    /\ steady \in SUBSET Rules
    /\ foreign \in BOOLEAN
    /\ changes \in 0..MaxChanges /\ faults \in 0..MaxFaults

Init ==
    /\ file \in Configs /\ dns \in Targets
    /\ lastGood = Nothing
    /\ diy = None /\ kernel = None /\ hash = None
    /\ pc = [p \in Procs |-> IF p = Service THEN "load" ELSE "off"]
    /\ allowed = [p \in Procs |-> {}]
    /\ cells = [p \in Procs |-> {}]
    /\ cache = [p \in Procs |-> Nothing]
    /\ live = [p \in Procs |-> Nothing]
    /\ script = [p \in Procs |-> Nothing]
    /\ steady = {} /\ foreign = FALSE
    /\ changes = 0 /\ faults = 0

Goto(p, step) == pc' = [pc EXCEPT ![p] = step]

\* The round is over and its variables are gone.  The service sleeps and loops
\* ("load"), or exits with the error ("stop"); refresh_once returns.
EndRound(p, step) ==
    /\ Goto(p, IF p = Service THEN step ELSE "off")
    /\ allowed' = [allowed EXCEPT ![p] = {}]
    /\ cells' = [cells EXCEPT ![p] = {}]
    /\ cache' = [cache EXCEPT ![p] = Nothing]
    /\ live' = [live EXCEPT ![p] = Nothing]
    /\ script' = [script EXCEPT ![p] = Nothing]

Fault(f) == f \in Faults /\ faults < MaxFaults /\ faults' = faults + 1

\* A save that fails is only logged.
Saved(state) == \/ lastGood' = state /\ UNCHANGED faults
                \/ Fault("save") /\ UNCHANGED lastGood
-----------------------------------------------------------------------------
(* Rendering: NftCell::build_with_rule_index over the enabled rules.       *)

\* The live address, or the cached one when the DNS fails.
Resolved(p, r) == IF dns[r] # NoAddr THEN dns[r] ELSE cache[p][r]

\* Mutant: only live answers are shown to egress_control.
RenderedUnchecked(p) ==
    [r \in Rules |-> IF r \in cells[p] /\ (dns[r] # NoAddr => dns[r] \in allowed[p])
                     THEN Resolved(p, r) ELSE NoAddr]

\* A rule gets a line when it is enabled, resolves, and egress_control lets its
\* target pass, a cached target too.
Rendered(p) ==
    [r \in Rules |-> IF r \in cells[p] /\ Resolved(p, r) \in allowed[p]
                     THEN Resolved(p, r) ELSE NoAddr]

\* Mutant: the pruned state has no entry at all for a disabled rule.
PrunedAway(state, rules) == [r \in rules |-> state[r]]

\* prune_stale_rules: entries without an enabled rule are dropped.
Pruned(state, rules) == [r \in Rules |-> IF r \in rules THEN state[r] ELSE NoAddr]

\* Mutant: the state is rebuilt from the live resolutions alone.
UpdatedLiveOnly(p) == live[p]

\* update_state_from_events: a live resolution replaces the cached target,
\* allowed by egress_control or not; every other event keeps it.
Updated(p) == [r \in Rules |-> IF live[p][r] # NoAddr THEN live[p][r] ELSE cache[p][r]]
-----------------------------------------------------------------------------
(* One round.                                                              *)

\* load_runtime_config: a file that cannot be read or parsed counts as an empty
\* one, with egress_control (like every other section) at its default, off.
LoadRuntime(p) ==
    /\ pc[p] = "load"
    /\ allowed' = [allowed EXCEPT ![p] = IF file = Invalid THEN Addrs ELSE file.allowed]
    /\ Goto(p, "parse")
    /\ UNCHANGED <<file, dns, lastGood, diy, kernel, hash, cells, cache, live, script,
                   steady, foreign, changes, faults>>

\* parse_conf reads the file again; then the last-good cache is loaded, pruned
\* to the enabled rules and, when that changed it, saved.
ParseConf(p) ==
    /\ pc[p] = "parse"
    /\ \/ /\ file = Invalid
          /\ EndRound(p, "load")
          /\ UNCHANGED <<lastGood, faults>>
       \/ /\ file # Invalid
          /\ cells' = [cells EXCEPT ![p] = file.rules]
          /\ cache' = [cache EXCEPT ![p] = Pruned(lastGood, file.rules)]
          /\ Saved(Pruned(lastGood, file.rules))
          /\ Goto(p, "build")
          /\ UNCHANGED <<allowed, live, script>>
    /\ UNCHANGED <<file, dns, diy, kernel, hash, steady, foreign, changes>>

\* build_new_script_with_global: resolve and render.
Build(p) ==
    /\ pc[p] = "build"
    /\ live' = [live EXCEPT ![p] = Pruned(dns, cells[p])]
    /\ script' = [script EXCEPT ![p] = Rendered(p)]
    /\ Goto(p, "compare")
    /\ UNCHANGED <<file, dns, lastGood, diy, kernel, hash, allowed, cells, cache,
                   steady, foreign, changes, faults>>

\* check_and_prepare reads the ruleset and only warns of a FORWARD policy that
\* drops; when nft or its answer fails, the round ends with the error, and with
\* it the process of the service.
PrepareFails(p) ==
    /\ Fault("prepare")
    /\ EndRound(p, "stop")
    /\ hash' = IF p = Service THEN None ELSE hash

\* check_and_prepare, then (service only) the comparison of the hashes.
Compare(p) ==
    /\ pc[p] = "compare"
    /\ \/ PrepareFails(p)
       \/ /\ p = Service /\ hash = script[p]
          /\ EndRound(p, "load")
          /\ UNCHANGED <<hash, faults>>
       \/ /\ p = Service => hash # script[p]
          /\ Goto(p, "apply")
          /\ UNCHANGED <<hash, locals, faults>>
    /\ UNCHANGED <<file, dns, lastGood, diy, kernel, steady, foreign, changes>>

\* Mutant: a failed apply is logged and the round goes on.
ApplySwallowed(p) ==
    /\ pc[p] = "apply"
    /\ diy' = script[p]
    /\ Goto(p, "record")
    /\ \/ /\ kernel' = script[p] /\ foreign' = (p # Service) /\ steady' = {}
          /\ UNCHANGED faults
       \/ Fault("apply") /\ UNCHANGED <<kernel, foreign, steady>>
    /\ UNCHANGED <<file, dns, lastGood, hash, locals, changes>>

\* The script file is written and applied.  A failed apply leaves the ruleset
\* and ends the round, the service's process with it.  When handle_loop cannot
\* create the file it applies the one that is there.
ApplyScript(p) ==
    /\ pc[p] = "apply"
    /\ \/ /\ diy' = script[p] /\ kernel' = script[p]
          /\ Goto(p, "record")
          /\ foreign' = (p # Service)
          /\ steady' = {}
          /\ UNCHANGED <<hash, locals, faults>>
       \/ /\ Fault("create") /\ p = Service /\ diy # None
          /\ kernel' = diy
          /\ Goto(p, "record")
          /\ foreign' = TRUE
          /\ steady' = {}
          /\ UNCHANGED <<diy, hash, locals>>
       \/ /\ Fault("apply")
          /\ diy' = script[p]
          /\ EndRound(p, "stop")
          /\ hash' = IF p = Service THEN None ELSE hash
          /\ UNCHANGED <<kernel, foreign, steady>>
    /\ UNCHANGED <<file, dns, lastGood, changes>>

\* After a successful apply: the cache is updated from the events and saved, and
\* the service remembers the script's hash.
Record(p) ==
    /\ pc[p] = "record"
    /\ Saved(Updated(p))
    /\ steady' = IF faults' = faults /\ kernel = script[p] /\ file # Invalid
                 THEN {r \in file.rules : script[p][r] # NoAddr} ELSE {}
    /\ hash' = IF p = Service THEN script[p] ELSE hash
    /\ EndRound(p, "load")
    /\ UNCHANGED <<file, dns, diy, kernel, foreign, changes>>
-----------------------------------------------------------------------------
(* Process control.                                                        *)

\* The service process is killed at any point; its memory is gone.
Kill ==
    /\ pc[Service] \notin {"off", "stop"} /\ Fault("kill")
    /\ EndRound(Service, "stop")
    /\ hash' = None
    /\ UNCHANGED <<file, dns, lastGood, diy, kernel, steady, foreign, changes>>

\* ExecStop of nat.service: every managed table is deleted, however the process
\* ended.
ExecStop ==
    /\ pc[Service] = "stop"
    /\ Goto(Service, "off")
    /\ kernel' = None
    /\ steady' = {} /\ foreign' = FALSE
    /\ UNCHANGED <<file, dns, lastGood, diy, hash, locals, changes, faults>>

\* systemd starts the service again (Restart=always); main parses the
\* configuration and prepares the host first, and exits when one of them fails.
Restart ==
    /\ pc[Service] = "off"
    /\ \/ file = Invalid /\ Goto(Service, "stop") /\ UNCHANGED faults
       \/ Fault("prepare") /\ Goto(Service, "stop")
       \/ file # Invalid /\ Goto(Service, "load") /\ UNCHANGED faults
    /\ UNCHANGED <<file, dns, lastGood, diy, kernel, hash, locals, steady, foreign,
                   changes>>

\* The operator asks the menu for a refresh.
StartRefresh(p) ==
    /\ p # Service /\ pc[p] = "off"
    /\ Goto(p, "load")
    /\ UNCHANGED <<file, dns, lastGood, diy, kernel, hash, locals, steady, foreign,
                   changes, faults>>
-----------------------------------------------------------------------------
(* Environment.                                                            *)

Change == changes < MaxChanges /\ changes' = changes + 1

\* The menu replaces the file in one rename; an editor passes through Invalid.
EditConfig ==
    /\ Change
    /\ file' \in Configs \cup (IF HandEdits THEN {Invalid} ELSE {})
    /\ file' # file
    /\ steady' = IF file' = Invalid THEN steady ELSE steady \cap file'.rules
    /\ UNCHANGED <<dns, lastGood, diy, kernel, hash, pc, locals, foreign, faults>>

\* A domain moves, stops resolving, or resolves again.
DnsChange ==
    /\ Change
    /\ \E r \in Rules, a \in Addrs \cup {NoAddr} :
          dns[r] # a /\ dns' = [dns EXCEPT ![r] = a]
    /\ UNCHANGED <<file, lastGood, diy, kernel, hash, pc, locals, steady, foreign, faults>>
-----------------------------------------------------------------------------
Round(p) ==
    \/ LoadRuntime(p) \/ ParseConf(p) \/ Build(p) \/ Compare(p)
    \/ ApplyScript(p) \/ Record(p)

Next ==
    \/ \E p \in Procs : Round(p) \/ StartRefresh(p)
    \/ Kill \/ ExecStop \/ Restart
    \/ EditConfig \/ DnsChange

Spec == Init /\ [][Next]_vars

\* The loop sleeps for at most MAIN_LOOP_MAX_SLEEP_SECS and systemd restarts the
\* process whenever it ends: the service keeps taking steps.  A refresh that has
\* begun goes on; nobody has to start one.
Fairness ==
    /\ WF_vars(Round(Service) \/ ExecStop \/ Restart)
    /\ \A p \in Procs \ {Service} : WF_vars(Round(p))

FairSpec == Spec /\ Fairness
-----------------------------------------------------------------------------
(* Properties.                                                             *)

\* The hash by which the service decides that nothing has to be applied
\* describes the ruleset in the kernel, between the rounds of the service and
\* within them, until someone else loads another one.
HashMatchesKernel ==
    hash # None /\ ~foreign /\ pc[Service] # "record" => kernel = hash

\* Every target the kernel forwards to is admitted by one configured egress
\* allow-list: no live answer and no cached address gets around egress_control.
OnePolicyAdmits ==
    kernel # None => \E S \in AllowLists : \A r \in Rules :
                         kernel[r] # NoAddr => kernel[r] \in S

\* A rule that is installed, recorded in the last-good cache and enabled ever
\* since is not lost, nor moved, by an apply whose round could not resolve it:
\* DNS failures reuse the address of the last successful resolution.
DnsOutageKeepsRule ==
    [][\A p \in Procs, r \in steady :
          /\ ApplyScript(p) /\ kernel' = script[p]
          /\ r \in cells[p] /\ live[p][r] = NoAddr /\ kernel[r] \in allowed[p]
          => script[p][r] = kernel[r]]_vars

\* What README.md says of a failed apply ("rolled back by itself"): a failure
\* leaves the rules that were installed in force.
FailureKeepsRules == [][kernel # None => kernel' # None]_vars

\* What the configuration, the DNS and the cache call for now.
Want ==
    LET target(r) == IF dns[r] # NoAddr THEN dns[r] ELSE lastGood[r]
    IN  [r \in Rules |-> IF r \in file.rules /\ target(r) \in file.allowed
                          THEN target(r) ELSE NoAddr]

\* Once the configuration and the DNS have settled, with a file that parses, the
\* ruleset comes to be what they call for and stays so: the service detects
\* every change and applies it, through failed applies, exits and restarts.
Converges == <>[](file # Invalid) => <>[](file # Invalid /\ kernel = Want)

\* The same, when a manual refresh was not the last to load the ruleset.
ConvergesIfOwn ==
    <>[](file # Invalid /\ ~foreign) => <>[](file # Invalid /\ kernel = Want)
=============================================================================
