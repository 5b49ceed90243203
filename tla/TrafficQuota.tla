---------------------------- MODULE TrafficQuota ----------------------------
(***************************************************************************)
(* Traffic accounting and rule quotas: the collection of nft counters into *)
(* stats.json (nat-common/src/stats.rs, nat-cli/src/runtime.rs), the quota *)
(* round that disables a rule in /etc/nat.toml when its bytes of the       *)
(* period reach its limit (nat-common/src/quota.rs, nat-cli/src/           *)
(* quota_loop.rs), the part of the service's round that installs the       *)
(* enabled rules, and the menu operations on the same three files.         *)
(*                                                                         *)
(* A rule is its position in the file.  nft counters, stats.json and       *)
(* quota-state.json name it by an id r0, r1, ... given in order to the     *)
(* enabled rules; here the ids are 1, 2, ...  The two directions of a rule *)
(* are one counter.  Months behave as days do and are left out.  The clock *)
(* of the statistics (local) and that of the quota (UTC) are one clock:    *)
(* the host's time zone is UTC.                                            *)
(***************************************************************************)
EXTENDS Integers, FiniteSets, Functions

CONSTANTS
    Service,    \* the process of nat.service
    Menu,       \* the process of an operator's menu
    MenuOps,    \* what the operator does: a subset of MenuKinds
    N,          \* number of rules in the file
    Limit,      \* quota_bytes of each rule, 0: no quota
    Daily,      \* the rules whose quota period is daily; the others: total
    Faults,     \* which faults may happen
    Unseen,     \* a counter that was never collected
    MaxBytes,   \* bound on the bytes forwarded
    MaxDay,     \* bound on the clock
    MaxEdits,   \* bound on the operations of the menu
    MaxFaults   \* bound on the faults

Rules == 1 .. N
Ids   == 1 .. N
MenuKinds  == {"show", "reset", "toggle"}
FaultKinds == {"nft", "stats", "write", "save", "apply", "kill"}

ASSUME TrafficQuotaAssumption ==
    /\ Service # Menu
    /\ MenuOps \subseteq MenuKinds
    /\ N \in Nat
    /\ Limit \in [Rules -> Nat]
    /\ Daily \subseteq Rules
    /\ Faults \subseteq FaultKinds
    /\ Unseen \notin Nat
    /\ MaxBytes \in Nat /\ MaxDay \in Nat /\ MaxEdits \in Nat /\ MaxFaults \in Nat

Procs == {Service, Menu}

VARIABLES
    enabled,    \* /etc/nat.toml: the enabled rules
    live,       \* the rules of the kernel's ruleset, numbered in order
    counter,    \* nft: bytes counted for an id since the ruleset was installed
    stats,      \* stats.json
    notified,   \* quota-state.json: <<id, period key>>
    today,      \* the clock, in days
    hash,       \* latest_script_hash: {}, or {the rules applied last}
    pc,         \* next step of each process
    snap,       \* nft -j list ruleset, and the day it was taken, per process
    mem,        \* stats.json as loaded, per process
    conf,       \* nat.toml as read, per process
    back,       \* where a process goes on after a collection
    round,      \* the quota round: its day, rules over quota, notified keys
    edits, faults,  \* bounds
    passed,     \* history: bytes that went through each id
    own,        \* history: bytes of each rule
    notices,    \* history: how often each key was notified
    excuses,    \* history: events after which a notice may be repeated
    owed        \* history: rules re-enabled, whose next excess is owed a notice

file  == <<enabled, stats, notified>>
nft   == <<live, counter>>
ghost == <<passed, own, notices, excuses, owed>>
vars  == <<enabled, live, counter, stats, notified, today, hash, pc, snap, mem,
           conf, back, round, edits, faults, passed, own, notices, excuses, owed>>

(***************************************************************************)
(* Pure part: numbering, usage, folding a snapshot into the statistics.    *)
(***************************************************************************)
\* The id of rule i when the rules of S are the enabled ones.
IdIn(S, i) == Cardinality({j \in S : j <= i})

TotalKey == 0
Days == 0 .. MaxDay
Keys == Ids \X Days

Zero  == [k \in Ids |-> 0]
Fresh == [last |-> [k \in Ids |-> Unseen], day |-> Zero, total |-> Zero,
          dayTotal |-> 0, lastDay |-> 0]

\* A snapshot: the ids that have a counter, their bytes, the day.
NoSnap == [ids |-> {}, bytes |-> Zero, day |-> 0]

Rolled(s, day) ==
    IF s.lastDay = day THEN s
    ELSE [s EXCEPT !.day = Zero, !.dayTotal = 0, !.lastDay = day]

DeltaUnguarded(last, bytes) ==      \* mutant: no reset detection
    IF last # Unseen THEN bytes - last ELSE 0

ResetAsDistance(last, bytes) ==     \* mutant: no reset detection, abs_diff
    IF last = Unseen THEN 0 ELSE IF bytes >= last THEN bytes - last ELSE last - bytes

\* The first sight of a counter and a counter that went back count nothing.
Delta(last, bytes) == IF last # Unseen /\ bytes >= last THEN bytes - last ELSE 0

FoldOnStaleDay(s, n) ==             \* mutant: rollover keeps daily_total_bytes
    LET d == [k \in Ids |-> IF k \in n.ids THEN Delta(s.last[k], n.bytes[k]) ELSE 0]
        b == IF s.lastDay = n.day THEN s.day ELSE Zero
    IN  [last |-> [k \in Ids |-> IF k \in n.ids THEN n.bytes[k] ELSE s.last[k]],
         day |-> [k \in Ids |-> b[k] + d[k]],
         total |-> [k \in Ids |-> s.total[k] + d[k]],
         dayTotal |-> s.dayTotal + SumFunction(d), lastDay |-> n.day]

Fold(s, n) ==
    LET r == Rolled(s, n.day)
        d == [k \in Ids |-> IF k \in n.ids THEN Delta(s.last[k], n.bytes[k]) ELSE 0]
    IN  [last     |-> [k \in Ids |-> IF k \in n.ids THEN n.bytes[k] ELSE s.last[k]],
         day      |-> [k \in Ids |-> r.day[k] + d[k]],
         total    |-> [k \in Ids |-> r.total[k] + d[k]],
         dayTotal |-> r.dayTotal + SumFunction(d),
         lastDay  |-> n.day]

Used(s, S, i) == IF i \in Daily THEN s.day[IdIn(S, i)] ELSE s.total[IdIn(S, i)]

\* The enabled rules of S whose quota is exceeded.
Over(s, S) == {i \in S : Limit[i] > 0 /\ Used(s, S, i) >= Limit[i]}

NotifyKey(S, i, day) == <<IdIn(S, i), IF i \in Daily THEN day ELSE TotalKey>>

-----------------------------------------------------------------------------
NoRound == [day |-> 0, over |-> {}, known |-> {}]

Labels == {"idle", "list", "load", "save", "telegram", "quota", "decide", "write",
           "notify", "mark", "refresh", "apply", "reset", "toggle", "store"}

TypeOK ==
    /\ enabled \subseteq Rules /\ live \subseteq Rules
    /\ counter \in [Ids -> Nat]
    /\ \A s \in {stats} \cup {mem[p] : p \in Procs} :
          /\ s.last \in [Ids -> Nat \cup {Unseen}]
          /\ s.day \in [Ids -> Nat] /\ s.total \in [Ids -> Nat]
          /\ s.dayTotal \in Nat /\ s.lastDay \in Days
    /\ notified \subseteq Keys
    /\ today \in Days
    /\ hash \in SUBSET (SUBSET Rules)
    /\ pc \in [Procs -> Labels] /\ back \in [Procs -> Labels]
    /\ \A p \in Procs : /\ snap[p].ids \subseteq Ids /\ snap[p].bytes \in [Ids -> Nat]
                        /\ snap[p].day \in Days
    /\ conf \in [Procs -> SUBSET Rules]
    /\ round.day \in Days /\ round.over \subseteq Rules /\ round.known \subseteq Keys
    /\ edits \in 0 .. MaxEdits /\ faults \in 0 .. MaxFaults
    /\ passed \in [Ids -> Nat] /\ own \in [Rules -> Nat]
    /\ notices \in [Keys -> Nat] /\ excuses \in Nat /\ owed \subseteq Rules

Init ==
    /\ enabled \in SUBSET Rules
    /\ live = {} /\ counter = Zero
    /\ stats = Fresh /\ notified = {}
    /\ today = 1
    /\ hash = {}
    /\ pc = [p \in Procs |-> IF p = Service THEN "list" ELSE "idle"]
    /\ back = [p \in Procs |-> IF p = Service THEN "quota" ELSE "idle"]
    /\ snap = [p \in Procs |-> NoSnap] /\ mem = [p \in Procs |-> Fresh]
    /\ conf = [p \in Procs |-> {}]
    /\ round = NoRound
    /\ edits = 0 /\ faults = 0
    /\ passed = Zero /\ own = [i \in Rules |-> 0]
    /\ notices = [k \in Keys |-> 0] /\ excuses = 0 /\ owed = {}

Goto(p, l) == pc' = [pc EXCEPT ![p] = l]

Fault(kind) == kind \in Faults /\ faults < MaxFaults /\ faults' = faults + 1

-----------------------------------------------------------------------------
(***************************************************************************)
(* The kernel and the clock.                                               *)
(***************************************************************************)
\* A byte of rule i is counted under the id the rule has in the ruleset.
Traffic(i) ==
    /\ i \in live
    /\ SumFunction(passed) < MaxBytes
    /\ LET k == IdIn(live, i) IN
          /\ counter' = [counter EXCEPT ![k] = @ + 1]
          /\ passed'  = [passed EXCEPT ![k] = @ + 1]
    /\ own' = [own EXCEPT ![i] = @ + 1]
    /\ UNCHANGED <<file, live, today, hash, pc, snap, mem, conf, back, round,
                   edits, faults, notices, excuses, owed>>

Midnight ==
    /\ today < MaxDay
    /\ today' = today + 1
    /\ UNCHANGED <<file, nft, hash, pc, snap, mem, conf, back, round, edits,
                   faults, ghost>>

-----------------------------------------------------------------------------
(***************************************************************************)
(* A collection: list the counters, load the statistics, fold, save, and   *)
(* perhaps send the report and save once more.                             *)
(***************************************************************************)
\* nft -j list ruleset; when it fails the collection is given up.
List(p) ==
    /\ pc[p] = "list"
    /\ \/ /\ snap' = [snap EXCEPT ![p] = [ids |-> 1 .. Cardinality(live),
                                           bytes |-> counter, day |-> today]]
          /\ Goto(p, "load")
          /\ UNCHANGED faults
       \/ /\ Fault("nft")
          /\ Goto(p, back[p])
          /\ UNCHANGED snap
    /\ UNCHANGED <<file, nft, today, hash, mem, conf, back, round, edits, ghost>>

\* What p may read of stats.json: a save in progress leaves it cut short,
\* and load_state takes a file that does not parse for an empty one.
Readable(p) ==
    {stats} \cup (IF \E q \in Procs \ {p} : pc[q] \in {"save", "telegram", "reset"}
                  THEN {Fresh} ELSE {})

Load(p) ==
    /\ pc[p] = "load"
    /\ \E s \in Readable(p) : mem' = [mem EXCEPT ![p] = s]
    /\ Goto(p, "save")
    /\ UNCHANGED <<file, nft, today, hash, snap, conf, back, round, edits,
                   faults, ghost>>

\* fs::write: a failure may come before or after the file is truncated.
StatsLost == Fault("stats") /\ stats' \in {stats, Fresh}

Save(p) ==
    /\ pc[p] = "save"
    /\ LET s == Fold(mem[p], snap[p]) IN
          \/ /\ stats' = s
             /\ mem' = [mem EXCEPT ![p] = IF p = Service THEN s ELSE Fresh]
             /\ Goto(p, IF p = Service THEN "telegram" ELSE "idle")
             /\ UNCHANGED faults
          \/ /\ StatsLost
             /\ mem' = [mem EXCEPT ![p] = Fresh]
             /\ Goto(p, back[p])
    /\ snap' = [snap EXCEPT ![p] = NoSnap]
    /\ UNCHANGED <<enabled, notified, nft, today, hash, conf, back, round,
                   edits, ghost>>

\* The report is not due, or is not delivered; or it is, and the state of the
\* collection is saved again, seconds later, with the time of the report.
Report ==
    /\ pc[Service] = "telegram"
    /\ \/ UNCHANGED <<stats, faults>>
       \/ stats' = mem[Service] /\ UNCHANGED faults
       \/ StatsLost
    /\ mem' = [mem EXCEPT ![Service] = Fresh]
    /\ Goto(Service, back[Service])
    /\ UNCHANGED <<enabled, notified, nft, today, hash, snap, conf, back, round,
                   edits, ghost>>

SkipCollect ==
    /\ pc[Service] = "list" /\ back[Service] = "quota"
    /\ Goto(Service, "quota")
    /\ UNCHANGED <<file, nft, today, hash, snap, mem, conf, back, round, edits,
                   faults, ghost>>

-----------------------------------------------------------------------------
(***************************************************************************)
(* The quota round.                                                        *)
(***************************************************************************)
SkipQuota ==
    /\ pc[Service] = "quota"
    /\ Goto(Service, "refresh")
    /\ UNCHANGED <<file, nft, today, hash, snap, mem, conf, back, round, edits,
                   faults, ghost>>

ReadConfig ==
    /\ pc[Service] = "quota"
    /\ conf' = [conf EXCEPT ![Service] = enabled]
    /\ round' = [NoRound EXCEPT !.day = today]
    /\ Goto(Service, "decide")
    /\ UNCHANGED <<file, nft, today, hash, snap, mem, back, edits, faults, ghost>>

Decide ==
    /\ pc[Service] = "decide"
    /\ \E s \in Readable(Service) :
          LET over == Over(s, conf[Service]) IN
          IF over = {}
          THEN round' = NoRound /\ Goto(Service, "refresh")
          ELSE /\ round' = [round EXCEPT !.over = over, !.known = notified]
               /\ Goto(Service, "write")
    /\ UNCHANGED <<file, nft, today, hash, snap, mem, conf, back, edits, faults,
                   ghost>>

WriteDropped ==                     \* mutant: a round that decides but does not write
    /\ pc[Service] = "write"
    /\ Goto(Service, "notify")
    /\ UNCHANGED <<file, nft, today, hash, snap, mem, conf, back, round, edits,
                   faults, ghost>>

\* The file is written back as it was read, the rules over quota disabled.
\* When it cannot be written the round ends and nothing is remembered.
WriteConfig ==
    /\ pc[Service] = "write"
    /\ \/ /\ enabled' = conf[Service] \ round.over
          /\ Goto(Service, "notify")
          /\ UNCHANGED <<round, faults>>
       \/ /\ Fault("write")
          /\ round' = NoRound
          /\ Goto(Service, "refresh")
          /\ UNCHANGED enabled
    /\ UNCHANGED <<stats, notified, nft, today, hash, snap, mem, conf, back,
                   edits, ghost>>

NotifyAlways ==                     \* mutant: no look at the notified keys
    /\ pc[Service] = "notify"
    /\ LET keys == {NotifyKey(conf[Service], i, round.day) : i \in round.over} IN
          /\ notices' = [k \in Keys |-> notices[k] + (IF k \in keys THEN 1 ELSE 0)]
          /\ round' = [round EXCEPT !.known = @ \cup keys]
    /\ owed' = owed \ round.over
    /\ Goto(Service, "mark")
    /\ UNCHANGED <<file, nft, today, hash, snap, mem, conf, back, edits, faults,
                   passed, own, excuses>>

\* A key is marked whether or not its message was delivered.
Notify ==
    /\ pc[Service] = "notify"
    /\ LET keys == {NotifyKey(conf[Service], i, round.day) : i \in round.over} IN
          /\ notices' = [k \in Keys |->
                            notices[k] + (IF k \in keys \ round.known THEN 1 ELSE 0)]
          /\ round' = [round EXCEPT !.known = @ \cup keys]
    /\ owed' = owed \ round.over
    /\ Goto(Service, "mark")
    /\ UNCHANGED <<file, nft, today, hash, snap, mem, conf, back, edits, faults,
                   passed, own, excuses>>

Mark ==
    /\ pc[Service] = "mark"
    /\ \/ notified' = round.known /\ UNCHANGED <<faults, excuses>>
       \/ Fault("save") /\ excuses' = excuses + 1 /\ UNCHANGED notified
    /\ round' = NoRound
    /\ Goto(Service, "refresh")
    /\ UNCHANGED <<enabled, stats, nft, today, hash, snap, mem, conf, back,
                   edits, passed, own, notices, owed>>

-----------------------------------------------------------------------------
(***************************************************************************)
(* The end of the service's round: read the rules, and when the script is  *)
(* not the one applied last, collect a last time and apply it.             *)
(***************************************************************************)
NextRound == Goto(Service, "list") /\ back' = [back EXCEPT ![Service] = "quota"]

SkipRefresh ==
    /\ pc[Service] = "refresh"
    /\ NextRound
    /\ UNCHANGED <<file, nft, today, hash, snap, mem, conf, round, edits, faults,
                   ghost>>

\* The script may differ from the last one for another reason than the rules:
\* an address of a target changed.
Refresh ==
    /\ pc[Service] = "refresh"
    /\ conf' = [conf EXCEPT ![Service] = enabled]
    /\ \/ hash = {enabled} /\ NextRound
       \/ Goto(Service, "list") /\ back' = [back EXCEPT ![Service] = "apply"]
    /\ UNCHANGED <<file, nft, today, hash, snap, mem, round, edits, faults, ghost>>

\* The process has ended: ExecStop deletes the managed tables, systemd starts
\* the process again.
ExecStop == live' = {} /\ counter' = Zero /\ hash' = {}

\* A new ruleset starts with counters at zero.  A failed apply ends the process.
Apply ==
    /\ pc[Service] = "apply"
    /\ \/ /\ live' = conf[Service] /\ counter' = Zero
          /\ hash' = {conf[Service]}
          /\ UNCHANGED faults
       \/ Fault("apply") /\ ExecStop
    /\ conf' = [conf EXCEPT ![Service] = {}]
    /\ NextRound
    /\ UNCHANGED <<file, today, snap, mem, round, edits, ghost>>

\* The service dies anywhere, in the middle of a save too, and starts again.
Kill ==
    /\ Fault("kill")
    /\ stats' \in {stats} \cup (IF pc[Service] \in {"save", "telegram"}
                                THEN {Fresh} ELSE {})
    /\ snap' = [snap EXCEPT ![Service] = NoSnap]
    /\ mem'  = [mem EXCEPT ![Service] = Fresh]
    /\ conf' = [conf EXCEPT ![Service] = {}]
    /\ round' = NoRound
    /\ ExecStop
    /\ excuses' = excuses + 1
    /\ NextRound
    /\ UNCHANGED <<enabled, notified, today, edits, passed, own, notices, owed>>

-----------------------------------------------------------------------------
(***************************************************************************)
(* The menu.                                                               *)
(***************************************************************************)
Operate(kind) ==
    /\ kind \in MenuOps /\ pc[Menu] = "idle"
    /\ edits < MaxEdits /\ edits' = edits + 1

\* Opening the statistics collects once.
ShowStats ==
    /\ Operate("show")
    /\ Goto(Menu, "list")
    /\ UNCHANGED <<file, nft, today, hash, snap, mem, conf, back, round, faults,
                   ghost>>

BeginReset ==
    /\ Operate("reset")
    /\ \E s \in Readable(Menu) : mem' = [mem EXCEPT ![Menu] = s]
    /\ Goto(Menu, "reset")
    /\ UNCHANGED <<file, nft, today, hash, snap, conf, back, round, faults, ghost>>

ResetIdsOnly ==                     \* mutant: daily_total_bytes is kept
    /\ pc[Menu] = "reset"
    /\ stats' = [mem[Menu] EXCEPT !.day = Zero]
    /\ mem' = [mem EXCEPT ![Menu] = Fresh]
    /\ Goto(Menu, "idle")
    /\ UNCHANGED <<enabled, notified, nft, today, hash, snap, conf, back, round,
                   edits, faults, ghost>>

ResetDaily ==
    /\ pc[Menu] = "reset"
    /\ \/ /\ stats' = [mem[Menu] EXCEPT !.day = Zero, !.dayTotal = 0]
          /\ UNCHANGED faults
       \/ StatsLost
    /\ mem' = [mem EXCEPT ![Menu] = Fresh]
    /\ Goto(Menu, "idle")
    /\ UNCHANGED <<enabled, notified, nft, today, hash, snap, conf, back, round,
                   edits, ghost>>

\* The file is read before the operator is asked for the rule.
OpenToggle ==
    /\ Operate("toggle")
    /\ conf' = [conf EXCEPT ![Menu] = enabled]
    /\ Goto(Menu, "toggle")
    /\ UNCHANGED <<file, nft, today, hash, snap, mem, back, round, faults, ghost>>

\* Enabling a rule with a quota forgets the notices of the id that the rule's
\* place in the file gives, before the file is saved.
ChooseEnable(i) ==
    /\ pc[Menu] = "toggle"
    /\ conf' = [conf EXCEPT ![Menu] = @ \cup {i}]
    /\ IF Limit[i] > 0
       THEN notified' = {n \in notified : n[1] # i} /\ excuses' = excuses + 1
       ELSE UNCHANGED <<notified, excuses>>
    /\ Goto(Menu, "store")
    /\ UNCHANGED <<enabled, stats, nft, today, hash, snap, mem, back, round,
                   edits, faults, passed, own, notices, owed>>

ChooseDisable(i) ==
    /\ pc[Menu] = "toggle"
    /\ conf' = [conf EXCEPT ![Menu] = @ \ {i}]
    /\ Goto(Menu, "store")
    /\ UNCHANGED <<file, nft, today, hash, snap, mem, back, round, edits, faults,
                   ghost>>

Cancel ==
    /\ pc[Menu] = "toggle"
    /\ conf' = [conf EXCEPT ![Menu] = {}]
    /\ Goto(Menu, "idle")
    /\ UNCHANGED <<file, nft, today, hash, snap, mem, back, round, edits, faults,
                   ghost>>

StoreToggle ==
    /\ pc[Menu] = "store"
    /\ \/ /\ enabled' = conf[Menu]
          /\ owed' = (owed \cap conf[Menu]) \cup (conf[Menu] \ enabled)
          /\ UNCHANGED faults
       \/ Fault("write") /\ UNCHANGED <<enabled, owed>>
    /\ conf' = [conf EXCEPT ![Menu] = {}]
    /\ Goto(Menu, "idle")
    /\ UNCHANGED <<stats, notified, nft, today, hash, snap, mem, back, round,
                   edits, passed, own, notices, excuses>>

-----------------------------------------------------------------------------
Collect(p) == List(p) \/ Load(p) \/ Save(p)

ServiceStep ==
    \/ Collect(Service) \/ Report \/ SkipCollect
    \/ SkipQuota \/ ReadConfig \/ Decide \/ WriteConfig \/ Notify \/ Mark
    \/ SkipRefresh \/ Refresh \/ Apply

MenuStep ==
    \/ ShowStats \/ Collect(Menu)
    \/ BeginReset \/ ResetDaily
    \/ OpenToggle \/ (\E i \in Rules : ChooseEnable(i) \/ ChooseDisable(i))
    \/ Cancel \/ StoreToggle

Next ==
    \/ (\E i \in Rules : Traffic(i)) \/ Midnight
    \/ ServiceStep \/ Kill
    \/ MenuStep

Spec == Init /\ [][Next]_vars

\* The service keeps going round, and its intervals make every part of the
\* round due again and again.  The menu finishes what needs no operator.
Fairness == /\ WF_vars(ServiceStep)
            /\ WF_vars(Collect(Menu) \/ ResetDaily)
            /\ SF_vars(ReadConfig)
            /\ SF_vars(Refresh)

FairSpec == Spec /\ Fairness

-----------------------------------------------------------------------------
(***************************************************************************)
(* Properties.                                                             *)
(***************************************************************************)
(* No id is ever credited with more bytes than went through it, whatever   *)
(* collections, resets of the counters, crashes and torn files come in     *)
(* between (stats.rs:367-381, the delta against last_counters), while the  *)
(* service is the only one to collect.                                     *)
NeverOvercounts == edits = 0 => \A k \in Ids : stats.total[k] <= passed[k]

(* stats.json is a consistent ledger: today's total is the sum of today's  *)
(* ids, and today's bytes of an id are part of its total, across           *)
(* rollovers, resets and saves of stale copies (stats.rs:354-399).         *)
Ledger ==
    /\ stats.dayTotal = SumFunction(stats.day)
    /\ \A k \in Ids : stats.day[k] <= stats.total[k]

(* A key is notified once; each further notice is paid for by a crash, a   *)
(* lost save of quota-state.json or an operator's clearing                 *)
(* (quota_loop.rs:169-209, quota.rs:73-86).                                *)
NoticesDeduplicated == \A k \in Keys : notices[k] <= 1 + excuses

(* The first rules a quota disables exceeded it by their own traffic: as   *)
(* long as no rule was disabled the ids mean the same rules everywhere     *)
(* (quota.rs:127-145 against the numbering of the installed ruleset), if   *)
(* the service is the only one to collect.                                 *)
FirstDisabledByOwnTraffic ==
    [][\A i \in Rules :
          edits = 0 /\ enabled = Rules /\ i \notin enabled' => own[i] >= Limit[i]]_vars

(* An enabled rule whose id is credited with its limit does not stay in    *)
(* the kernel, unless the credit is withdrawn by a rollover, a reset or    *)
(* the loss of the statistics, or the rule escapes to another id because   *)
(* one before it was enabled or disabled (quota_loop.rs:44-212,            *)
(* main.rs:184-391).                                                       *)
Credit(s, k, i) == IF i \in Daily THEN s.day[k] ELSE s.total[k]

QuotaEnforced ==
    \A i \in Rules, k \in Ids :
        (/\ i \in enabled /\ k = IdIn(enabled, i)
         /\ Limit[i] > 0 /\ Credit(stats, k, i) >= Limit[i])
        ~> (\/ i \notin live
            \/ Credit(stats, k, i) < Limit[i]
            \/ k # IdIn(enabled \cup {i}, i))

(* What quota.rs:3-4 says: a rule is disabled when its own traffic of the  *)
(* period reached quota_bytes.  The ids are positional: once a rule is     *)
(* disabled, the next one inherits its id and the bytes credited to it.    *)
DisabledForOwnTraffic ==
    [][\A i \in Rules :
          pc[Service] = "write" /\ i \in enabled /\ i \notin enabled'
              => own[i] >= Limit[i]]_vars

(* What quota.rs:81-82 says: after an operator enabled a rule again, its   *)
(* next excess is notified again.  The menu clears the id of the rule's    *)
(* place in the file, not the one it has among the enabled rules.          *)
ReenabledIsNotified ==
    [][\A i \in Rules :
          pc[Service] = "notify" /\ pc'[Service] = "mark" /\ i \in round.over \cap owed
              => LET k == NotifyKey(conf[Service], i, round.day) IN
                     notices'[k] > notices[k]]_vars

(* What quota.rs:3 says: the bytes of the current period decide.  The      *)
(* round takes the day's bytes as the last collection left them, even      *)
(* when that was before midnight.                                          *)
CurrentPeriodDecides ==
    [][pc[Service] = "decide" /\ pc'[Service] = "write"
          => \A i \in round'.over \cap Daily : stats.lastDay >= round.day]_vars

=============================================================================
