------------------------------ MODULE RuleEdit ------------------------------
(***************************************************************************)
(* What the menu does to the list of rules (nat-cli/src/menu.rs): add,     *)
(* edit, delete, switch, set a quota.  Each operation is a function from   *)
(* the rules loaded to the set of the rules it would save: a singleton, or *)
(* {} when it refuses or has nothing to save.                              *)
(***************************************************************************)
EXTENDS Cells

SE == INSTANCE SequencesExt

\* A line of `ss`: its protocol and its local port, NoPort where the text after
\* the last colon is no number.
Listener(netid, port) == [netid |-> netid, port |-> port]

\* parse_ss_listening_conflicts: of whatever protocol the rule is for.
PortConflicts(ss, lo, hi) ==
    {l \in ss : l.netid \in {"tcp", "udp"} /\ l.port # NoPort /\ lo <= l.port /\ l.port <= hi}

\* confirm_port_conflict_override_interactive: a conflict needs a yes.  When ss
\* fails the operation goes on with a warning, as if nothing listened.
Proceeds(lo, hi, ss, yes) == yes \/ PortConflicts(ss, lo, hi) = {}

AddRule(rules, c, ss, yes) ==
    IF /\ c.lo # 0 /\ c.hi # 0 /\ c.target # NoText
       /\ Proceeds(c.lo, IF c.hi = NoPort THEN c.lo ELSE c.hi, ss, yes)
       /\ Valid(c)
    THEN {Append(rules, c)} ELSE {}

DeleteRule(rules, n) == IF n \in DOMAIN rules THEN {SE!RemoveAt(rules, n)} ELSE {}

ToggleRule(rules, n, on) ==
    IF n \in DOMAIN rules THEN {[rules EXCEPT ![n] = SetEnabled(@, on)]} ELSE {}

\* set_rule_quota_interactive: one of the three fields at a time.
SetRuleQuota(rules, n, field, value) ==
    IF n \in DOMAIN rules /\ IsForward(rules[n])
    THEN {[rules EXCEPT ![n].quota[field] = value]} ELSE {}

------------------------------------------------------------------------------
(* The editor.  A patch holds what the prompts were answered: <<>> or the   *)
(* empty value where the field is to be kept.                               *)

NoPatch == [sport |-> <<>>, target |-> NoText, dport |-> NoPort, protocol |-> "",
            flip |-> FALSE, snat |-> <<>>, comment |-> <<>>]

OnePort(c) == c.type = "single" \/ (c.type = "redirect" /\ c.hi = NoPort)
TargetOk(t) == t \in Names \cup Addresses

\* The prompts ask again until the answer is well formed, and for no field the
\* kind of rule has not.
NewSport(c, sport) ==
    /\ PortOk(sport[1]) /\ sport[1] <= sport[2]
    /\ OnePort(c) <=> sport[1] = sport[2]
NewTarget(c, target) == c.type # "redirect" /\ TargetOk(target)
NewPort(c, port) == c.type # "range" /\ PortOk(port)
NewSnat(c, ip) == c.type # "redirect" /\ (ip = NoText \/ ip \in V4)

\* prompt_rule_edit_patch
Answerable(c, p) ==
    /\ p.sport # <<>> => NewSport(c, p.sport)
    /\ p.target # NoText => NewTarget(c, p.target)
    /\ p.dport # NoPort => NewPort(c, p.dport)
    /\ p.snat # <<>> => NewSnat(c, p.snat[1])

Edited(c, p) ==
    [c EXCEPT !.enabled  = IF p.flip THEN ~@ ELSE @,
              !.lo       = IF p.sport = <<>> THEN @ ELSE p.sport[1],
              !.hi       = IF p.sport = <<>> \/ OnePort(c) THEN @ ELSE p.sport[2],
              !.target   = IF p.target = NoText THEN @ ELSE p.target,
              !.dport    = IF p.dport = NoPort THEN @ ELSE p.dport,
              !.protocol = IF p.protocol = "" THEN @ ELSE p.protocol,
              !.snat     = IF p.snat = <<>> THEN @ ELSE p.snat[1],
              !.comment  = IF p.comment = <<>> THEN @ ELSE p.comment[1]]

\* rule_edit_snapshot: a rule as the editor shows it.
Snapshot(c) ==
    LET ports == IF c.hi = NoPort THEN <<c.lo>> ELSE <<c.lo, c.hi>>
    IN [sport |-> ports, target |-> c.target,
        dport |-> IF c.type = "range" THEN ports ELSE <<c.dport>>,
        protocol |-> c.protocol, enabled |-> c.enabled, snat |-> SnatOf(c), comment |-> c.comment]

\* The comment left out of the comparison.
ChangedFieldsShort(old, new) ==
    {f \in DOMAIN Snapshot(old) \ {"comment"} : Snapshot(old)[f] # Snapshot(new)[f]}

ChangedFields(old, new) ==
    {f \in DOMAIN Snapshot(old) : Snapshot(old)[f] # Snapshot(new)[f]}

\* rule_edit_audit_detail: what the audit log says of an edit.
AuditDetail(n, old, new) ==
    [index |-> n - 1,
     old |-> [f \in ChangedFields(old, new) |-> Snapshot(old)[f]],
     new |-> [f \in ChangedFields(old, new) |-> Snapshot(new)[f]]]

Ingress(c) == [lo |-> c.lo, hi |-> IF c.hi = NoPort THEN c.lo ELSE c.hi,
               protocol |-> c.protocol, version |-> c.version]

\* Two ends that meet do overlap; forgetting it is an off-by-one.
OverlapsInside(a, b) ==
    /\ a.lo < b.hi /\ b.lo < a.hi
    /\ a.protocol = b.protocol \/ "all" \in {a.protocol, b.protocol}
    /\ a.version = b.version \/ "all" \in {a.version, b.version}

Overlaps(a, b) ==
    /\ a.lo <= b.hi /\ b.lo <= a.hi
    /\ a.protocol = b.protocol \/ "all" \in {a.protocol, b.protocol}
    /\ a.version = b.version \/ "all" \in {a.version, b.version}

\* find_rule_edit_conflicts: a rule that is off is in nobody's way.
Conflicts(rules, n, c) ==
    IF ~c.enabled THEN {}
    ELSE {m \in DOMAIN rules \ {n} : /\ IsForward(rules[m]) /\ Enabled(rules[m])
                                     /\ Overlaps(Ingress(c), Ingress(rules[m]))}

\* rule_edit_requires_port_conflict_check
PortCheckNeeded(old, new) ==
    \/ <<Ingress(old).lo, Ingress(old).hi>> # <<Ingress(new).lo, Ingress(new).hi>>
    \/ old.protocol # new.protocol
    \/ ~old.enabled /\ new.enabled

\* apply_rule_edit_to_config
Applied(rules, n, new) ==
    IF Valid(new) /\ Conflicts(rules, n, new) = {} THEN {[rules EXCEPT ![n] = new]} ELSE {}

\* edit_rule_interactive: a patch that changes nothing shown is not saved.
EditRule(rules, n, p, ss, yes) ==
    IF n \notin DOMAIN rules \/ ~IsForward(rules[n]) \/ ~Answerable(rules[n], p) THEN {}
    ELSE LET old == rules[n]
             new == Edited(old, p)
         IN IF /\ p # NoPatch /\ Valid(new) /\ ChangedFields(old, new) # {}
               /\ Conflicts(rules, n, new) = {}
               /\ PortCheckNeeded(old, new) => Proceeds(Ingress(new).lo, Ingress(new).hi, ss, yes)
            THEN Applied(rules, n, new) ELSE {}

------------------------------------------------------------------------------
(* prune_stale_rules: what stays in the last-good cache after an edit or a  *)
(* deletion.  An entry of an older version has no key: it is given that of  *)
(* the rule of its domain, if it is the only entry and there is exactly one *)
(* such rule, and dropped else.                                             *)

Heirs(cache, e, identities) ==
    IF e.key # NoKey THEN {r \in identities : r.key = e.key}
    ELSE LET same == {r \in identities : r.domain = e.domain}
         IN IF Cardinality(same) = 1 /\ \A d \in cache \ {e} : d.domain # e.domain
            THEN same ELSE {}

\* Entries matched by the number of the rule, which an edit or a deletion
\* above it changes.
PruneById(cache, identities) ==
    {[e EXCEPT !.key = (CHOOSE r \in identities : r.id = e.id).key] :
        e \in {d \in cache : \E r \in identities : r.id = d.id}}

PruneStale(cache, identities) ==
    {LET heir == CHOOSE r \in Heirs(cache, e, identities) : TRUE
     IN [e EXCEPT !.id = heir.id, !.key = heir.key, !.domain = heir.domain] :
        e \in {d \in cache : Heirs(cache, d, identities) # {}}}
=============================================================================
