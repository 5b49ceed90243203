----------------------------- MODULE Connectivity -----------------------------
(***************************************************************************)
(* The page that tests a forwarding rule (nat-cli/src/menu.rs,             *)
(* test_forward_interactive; nat-common/src/forward_test.rs): what it      *)
(* reads of the installed ruleset by the rule's id, and what it concludes, *)
(* beside what that ruleset does.                                          *)
(***************************************************************************)
EXTENDS RuleBuild

\* The cache is as a round of the service left it: pruned to the rules of the
\* configuration, one entry for a key (state_map_key), its address of the
\* family of the rule, and called allowed only if egress_control let it through.
ASSUME CacheAssumption ==
    \A cfg \in Configs : \A e \in cfg.cache :
        /\ \E r \in Identities(cfg.cells) : r.id = e.id /\ r.key = e.key
        /\ \A f \in cfg.cache : f.key = e.key => f = e
        /\ Fits(e.ip, e.key[5])
        /\ cfg.global /\ cfg.egress.enabled /\ e.allowed => e.ip \in cfg.egress.allowed

\* What the page learns from elsewhere: systemctl, the audit log, a TCP
\* connection to the target if one can be tried, and whether nft answered, the
\* first time it was asked and the second.
Services == {"active", "inactive", "failed", "unknown"}
Applies  == {"success", "fail", "unknown"}
Facts == [service : Services, apply : Applies, reachable : BOOLEAN,
          listed : BOOLEAN, relisted : BOOLEAN]

\* The rules that can be tested, disabled ones included, by place in the file.
Testable(cfg) == {n \in DOMAIN cfg.cells : IsForward(cfg.cells[n])}
RuleId(n) == n - 1

\* resolve_target: no filter against fake answers, and a literal of the wrong
\* family stands for itself.
ShownIp(c, dns) ==
    LET answers == dns.answers[c.target]
        fitting == {n \in 1..Len(answers) : Fits(answers[n], c.version)}
        v4s == {n \in fitting : answers[n] \in V4}
        first(places) == answers[CHOOSE n \in places : \A m \in places : n <= m]
    IN CASE c.type = "redirect" -> "127.0.0.1"
         [] c.type # "redirect" /\ c.target \in Addresses -> c.target
         [] OTHER -> IF fitting = {} THEN NoText
                     ELSE IF v4s # {} THEN first(v4s) ELSE first(fitting)

\* build_rule_resolution_display: the address the page shows, where it is
\* from, and what it says of it and egress_control ("" is nothing).  The
\* cache is looked up by the number of the rule, and shown if last_good is
\* enabled, whether or not it may be used when a look-up fails; of a cached
\* address the page repeats what the service noted when it last judged it.
NoAddress == [from |-> "none", ip |-> NoText, egress |-> ""]
Resolution(n, c, cfg) ==
    LET live   == ShownIp(c, cfg.dns)
        cached == {e \in cfg.cache : e.id = RuleId(n)}
        entry  == CHOOSE e \in cached : TRUE
        Word(allowed) == IF allowed THEN "allowed" ELSE "blocked"
    IN CASE live # NoText ->
              [from |-> "live", ip |-> live,
               egress |-> IF cfg.egress.enabled THEN Word(live \in cfg.egress.allowed) ELSE ""]
         [] live = NoText /\ cached # {} /\ cfg.lastGood.enabled ->
              [from |-> "last-good", ip |-> entry.ip, egress |-> Word(entry.allowed)]
         [] OTHER -> NoAddress

\* What lines tell: families by kind of comment, and the protocols matched.
Told(lines) ==
    LET FamiliesOf(verdicts) == {r.fam : r \in {l \in lines : l.verdict \in verdicts}}
    IN [nat |-> FamiliesOf({"dnat", "redirect"}),
        out |-> FamiliesOf({"out"}), in |-> FamiliesOf({"in"}),
        protos |-> UNION {r.proto : r \in {l \in lines : l.verdict \in {"dnat", "redirect"}}}]

\* The id taken as a prefix of the comment, which it is of every other.
PresencePrefix(rules, id) == Told({r \in rules : r.chain \in {"PREROUTING", "FORWARD"}})

\* detect_rule_in_nft_json
Presence(rules, id) ==
    Told({r \in rules : r.index = id /\ r.chain \in {"PREROUTING", "FORWARD"}})

\* detect_rule_shape
Shape(c) ==
    IF c.type = "redirect" \/ c.target \in {"localhost", "127.0.0.1", "::1"}
    THEN "redirect" ELSE "dnat"

Families(c) ==
    CASE c.version = "ipv4" -> {"ip"} [] c.version = "ipv6" -> {"ip6"}
      [] c.version = "all"  -> {"ip", "ip6"}

\* classify_nft_presence_with_shape
Classified(seen, c, facts) ==
    LET protocols == NftProto(c.protocol) \subseteq seen.protos
        whole == IF Shape(c) = "redirect" THEN seen.nat ELSE seen.nat \cap seen.out \cap seen.in
        any   == IF Shape(c) = "redirect" THEN seen.nat ELSE seen.nat \cup seen.out \cup seen.in
    IN CASE Families(c) \subseteq whole /\ protocols /\ any # {} -> "applied"
         [] ~(Families(c) \subseteq whole /\ protocols) /\ any # {} -> "partial"
         [] any = {} -> IF facts.service = "active" /\ facts.apply = "success"
                        THEN "unconfirmed" ELSE "not applied"

\* summarize_nft_probe_states
NatProbe(seen) == IF seen.nat # {} THEN "found" ELSE "missing"
FilterProbe(seen, c) ==
    CASE Shape(c) = "redirect" -> "not applicable"
      [] Shape(c) # "redirect" ->
           IF Families(c) \cap (seen.out \cup seen.in) # {} THEN "found" ELSE "missing"

\* NftConnectivityStatus: nothing is read of what cannot be there.
NftSection(c, cfg, seen, facts) ==
    CASE ~cfg.global -> [nat |-> "unchecked", filter |-> "unchecked", verdict |-> "global off"]
      [] cfg.global /\ ~c.enabled ->
           [nat |-> "missing", filter |-> "missing", verdict |-> "rule off"]
      [] cfg.global /\ c.enabled /\ ~facts.listed ->
           [nat |-> "unconfirmed", filter |-> "unconfirmed", verdict |-> "unconfirmed"]
      [] OTHER -> [nat |-> NatProbe(seen), filter |-> FilterProbe(seen, c),
                   verdict |-> Classified(seen, c, facts)]

\* tcp_connect_target: nothing is tried for udp, for a name that did not
\* resolve, nor for an IPv6 address, which without brackets is no socket address.
Probe(c, cfg, facts) ==
    IF c.protocol = "udp" \/ ShownIp(c, cfg.dns) \notin V4 THEN "none"
    ELSE IF facts.reachable THEN "yes" ELSE "no"

\* connectivity_conclusion_lines: the first thing wrong is what it says.
Conclusion(c, cfg, nft, facts) ==
    CASE ~cfg.global                     -> "global off"
      [] cfg.global /\ ~c.enabled        -> "rule off"
      [] cfg.global /\ c.enabled /\ facts.service # "active" -> "service down"
      [] cfg.global /\ c.enabled /\ facts.service = "active" /\ facts.apply # "success" -> "apply"
      [] OTHER ->
         IF Probe(c, cfg, facts) = "no" THEN "unreachable"
         ELSE IF nft.verdict # "applied" THEN nft.verdict
         ELSE IF c.protocol = "udp" \/ Probe(c, cfg, facts) = "yes" THEN "normal"
         ELSE "target unconfirmed"

------------------------------------------------------------------------------
(* The section on SNAT: "`resolve_snat_action` 的纯逻辑镜像"                 *)
(* (forward_test.rs:651).                                                   *)

NoSnat == "off"

\* family_snat_action without the legacy variable.
FamilySnatPlain(family, cfg) ==
    CASE cfg.snat.mode = "off"   -> NoSnat
      [] cfg.snat.mode = "fixed" -> IF family = "ip" THEN cfg.snat.fixed ELSE NoText
      [] cfg.snat.mode = "masquerade" -> NoText

\* family_snat_action; NoText stands for masquerade.  The page passes the
\* legacy variable of IPv4 only, from its own environment, and a blank one
\* counts for none.
FamilySnat(family, cfg) ==
    CASE cfg.snat.mode = "off"   -> NoSnat
      [] cfg.snat.mode = "fixed" -> IF family = "ip" THEN cfg.snat.fixed ELSE NoText
      [] cfg.snat.mode = "masquerade" ->
           IF family = "ip" /\ cfg.snat.shown # Blank THEN cfg.snat.shown ELSE NoText

\* snat_plan, for the IPv4 side
SnatPlan(c, cfg) == IF SnatOf(c) # NoText THEN SnatOf(c) ELSE FamilySnat("ip", cfg)

\* nft_json_contains_snat_to: anywhere in the ruleset, for whatever rule.
SnatListed(c, rules) == \E r \in rules : r.verdict = "snat" /\ r.to = SnatOf(c)

\* build_snat_egress_report: of a rule that is off nothing is looked up.
SnatCheck(c, cfg, rules, facts) ==
    CASE SnatOf(c) = NoText -> "none"
      [] SnatOf(c) # NoText ->
           IF ~(cfg.global /\ c.enabled /\ facts.relisted) THEN "unknown"
           ELSE IF SnatListed(c, rules) THEN "found" ELSE "missing"

\* render_snat_egress_section; the answers of `ip route` and `curl` are left
\* out, but for whether they are asked.
SnatSection(c, cfg, rules, facts) ==
    [to |-> SnatPlan(c, cfg), check |-> SnatCheck(c, cfg, rules, facts),
     asked |-> cfg.global /\ c.enabled /\ SnatOf(c) # NoText]

------------------------------------------------------------------------------
(* The page.                                                                *)

\* test_forward_interactive, render_connectivity_report_lines
Report(n, facts) ==
    LET c    == config.cells[n]
        nft  == NftSection(c, config, Presence(script, RuleId(n)), facts)
        snat == SnatSection(c, config, script, facts)
    IN [resolution |-> Resolution(n, c, config), nft |-> nft, snat |-> snat,
        tcp |-> IF config.global /\ c.enabled THEN Probe(c, config, facts) ELSE "none",
        outside |-> IF config.global /\ c.enabled THEN "try" ELSE "no hit",
        conclusion |-> Conclusion(c, config, nft, facts),
        warned |-> snat.check = "missing"]

Said(n, facts) == Report(n, facts).conclusion

------------------------------------------------------------------------------
(* Properties.                                                              *)

\* A rule is looked up by its place in the file, and marked in the ruleset
\* by its place among the enabled ones: where a disabled rule comes before,
\* the page speaks of another rule.
SameId(n) == \A m \in 1..(n - 1) : Enabled(config.cells[m])

\* What a rule claims of the traffic, whatever became of its target.
Claims(c, p) ==
    /\ IsForward(c) /\ Enabled(c)
    /\ p.port \in Listen(c) /\ p.proto \in NftProto(c.protocol)
    /\ c.version \in {"all", IF p.fam = "ip" THEN "ipv4" ELSE "ipv6"}

\* "服务端配置、nft 应用和目标连通性看起来正常" (menu.rs:7152): right after an
\* apply, connections to the port of a rule of which the page says so are
\* translated, if access_control admits their source and no policy drops them.
NormalIsTrue ==
    packet # NoPacket /\ packet.state = "new" /\ Admitted(packet.src) =>
        \A n \in Testable(config) :
            SameId(n) /\ Claims(config.cells[n], packet) =>
                \/ Translated \/ out.fate = "dropped"
                \/ \A facts \in Facts : Said(n, facts) # "normal"

\* "避免被误判为 Partial" (forward_test.rs:514): a rule for one family whose lines
\* are in the ruleset is found applied; for both families a rule has lines of
\* one only, and the page calls it half applied for ever.
NoFalseAlarm ==
    packet = NoPacket /\ config.global =>
        \A n \in Testable(config) :
            LET c == config.cells[n]
            IN /\ SameId(n) /\ Enabled(c) /\ (c.version # "all" \/ c.type = "redirect")
               /\ \E r \in CellRules(c, n - 1, config) : r.verdict \in {"dnat", "redirect"}
               /\ c.version # "all" \/ config.access.mode # "whitelist"
               => \A facts \in Facts :
                    Classified(Presence(script, RuleId(n)), c, facts) = "applied"

\* The sections of one page do not contradict each other: what is concluded
\* to be normal was found, and where an address of its own is set, found too.
SectionsAgree ==
    packet = NoPacket =>
        \A n \in Testable(config), facts \in Facts :
            LET page == Report(n, facts)
            IN page.conclusion = "normal" =>
                 /\ page.nft.nat = "found" /\ page.nft.filter # "missing"
                 /\ page.outside = "try" /\ page.tcp # "no"

\* "live IP egress_control 判断：allowed" (menu.rs:6609): an address that the page shows
\* and does not call blocked is the one in the lines of the rule, and a live one
\* it calls blocked keeps the rule out; unless answers are fake, which the
\* service refuses and the page does not look for.  Of a cached address this is
\* claimed where `usable` holds.
AddressHolds(usable) ==
    packet = NoPacket /\ config.global =>
        \A n \in Testable(config) :
            LET c == config.cells[n]
                shown == Resolution(n, c, config)
                answers == {c.target} \cup {config.dns.answers[c.target][m] :
                                               m \in 1..Len(config.dns.answers[c.target])}
            IN /\ SameId(n) /\ Enabled(c) /\ c.type # "redirect"
               /\ \A ip \in answers : ~Rejected(ip, config.dns)
               /\ c.target \in Addresses => Fits(c.target, c.version)
               => /\ /\ shown.ip # NoText /\ shown.egress # "blocked"
                     /\ usable \/ shown.from # "last-good"
                     => TargetIp(c, config) = shown.ip
                  /\ shown.from = "live" /\ shown.egress = "blocked" => TargetIp(c, config) = NoText

\* A cached address is the rule's if last_good is set to be used when a look-up
\* fails, which the page does not look at.
AddressIsTrue == AddressHolds(config.lastGood.onFailure)

\* "none (last-good disabled)" (menu.rs:6588) is shown where the cache is not
\* used, and "last-good (ip)" where it is.  It does not hold: with last_good
\* enabled but not for failures, an address is shown and the rule has no line.
CachedIsUsed == AddressHolds(TRUE)

\* What the page says of a rule agrees with what the ruleset does, either way.
PageIsTrue == NormalIsTrue /\ NoFalseAlarm /\ SectionsAgree /\ AddressIsTrue

\* "真实生成仍以 `resolve_snat_action` 为准" (forward_test.rs:652): the mirror agrees
\* with what it mirrors, so the address shown is the one in the rule's line, a
\* rule that is translated without one is shown as off, and no warning is given
\* of an address of its own that has a line.  Where the legacy variable decides
\* (`FromVariable`), this is claimed if `known` holds.
FromVariable(c, cfg) == SnatOf(c) = NoText /\ cfg.snat.mode = "masquerade"

PlanHolds(known) ==
    packet = NoPacket /\ config.global =>
        \A n \in Testable(config) :
            LET c == config.cells[n]
                Lines(verdict) == {r \in CellRules(c, n - 1, config) :
                                     r.fam = "ip" /\ r.verdict = verdict}
            IN Enabled(c) =>
               /\ (FromVariable(c, config) => known)
                  => \A r \in Lines("snat") : SnatPlan(c, config) = r.to
               /\ Lines("dnat") # {} /\ Lines("snat") = {} => SnatPlan(c, config) = NoSnat
               /\ Lines("snat") # {} => \A facts \in Facts : ~Report(n, facts).warned

\* The variable is that of the menu's process on the page and that of the
\* process that built the script in the line: the service has it from its unit
\* (EnvironmentFile=/opt/nat/env), a manual refresh from the menu.
PlanIsTrue == PlanHolds(config.snat.shown = config.snat.legacy.ip)

\* "与 `resolve_snat_action` 对齐" (forward_test.rs:704), for whatever the
\* environments.  It does not hold: the page does not read the service's.
PlanIsTrueAnywhere == PlanHolds(TRUE)
=============================================================================
