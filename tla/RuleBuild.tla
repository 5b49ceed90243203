------------------------------ MODULE RuleBuild ------------------------------
(***************************************************************************)
(* From a configuration to the nftables script, and from the script to     *)
(* what happens to a packet: the builders of nat-cli/src/config.rs, the    *)
(* resolution of nat-cli/src/ip.rs and build_new_script_with_global of     *)
(* nat-cli/src/main.rs.                                                    *)
(*                                                                         *)
(* A script is a set of nft rules, each with its place in its chain, so    *)
(* that a chain is read in the order the text is written.  A configuration *)
(* is loaded once and packets are then judged one at a time by the script; *)
(* `out` is the fate of the last one.                                      *)
(***************************************************************************)
EXTENDS Cells

CONSTANTS
    Configs,    \* the configurations to build scripts from
    Packets     \* the packets that arrive

Packet(f, src, dst, proto, port, state) ==
    [fam |-> f, src |-> src, dst |-> dst, proto |-> proto, port |-> port, state |-> state]

\* A packet's source is an address of its own family; the modes are
\* enumerations.
ASSUME RulesetAssumption ==
    /\ \A p \in Packets : /\ p = Packet(p.fam, p.src, p.dst, p.proto, p.port, p.state)
                          /\ p.fam \in {"ip", "ip6"}
                          /\ p.src \in IF p.fam = "ip6" THEN V6 ELSE V4
                          /\ p.dst \in Addresses \cup {NoText}
    /\ \A cfg \in Configs :
         /\ cfg.access = [mode |-> cfg.access.mode, entries |-> cfg.access.entries]
         /\ cfg.access.mode \in {"off", "whitelist", "blacklist"}
         /\ cfg.snat.mode \in {"off", "fixed", "masquerade"}
         /\ Len(cfg.cells) \in Nat /\ DOMAIN cfg.cells = 1..Len(cfg.cells)
         /\ \A n \in 1..Len(cfg.cells) : IsCell(cfg.cells[n])

VARIABLES
    config,     \* the configuration loaded, with the DNS and cache it saw
    script,     \* the managed ruleset built from it
    packet,     \* the last packet
    out         \* its fate

vars == <<config, script, packet, out>>

Self == NoText                  \* as a destination: this host
AnyDst == Addresses \cup {Self}
AnyProto == {"tcp", "udp", "icmp"}

Family(a) == IF a \in V6 THEN "ip6" ELSE "ip"

------------------------------------------------------------------------------
(* Resolution (ip.rs): a literal stands for itself; otherwise IPv4 answers  *)
(* come first, and one fake answer condemns the whole resolution.           *)

Fits(ip, version) ==
    \/ version = "all"
    \/ version = "ipv4" /\ ip \in V4
    \/ version = "ipv6" /\ ip \in V6

Rejected(ip, dns) == dns.rejectFake /\ ip \in dns.fake

RemoteIp(target, version, dns) ==
    LET answers == dns.answers[target]
        fitting == {n \in 1..Len(answers) : Fits(answers[n], version)}
        v4s == {n \in fitting : answers[n] \in V4}
        first(places) == answers[CHOOSE n \in places : \A m \in places : n <= m]
    IN IF target \in Addresses
       THEN IF Fits(target, version) /\ ~Rejected(target, dns) THEN target ELSE NoText
       ELSE IF fitting = {} \/ \E n \in fitting : Rejected(answers[n], dns) THEN NoText
       ELSE IF v4s # {} THEN first(v4s) ELSE first(fitting)

\* fallback_ip_for_rule: both switches of last_good must be on.
FallsBack(cfg) == cfg.lastGood.enabled /\ cfg.lastGood.onFailure

\* The address a rule sends to: the live one, or else the one cached under
\* the rule's key, if the cache may be used and the family fits.
ResolvedIp(c, cfg) ==
    LET live == RemoteIp(c.target, c.version, cfg.dns)
        cached == {e.ip : e \in {d \in cfg.cache : d.key = RuleKey(c) /\ Fits(d.ip, c.version)}}
    IN IF live # NoText THEN live
       ELSE IF FallsBack(cfg) /\ RuleKey(c) # NoKey /\ cached # {}
       THEN CHOOSE ip \in cached : TRUE
       ELSE NoText

\* The cached address escapes egress_control.
TargetIpCachedFree(c, cfg) ==
    LET ip == ResolvedIp(c, cfg)
    IN IF /\ cfg.egress.enabled /\ ip \notin cfg.egress.allowed
          /\ RemoteIp(c.target, c.version, cfg.dns) # NoText
       THEN NoText ELSE ip

\* The last-good address is held to egress_control like a live one.
TargetIp(c, cfg) ==
    LET ip == ResolvedIp(c, cfg)
    IN IF cfg.egress.enabled /\ ip \notin cfg.egress.allowed THEN NoText ELSE ip

------------------------------------------------------------------------------
(* Rules of the script.  `pos` orders a chain: part of the script, index of *)
(* the rule, line within it.                                                *)

NftProto(protocol) == IF protocol = "all" THEN {"tcp", "udp"} ELSE {protocol}

On(chain, family, part, index, step) ==
    [chain |-> chain, fam |-> family, pos |-> <<part, index, step>>,
     src |-> Addresses, dst |-> AnyDst, proto |-> AnyProto, sports |-> Ports, dports |-> Ports,
     state |-> {"new", "est"}, verdict |-> "count", to |-> NoText, port |-> NoPort, index |-> index]

Span(lo, hi) == IF hi = NoPort THEN {lo} ELSE lo..hi
Listen(c) == Span(c.lo, c.hi)

AccessEntries(family, access) == {e \in access.entries : Family(e) = family}

\* access_control with the dynamic sources: they count in whitelist mode only.
AccessWithDynamic(cfg) ==
    IF cfg.access.mode = "whitelist"
    THEN [cfg.access EXCEPT !.entries = @ \cup cfg.dynamic]
    ELSE cfg.access

\* access_condition: without entries of the family there is no condition to
\* write, and a line without it would admit everybody.
AccessCondition(family, access) ==
    IF access.mode = "whitelist" /\ AccessEntries(family, access) # {}
    THEN AccessEntries(family, access) ELSE Addresses

\* A whitelist left open by an empty family.
ClosedNever(family, access) == FALSE

\* Closed: a whitelist with no entry of the family lets no rule be written.
Closed(family, access) ==
    access.mode = "whitelist" /\ AccessEntries(family, access) = {}

\* The blacklist line written after the translation.
AccessDropLate(c, i, family, access) ==
    IF access.mode = "blacklist" /\ AccessEntries(family, access) # {}
    THEN {[On("PREROUTING", family, 1, i, 3) EXCEPT
              !.src = AccessEntries(family, access), !.proto = NftProto(c.protocol),
              !.dports = Listen(c), !.verdict = "drop"]}
    ELSE {}

AccessDrop(c, i, family, access) ==
    IF access.mode = "blacklist" /\ AccessEntries(family, access) # {}
    THEN {[On("PREROUTING", family, 1, i, 1) EXCEPT
              !.src = AccessEntries(family, access), !.proto = NftProto(c.protocol),
              !.dports = Listen(c), !.verdict = "drop"]}
    ELSE {}

Translate(c, i, family, access, verdict, ip, port) ==
    [On("PREROUTING", family, 1, i, 2) EXCEPT
        !.src = AccessCondition(family, access),
        !.proto = NftProto(c.protocol), !.dports = Listen(c), !.state = {"new"},
        !.verdict = verdict, !.to = ip, !.port = port]

\* The value of an environment variable is an address, NoText where it is not
\* set, or Blank where it is set to nothing.
Blank == "blank"

\* resolve_snat_action: the rule's own address, then the mode; NoText stands
\* for masquerade, and mode "off" writes no line.  `legacy` are the variables
\* of the process that builds the script, and a blank one is written as it is.
SnatTo(c, family, cfg) ==
    IF family = "ip" /\ SnatOf(c) # NoText THEN SnatOf(c)
    ELSE CASE cfg.snat.mode = "fixed"      -> IF family = "ip" THEN cfg.snat.fixed ELSE NoText
           [] cfg.snat.mode = "masquerade" -> cfg.snat.legacy[family]
           [] OTHER                        -> NoText

Postrouting(c, i, family, ip, dports, cfg) ==
    IF cfg.snat.mode = "off" /\ (family = "ip6" \/ SnatOf(c) = NoText) THEN {}
    ELSE {[On("POSTROUTING", family, 1, i, 3) EXCEPT
              !.dst = {ip}, !.proto = NftProto(c.protocol), !.dports = dports,
              !.state = {"new"}, !.verdict = "snat", !.to = SnatTo(c, family, cfg)]}

\* The counters watch the port the rule listens on.
TrafficCountersListen(c, i, family, ip, dports) ==
    {[On("FORWARD", family, 1, i, 4) EXCEPT
        !.dst = {ip}, !.proto = NftProto(c.protocol), !.dports = Listen(c), !.verdict = "out"],
     [On("FORWARD", family, 1, i, 5) EXCEPT
        !.src = {ip}, !.proto = NftProto(c.protocol), !.sports = Listen(c), !.verdict = "in"]}

TrafficCounters(c, i, family, ip, dports) ==
    {[On("FORWARD", family, 1, i, 4) EXCEPT
        !.dst = {ip}, !.proto = NftProto(c.protocol), !.dports = dports, !.verdict = "out"],
     [On("FORWARD", family, 1, i, 5) EXCEPT
        !.src = {ip}, !.proto = NftProto(c.protocol), !.sports = dports, !.verdict = "in"]}

Localhost(c, family) ==
    c.type = "single" /\ c.target \in {"localhost", IF family = "ip" THEN "127.0.0.1" ELSE "::1"}

\* build_nat_rules for an address of one family.
NatRules(c, i, ip, access, cfg) ==
    LET family == Family(ip)
        dports == IF c.type = "single" THEN {c.dport} ELSE Listen(c)
        port   == IF c.type = "single" THEN c.dport ELSE NoPort
    IN IF Closed(family, access) THEN {}
       ELSE AccessDrop(c, i, family, access)
            \cup IF Localhost(c, family)
                 THEN {Translate(c, i, family, access, "redirect", Self, port)}
                 ELSE {Translate(c, i, family, access, "dnat", ip, port)}
                      \cup Postrouting(c, i, family, ip, dports, cfg)
                      \cup TrafficCounters(c, i, family, ip, dports)

RedirectRule(c, i, family, access) ==
    IF Closed(family, access) THEN {}
    ELSE AccessDrop(c, i, family, access)
         \cup {Translate(c, i, family, access, "redirect", Self, c.dport)}

RedirectRules(c, i, access) ==
    LET families == CASE c.version = "ipv4" -> {"ip"}
                      [] c.version = "ipv6" -> {"ip6"}
                      [] c.version = "all"  -> {"ip", "ip6"}
    IN UNION {RedirectRule(c, i, f, access) : f \in families}

\* build_drop_rule: the family of the first address given, both without one.
DropFamilies(c) ==
    CASE c.src # NoText -> {Family(c.src)}
      [] c.src = NoText /\ c.dst # NoText -> {Family(c.dst)}
      [] OTHER -> {"ip", "ip6"}

DropRule(c, i, family) ==
    [On(IF c.chain = "input" THEN "INPUT" ELSE "FORWARD", family, 1, i, 1) EXCEPT
        !.src = IF c.src = NoText THEN Addresses ELSE {c.src},
        !.dst = IF c.dst = NoText THEN AnyDst ELSE {c.dst},
        !.proto = IF c.protocol = "all" /\ c.slo = NoPort /\ c.dlo = NoPort
                  THEN AnyProto ELSE NftProto(c.protocol),
        !.sports = IF c.slo = NoPort THEN Ports ELSE Span(c.slo, c.shi),
        !.dports = IF c.dlo = NoPort THEN Ports ELSE Span(c.dlo, c.dhi),
        !.verdict = "drop"]

\* build_with_rule_index: a rule with no address to send to has no line.
CellRules(c, i, cfg) ==
    LET access == AccessWithDynamic(cfg)
    IN CASE c.type = "drop"     -> {DropRule(c, i, f) : f \in DropFamilies(c)}
         [] c.type = "redirect" -> RedirectRules(c, i, access)
         [] OTHER -> IF TargetIp(c, cfg) = NoText THEN {}
                     ELSE NatRules(c, i, TargetIp(c, cfg), access, cfg)

------------------------------------------------------------------------------
(* The policies that come with the forwarding rules.                        *)

\* Rules of both families forgotten by the GeoIP chain.
SummarisedV4(live, cfg) ==
    {n \in 1..Len(live) : /\ IsForward(live[n]) /\ live[n].version = "ipv4"
                          /\ CellRules(live[n], n - 1, cfg) # {}}

\* forward_summary_from: the rules that have a line and may serve IPv4.
Summarised(live, cfg) ==
    {n \in 1..Len(live) : /\ IsForward(live[n]) /\ live[n].version \in {"ipv4", "all"}
                          /\ CellRules(live[n], n - 1, cfg) # {}}

\* The ports a rule forwards to, {} when it ends on this host.
ForwardPorts(c) ==
    CASE c.type = "redirect" -> {}
      [] c.type = "single"   -> IF c.target \in {"localhost", "127.0.0.1"} THEN {} ELSE {c.dport}
      [] OTHER               -> Listen(c)

MssRules(live, cfg) ==
    LET clamp(n, step) == [On("FORWARD", "ip", 3, n - 1, step) EXCEPT
                              !.proto = {"tcp"}, !.verdict = "mss"]
    IN UNION {{[clamp(n, 1) EXCEPT !.dports = ForwardPorts(live[n])],
               [clamp(n, 2) EXCEPT !.sports = ForwardPorts(live[n])]} :
                n \in {m \in Summarised(live, cfg) :
                         cfg.mss /\ live[m].protocol # "udp" /\ ForwardPorts(live[m]) # {}}}

GeoActive(cfg) == cfg.geo.enabled /\ ((cfg.global /\ cfg.geo.forward) \/ cfg.geo.ssh)

\* The CN set, {} when it is not wanted, or its file is missing or empty.
CnSet(cfg) == IF GeoActive(cfg) THEN cfg.geo.file ELSE {}
LanV4(cfg) == IF cfg.geo.allowLan THEN cfg.geo.lan \cap V4 ELSE {}

GeoPrerouting ==
    {[On("GEOIP_PREROUTING", "ip", 0, 0, 1) EXCEPT !.state = {"est"}, !.verdict = "accept"]}

GeoForwardRules(live, cfg) ==
    UNION {
      LET rule(step) == [On("GEOIP_PREROUTING", "ip", 2, n - 1, step) EXCEPT
                            !.proto = NftProto(live[n].protocol), !.dports = Listen(live[n])]
      IN {[rule(1) EXCEPT !.src = CnSet(cfg), !.verdict = "accept"],
          [rule(3) EXCEPT !.verdict = "drop"]}
         \cup IF LanV4(cfg) = {} THEN {}
              ELSE {[rule(2) EXCEPT !.src = LanV4(cfg), !.verdict = "accept"]}
      : n \in Summarised(live, cfg)}

GeoSshRules(cfg) ==
    LET rule(step) == [On("INPUT", "ip", 0, 0, step) EXCEPT
                          !.proto = {"tcp"}, !.dports = {cfg.geo.sshPort}]
    IN {[On("INPUT", "ip", 0, 0, 1) EXCEPT !.state = {"est"}, !.verdict = "accept"],
        [rule(2) EXCEPT !.src = CnSet(cfg), !.verdict = "accept"],
        [rule(4) EXCEPT !.verdict = "drop"]}
       \cup IF cfg.geo.sshMode # "allow-cn-and-lan" \/ LanV4(cfg) = {} THEN {}
            ELSE {[rule(3) EXCEPT !.src = LanV4(cfg), !.verdict = "accept"]}

\* Rules numbered by their place in the file, disabled ones included.
ScriptByFile(cfg) ==
    UNION {CellRules(cfg.cells[n], n - 1, cfg) :
             n \in {m \in 1..Len(cfg.cells) : Enabled(cfg.cells[m])}}

\* build_new_script_with_global
Script(cfg) ==
    LET live == EnabledRules(cfg.cells)
        geo  == CnSet(cfg) # {}
    IN (IF geo /\ cfg.global /\ cfg.geo.forward THEN GeoPrerouting ELSE {})
       \cup (IF geo /\ cfg.geo.ssh THEN GeoSshRules(cfg) ELSE {})
       \cup IF ~cfg.global THEN {}
            ELSE (UNION {CellRules(live[n], n - 1, cfg) : n \in 1..Len(live)})
                 \cup (IF geo /\ cfg.geo.forward THEN GeoForwardRules(live, cfg) ELSE {})
                 \cup MssRules(live, cfg)

------------------------------------------------------------------------------
(* What the kernel does with a packet.  Source ports are outside the model: *)
(* a packet has source port 0.                                              *)

Matches(r, p) ==
    /\ r.fam = p.fam /\ p.src \in r.src /\ p.dst \in r.dst
    /\ p.proto \in r.proto /\ p.port \in r.dports /\ 0 \in r.sports
    /\ p.state \in r.state

Before(r, q) ==
    \/ r.pos[1] < q.pos[1]
    \/ r.pos[1] = q.pos[1] /\ r.pos[2] < q.pos[2]
    \/ r.pos[1] = q.pos[1] /\ r.pos[2] = q.pos[2] /\ r.pos[3] < q.pos[3]

Final == {"accept", "drop", "dnat", "redirect", "snat"}
NoRule == On("none", "none", 0, NoPort, 0)

Hits(rules, chain, p) == {r \in rules : r.chain = chain /\ Matches(r, p)}
Verdict(rules, chain, p) ==
    LET final == {r \in Hits(rules, chain, p) : r.verdict \in Final}
        first == {r \in final : \A q \in final : q = r \/ Before(r, q)}
    IN IF first = {} THEN NoRule ELSE CHOOSE r \in first : TRUE
Passed(rules, chain, p) ==
    LET end == Verdict(rules, chain, p)
    IN {r \in Hits(rules, chain, p) : end = NoRule \/ Before(r, end)}

Fate(fate, p, by, snat, seen) ==
    [fate |-> fate, dst |-> p.dst, port |-> p.port, by |-> by, snat |-> snat,
     counted |-> {r.index : r \in {s \in seen : s.verdict \in {"out", "in"}}},
     clamped |-> \E r \in seen : r.verdict = "mss"]

Journey(rules, p) ==
    LET nat  == IF p.state = "new" THEN Verdict(rules, "PREROUTING", p) ELSE NoRule
        port == IF nat.port = NoPort THEN p.port ELSE nat.port
        q    == CASE nat.verdict = "dnat"     -> [p EXCEPT !.dst = nat.to, !.port = port]
                  [] nat.verdict = "redirect" -> [p EXCEPT !.dst = Self, !.port = port]
                  [] OTHER                    -> p
        chain == IF q.dst = Self THEN "INPUT" ELSE "FORWARD"
        seen  == Passed(rules, chain, q)
        snat  == IF p.state = "new" /\ q.dst # Self
                 THEN Verdict(rules, "POSTROUTING", q) ELSE NoRule
    IN IF \/ Verdict(rules, "GEOIP_PREROUTING", p).verdict = "drop"
          \/ nat.verdict = "drop"
       THEN Fate("dropped", p, NoPort, NoRule, {})
       ELSE IF Verdict(rules, chain, q).verdict = "drop"
       THEN Fate("dropped", q, NoPort, NoRule, seen)
       ELSE Fate(chain, q, nat.index, snat, seen)

NoPacket == [fam |-> "none"]
NoFate == [fate |-> "none", dst |-> Self, port |-> NoPort, by |-> NoPort,
           snat |-> NoRule, counted |-> {}, clamped |-> FALSE]

\* `nft -c` refuses a line that translates to nothing.
Accepted(rules) == \A r \in rules : r.verdict = "snat" => r.to # Blank

\* What is installed was accepted.
Init ==
    /\ config \in Configs
    /\ script = Script(config) /\ Accepted(script)
    /\ packet = NoPacket
    /\ out = NoFate

\* Packets are judged one by one; what one does to the connection table is
\* left out, so that one packet after Init says all there is to say.
Arrive(p) ==
    /\ packet = NoPacket
    /\ packet' = p
    /\ out' = Journey(script, p)
    /\ UNCHANGED <<config, script>>

Next == \E p \in Packets : Arrive(p)

Spec == Init /\ [][Next]_vars

------------------------------------------------------------------------------
(* Properties.                                                              *)

Translated == out.by # NoPort
RuleOf(i) == EnabledRules(config.cells)[i + 1]

\* The sources access_control admits, the dynamic ones included.
Admitted(a) ==
    LET access == AccessWithDynamic(config)
    IN CASE access.mode = "whitelist" -> a \in access.entries
         [] access.mode = "blacklist" -> a \notin access.entries
         [] OTHER -> TRUE

\* The rules that say, in the configuration, that they serve such a packet.
ServesFamily(c, f) ==
    IF c.type = "redirect" THEN c.version \in {"all", IF f = "ip" THEN "ipv4" ELSE "ipv6"}
    ELSE TargetIp(c, config) # NoText /\ Family(TargetIp(c, config)) = f
Asked(p) ==
    LET live == EnabledRules(config.cells)
    IN {n \in 1..Len(live) : /\ config.global /\ IsForward(live[n]) /\ ServesFamily(live[n], p.fam)
                            /\ p.port \in Listen(live[n]) /\ p.proto \in NftProto(live[n].protocol)}
FirstAsked(p) == CHOOSE n \in Asked(p) : \A m \in Asked(p) : n <= m

\* Where a rule sends a packet that arrived for `port`.
ToAddress(c, f) == IF c.type = "redirect" \/ Localhost(c, f) THEN Self ELSE TargetIp(c, config)
ToPort(c, port) == IF c.type = "range" THEN port ELSE c.dport

TypeOK ==
    /\ packet \in Packets \cup {NoPacket}
    /\ out.fate \in {"none", "dropped", "INPUT", "FORWARD"}
    /\ out.by \in {NoPort} \cup {n - 1 : n \in 1..Len(EnabledRules(config.cells))}

\* access_control is fail-closed: no connection is translated for a source
\* that the merged list does not admit, whatever rules, families and order
\* the script has (build_nat_rules, build_redirect_rule, access_condition).
AccessHolds == Translated => Admitted(packet.src)

\* egress_control is fail-closed: whatever the DNS or the last-good cache
\* says, no connection is sent to an address off the list.
EgressHolds ==
    Translated /\ config.egress.enabled /\ out.fate = "FORWARD" => out.dst \in config.egress.allowed

\* With GeoIP active for forwarding and a CN set on disk, a new IPv4
\* connection that is translated comes from the set or from an allowed LAN:
\* the chain of its own runs before nat and covers every rule with a line.
GeoHolds ==
    Translated /\ packet.fam = "ip" /\ config.geo.forward /\ CnSet(config) # {}
        => packet.src \in CnSet(config) \cup LanV4(config)

\* The script means what the configuration says: a new connection goes where
\* the first enabled rule asking for it sends it, if its source is admitted,
\* and is otherwise left alone; a blacklisted source is dropped.
RoutesAsConfigured ==
    packet # NoPacket /\ packet.state = "new" =>
        LET n == FirstAsked(packet)
            served == Asked(packet) # {} /\ Admitted(packet.src)
        IN /\ out.fate # "dropped" =>
                IF served
                THEN /\ out.by = n - 1
                     /\ out.dst = ToAddress(RuleOf(n - 1), packet.fam)
                     /\ out.port = ToPort(RuleOf(n - 1), packet.port)
                ELSE /\ ~Translated
                     /\ out.dst = packet.dst /\ out.port = packet.port
           /\ Asked(packet) # {} /\ ~Admitted(packet.src) /\ config.access.mode = "blacklist"
                => out.fate = "dropped"

\* Quota and statistics see every connection a rule forwards: its counter is
\* on the address and port the translation produced.
TrafficIsCounted == Translated /\ out.fate = "FORWARD" => out.by \in out.counted

\* "配置 IPv4 literal 时仅该条转发规则的 POSTROUTING 使用 `snat to <snat_ip>`"
\* (CHANGELOG.md:14): a connection leaves with another rule's address never.
OwnSnat ==
    Translated /\ out.fate = "FORWARD" /\ packet.fam = "ip" /\ out.snat # NoRule
        => out.snat.to = SnatTo(RuleOf(out.by), "ip", config)
=============================================================================
