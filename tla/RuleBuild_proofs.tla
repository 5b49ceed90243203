-------------------------- MODULE RuleBuild_proofs --------------------------
(***************************************************************************)
(* What the script makes of a packet, for every configuration and packet.  *)
(* First what is true of the line that decided: that carries over to each  *)
(* packet that a line translates (AccessHolds, EgressHolds,                *)
(* TrafficIsCounted).  Then which line decides: the first rule of the      *)
(* configuration that asks for the packet (RoutesAsConfigured, GeoHolds).  *)
(***************************************************************************)
EXTENDS SourceQuery, Connectivity, TLAPS, WellFoundedInduction, FiniteSetTheorems,
        SequenceTheorems

ToPorts(c) == IF c.type = "single" THEN {c.dport} ELSE Listen(c)

\* The shape of a translating line of rule c, whose place is i.
LineOf(r, c, i, access) ==
    /\ r.pos = <<1, i, 2>>
    /\ r.src = AccessCondition(r.fam, access)
    /\ r.dst = AnyDst
    /\ r.proto = NftProto(c.protocol)
    /\ r.sports = Ports
    /\ r.dports = Listen(c)
    /\ r.state = {"new"}
    /\ r.index = i
    /\ ~Closed(r.fam, access)

\* A line that ends on this host, or sends to ip; ip's counters come with it.
SendsTo(r, c, i, ip, rules) ==
    \/ r.verdict = "redirect" /\ r.to = Self
    \/ /\ r.verdict = "dnat" /\ r.to = ip
       /\ r.port = IF c.type = "single" THEN c.dport ELSE NoPort
       /\ TrafficCounters(c, i, r.fam, ip, ToPorts(c)) \subseteq rules

\* The fields of the line that Translate writes.
LEMMA TranslateLine ==
    ASSUME NEW c, NEW i, NEW family, NEW access, NEW verdict, NEW ip, NEW port,
           ~Closed(family, access)
    PROVE  LET r == Translate(c, i, family, access, verdict, ip, port)
           IN /\ LineOf(r, c, i, access)
              /\ r.fam = family /\ r.verdict = verdict /\ r.to = ip /\ r.port = port
BY DEF Translate, On, LineOf

\* The line of a blacklist drops.
LEMMA DropsOnly ==
    ASSUME NEW c, NEW i, NEW family, NEW access, NEW r \in AccessDrop(c, i, family, access)
    PROVE  r.verdict = "drop"
BY DEF AccessDrop, On

\* Only Translate puts a line other than a drop into PREROUTING.
LEMMA NatRulesLine ==
    ASSUME NEW c, NEW i, NEW ip, NEW access, NEW cfg,
           NEW r \in NatRules(c, i, ip, access, cfg),
           r.chain = "PREROUTING", r.verdict # "drop"
    PROVE  /\ LineOf(r, c, i, access)
           /\ SendsTo(r, c, i, ip, NatRules(c, i, ip, access, cfg))
           /\ AccessDrop(c, i, r.fam, access) \subseteq NatRules(c, i, ip, access, cfg)
<1> DEFINE family == Family(ip)
           port   == IF c.type = "single" THEN c.dport ELSE NoPort
           toHost == Translate(c, i, family, access, "redirect", Self, port)
           toPeer == Translate(c, i, family, access, "dnat", ip, port)
<1>1. ~Closed(family, access)
  BY DEF NatRules
<1>2. AccessDrop(c, i, family, access) \subseteq NatRules(c, i, ip, access, cfg)
  BY <1>1 DEF NatRules
<1>3. r \notin AccessDrop(c, i, family, access)
  BY DropsOnly
<1>4. CASE Localhost(c, family)
  <2>1. r = toHost
    BY <1>1, <1>3, <1>4 DEF NatRules
  <2> HIDE DEF family, port
  <2> QED BY <1>1, <1>2, <2>1, TranslateLine DEF SendsTo
<1>5. CASE ~Localhost(c, family)
  <2>1. \A q \in Postrouting(c, i, family, ip, ToPorts(c), cfg) : q.chain = "POSTROUTING"
    BY DEF Postrouting, On
  <2>2. \A q \in TrafficCounters(c, i, family, ip, ToPorts(c)) : q.chain = "FORWARD"
    BY DEF TrafficCounters, On
  <2>3. /\ r = toPeer
        /\ TrafficCounters(c, i, family, ip, ToPorts(c)) \subseteq NatRules(c, i, ip, access, cfg)
    BY <1>1, <1>3, <1>5, <2>1, <2>2 DEF NatRules, ToPorts
  <2>4. r.fam = family /\ r.verdict = "dnat" /\ r.to = ip /\ r.port = port /\ LineOf(r, c, i, access)
    BY <1>1, <2>3, TranslateLine
  <2> QED BY <1>2, <2>3, <2>4 DEF SendsTo
<1> QED BY <1>4, <1>5

\* So does RedirectRule, for a rule of type redirect.
LEMMA RedirectLine ==
    ASSUME NEW c, NEW i, NEW access, NEW r \in RedirectRules(c, i, access), r.verdict # "drop"
    PROVE  /\ LineOf(r, c, i, access)
           /\ r.verdict = "redirect" /\ r.to = Self
           /\ AccessDrop(c, i, r.fam, access) \subseteq RedirectRules(c, i, access)
<1>1. PICK f \in CASE c.version = "ipv4" -> {"ip"}
                  [] c.version = "ipv6" -> {"ip6"}
                  [] c.version = "all"  -> {"ip", "ip6"} : r \in RedirectRule(c, i, f, access)
  BY Zenon DEF RedirectRules
<1>2. RedirectRule(c, i, f, access) \subseteq RedirectRules(c, i, access)
  BY Zenon DEF RedirectRules
<1>3. ~Closed(f, access)
  BY <1>1 DEF RedirectRule
<1>4. r = Translate(c, i, f, access, "redirect", Self, c.dport)
  BY <1>1, <1>3, DropsOnly DEF RedirectRule
<1>5. AccessDrop(c, i, f, access) \subseteq RedirectRule(c, i, f, access)
  BY <1>3 DEF RedirectRule
<1> QED BY <1>2, <1>3, <1>4, <1>5, TranslateLine

\* The chains of the rules that come with the cells.
LEMMA OtherChains ==
    ASSUME NEW cfg, NEW live
    PROVE  /\ \A r \in GeoPrerouting : r.chain = "GEOIP_PREROUTING"
           /\ \A r \in GeoSshRules(cfg) : r.chain = "INPUT"
           /\ \A r \in GeoForwardRules(live, cfg) : r.chain = "GEOIP_PREROUTING"
           /\ \A r \in MssRules(live, cfg) : r.chain = "FORWARD" /\ r.verdict = "mss"
<1>1. \A r \in GeoPrerouting : r.chain = "GEOIP_PREROUTING"
  BY DEF GeoPrerouting, On
<1>2. \A r \in GeoSshRules(cfg) : r.chain = "INPUT"
  BY DEF GeoSshRules, On
<1>3. \A r \in GeoForwardRules(live, cfg) : r.chain = "GEOIP_PREROUTING"
  <2>1. TAKE r \in GeoForwardRules(live, cfg)
  <2> DEFINE rule(n, step) == [On("GEOIP_PREROUTING", "ip", 2, n - 1, step) EXCEPT
                                  !.proto = NftProto(live[n].protocol), !.dports = Listen(live[n])]
  <2>2. PICK n : r \in {[rule(n, 1) EXCEPT !.src = CnSet(cfg), !.verdict = "accept"],
                        [rule(n, 3) EXCEPT !.verdict = "drop"],
                        [rule(n, 2) EXCEPT !.src = LanV4(cfg), !.verdict = "accept"]}
    BY Zenon DEF GeoForwardRules
  <2>3. \A step : rule(n, step).chain = "GEOIP_PREROUTING"
    BY DEF On
  <2>4. \A step : DOMAIN rule(n, step) = DOMAIN On("GEOIP_PREROUTING", "ip", 2, n - 1, step)
    OBVIOUS
  <2> QED BY <2>2, <2>3, <2>4 DEF On
<1>4. \A r \in MssRules(live, cfg) : r.chain = "FORWARD" /\ r.verdict = "mss"
  <2>1. TAKE r \in MssRules(live, cfg)
  <2> DEFINE clamp(n, step) == [On("FORWARD", "ip", 3, n - 1, step) EXCEPT
                                   !.proto = {"tcp"}, !.verdict = "mss"]
  <2>2. PICK n : r \in {[clamp(n, 1) EXCEPT !.dports = ForwardPorts(live[n])],
                        [clamp(n, 2) EXCEPT !.sports = ForwardPorts(live[n])]}
    BY Zenon DEF MssRules
  <2>3. \A step : clamp(n, step).chain = "FORWARD" /\ clamp(n, step).verdict = "mss"
    BY DEF On
  <2>4. \A step : DOMAIN clamp(n, step) = DOMAIN On("FORWARD", "ip", 3, n - 1, step)
    OBVIOUS
  <2> QED BY <2>2, <2>3, <2>4 DEF On
<1> QED BY <1>1, <1>2, <1>3, <1>4

------------------------------------------------------------------------------
(* The enabled rules.                                                       *)

Live(cfg) == EnabledRules(cfg.cells)

Wellformed(c) ==
    /\ c.type \in {"single", "range", "redirect", "drop"}
    /\ c.type \in {"single", "redirect"} => c.dport # NoPort
    /\ c.type # "drop" => c.version \in IpVersions

\* Enabled rules keep their order, so that each has a place of its own.
LEMMA PlaceOf ==
    ASSUME NEW on, IsFiniteSet(on), on \in SUBSET Nat, NEW n \in on
    PROVE  LET Upto(x) == {m \in on : m <= x}
           IN /\ Cardinality(Upto(n)) \in 1..Cardinality(on)
              /\ \A k \in on : Cardinality(Upto(k)) = Cardinality(Upto(n)) => k = n
<1> DEFINE Upto(x) == {m \in on : m <= x}
<1>1. ASSUME NEW k \in on
      PROVE  IsFiniteSet(Upto(k)) /\ Cardinality(Upto(k)) \in Nat
  BY FS_Subset, FS_CardinalityType
<1>2. Cardinality(Upto(n)) <= Cardinality(on) /\ Cardinality(on) \in Nat
  BY FS_Subset, FS_CardinalityType
<1>3. Cardinality(Upto(n)) # 0
  <2>1. n \in Upto(n)
    OBVIOUS
  <2> QED BY <1>1, <2>1, FS_EmptySet
<1>4. ASSUME NEW k \in on, NEW j \in on, k < j
      PROVE  Cardinality(Upto(k)) # Cardinality(Upto(j))
  <2>1. k \in Nat /\ j \in Nat /\ \A m \in on : m \in Nat
    OBVIOUS
  <2>2. (\A m \in on : m <= k => m <= j) /\ j <= j /\ ~(j <= k)
    BY <1>4, <2>1
  <2>3. Upto(k) \subseteq Upto(j) /\ j \in Upto(j) /\ j \notin Upto(k)
    BY <2>2
  <2> HIDE DEF Upto
  <2> QED BY <1>1, <2>3, FS_Subset
<1>5. ASSUME NEW k \in on, Cardinality(Upto(k)) = Cardinality(Upto(n))
      PROVE  k = n
  <2>1. k \in Nat /\ n \in Nat
    OBVIOUS
  <2> HIDE DEF Upto
  <2> QED BY <1>4, <1>5, <2>1
<1> HIDE DEF Upto
<1>6. Cardinality(Upto(n)) \in 1..Cardinality(on)
  BY <1>1, <1>2, <1>3
<1> QED BY <1>5, <1>6 DEF Upto

\* The list of the enabled rules holds each of them and nothing else.
LEMMA LiveRules ==
    ASSUME NEW rules, Len(rules) \in Nat
    PROVE  /\ \A n \in 1..Len(rules) : Enabled(rules[n]) =>
                \E k \in 1..Len(EnabledRules(rules)) : EnabledRules(rules)[k] = rules[n]
           /\ \A k \in 1..Len(EnabledRules(rules)) :
                \E n \in 1..Len(rules) : EnabledRules(rules)[k] = rules[n] /\ Enabled(rules[n])
           /\ \A n \in 1..Len(rules) : (\A m \in 1..n : Enabled(rules[m])) =>
                n \in 1..Len(EnabledRules(rules)) /\ EnabledRules(rules)[n] = rules[n]
<1> DEFINE on == {n \in 1..Len(rules) : Enabled(rules[n])}
           Rank(n) == Cardinality({m \in on : m <= n})
           At(k) == CHOOSE n \in on : Rank(n) = k
           size == Cardinality(on)
<1>1. EnabledRules(rules) = [k \in 1..size |-> rules[At(k)]]
  BY DEF EnabledRules, Filtered
<1>2. on \in SUBSET Nat /\ IsFiniteSet(on) /\ size \in Nat
  <2>1. on \in SUBSET (1..Len(rules)) /\ on \in SUBSET Nat
    OBVIOUS
  <2> HIDE DEF on
  <2>2. IsFiniteSet(1..Len(rules))
    BY FS_Interval
  <2>3. IsFiniteSet(on)
    BY <2>1, <2>2, FS_Subset
  <2> QED BY <2>1, <2>3, FS_CardinalityType
<1> HIDE DEF on, size
<1>3. \A n \in on : Rank(n) \in 1..size /\ \A k \in on : Rank(k) = Rank(n) => k = n
  BY <1>2, PlaceOf DEF size
<1> HIDE DEF Rank
<1>4. \A k \in 1..size : \E n \in on : Rank(n) = k
  <2> DEFINE f == [n \in on |-> Rank(n)]
  <2>1. f \in Injection(on, 1..size)
    BY <1>3 DEF Injection, IsInjective
  <2>2. IsFiniteSet(1..size) /\ Cardinality(1..size) = Cardinality(on)
    BY <1>2, FS_Interval DEF size
  <2>3. f \in Surjection(on, 1..size)
    <3> HIDE DEF f
    <3> QED BY <1>2, <2>1, <2>2, FS_Injection
  <2> QED BY <2>3 DEF Surjection
<1>5. Len(EnabledRules(rules)) = size
  BY <1>1, <1>2
<1>6. ASSUME NEW k \in 1..size PROVE At(k) \in on /\ Rank(At(k)) = k
  BY <1>4
<1> HIDE DEF At
<1>7. \A n \in on : EnabledRules(rules)[Rank(n)] = rules[n]
  BY <1>1, <1>3, <1>6
<1>8. \A k \in 1..size : EnabledRules(rules)[k] = rules[At(k)]
  BY <1>1
<1>9. ASSUME NEW n \in 1..Len(rules), \A m \in 1..n : Enabled(rules[m])
      PROVE  Rank(n) = n /\ n \in on
  <2>1. {m \in on : m <= n} = 1..n
    BY <1>9 DEF on
  <2>2. Cardinality(1..n) = n
    BY FS_Interval
  <2>3. n \in on
    BY <1>9 DEF on
  <2> QED BY <2>1, <2>2, <2>3 DEF Rank
<1>10. ASSUME NEW n \in 1..Len(rules), \A m \in 1..n : Enabled(rules[m])
       PROVE  n \in 1..Len(EnabledRules(rules)) /\ EnabledRules(rules)[n] = rules[n]
  <2>1. Rank(n) = n /\ n \in on
    BY <1>9, <1>10
  <2> QED BY <1>3, <1>5, <1>7, <2>1
<1> QED BY <1>3, <1>5, <1>6, <1>7, <1>8, <1>10 DEF on

LEMMA LiveWellformed ==
    ASSUME NEW cfg \in Configs, NEW n \in 1..Len(Live(cfg))
    PROVE  Wellformed(Live(cfg)[n])
<1>1. PICK m \in 1..Len(cfg.cells) : Live(cfg)[n] = cfg.cells[m]
  BY RulesetAssumption, LiveRules DEF Live
<1>2. IsCell(cfg.cells[m])
  BY RulesetAssumption
<1> QED BY <1>1, <1>2 DEF Wellformed, IsCell, Ports, NoPort

------------------------------------------------------------------------------
(* The lines of the nat and forward chains.                                 *)

\* A line of rule n of cfg, sending to this host or to the rule's address.
NatLine(r, n, cfg) ==
    LET c == Live(cfg)[n]
        access == AccessWithDynamic(cfg)
    IN /\ LineOf(r, c, n - 1, access)
       /\ AccessDrop(c, n - 1, r.fam, access) \subseteq Script(cfg)
       /\ \/ r.verdict = "redirect" /\ r.to = Self
          \/ TargetIp(c, cfg) # NoText /\ SendsTo(r, c, n - 1, TargetIp(c, cfg), Script(cfg))

\* Every line of the nat chain but the drops is a line of some enabled rule.
LEMMA ScriptLine ==
    ASSUME NEW cfg, NEW r \in Script(cfg), r.chain = "PREROUTING", r.verdict # "drop"
    PROVE  \E n \in 1..Len(Live(cfg)) : NatLine(r, n, cfg)
<1> DEFINE access == AccessWithDynamic(cfg)
<1>1. PICK n \in 1..Len(Live(cfg)) :
        /\ r \in CellRules(Live(cfg)[n], n - 1, cfg)
        /\ CellRules(Live(cfg)[n], n - 1, cfg) \subseteq Script(cfg)
  BY OtherChains DEF Script, Live
<1> DEFINE c == Live(cfg)[n]
<1> HIDE DEF c
<1>2. CASE c.type = "drop"
  BY <1>1, <1>2 DEF CellRules, DropRule, On, c
<1>3. CASE c.type = "redirect"
  <2>1. CellRules(c, n - 1, cfg) = RedirectRules(c, n - 1, access)
    BY <1>3 DEF CellRules
  <2> HIDE DEF access
  <2>2. /\ LineOf(r, c, n - 1, access)
        /\ r.verdict = "redirect" /\ r.to = Self
        /\ AccessDrop(c, n - 1, r.fam, access) \subseteq Script(cfg)
    BY <1>1, <2>1, RedirectLine DEF c
  <2> QED BY <2>2 DEF NatLine, access, c
<1>4. CASE c.type \notin {"drop", "redirect"}
  <2> DEFINE ip == TargetIp(c, cfg)
  <2>1. ip # NoText /\ CellRules(c, n - 1, cfg) = NatRules(c, n - 1, ip, access, cfg)
    BY <1>1, <1>4 DEF CellRules, c
  <2> HIDE DEF access, ip
  <2>2. /\ LineOf(r, c, n - 1, access)
        /\ SendsTo(r, c, n - 1, ip, NatRules(c, n - 1, ip, access, cfg))
        /\ AccessDrop(c, n - 1, r.fam, access) \subseteq NatRules(c, n - 1, ip, access, cfg)
    BY <1>1, <2>1, NatRulesLine DEF c
  <2>3. NatRules(c, n - 1, ip, access, cfg) \subseteq Script(cfg)
    BY <1>1, <2>1 DEF c
  <2>4. SendsTo(r, c, n - 1, ip, Script(cfg))
    BY <2>2, <2>3 DEF SendsTo
  <2> QED BY <2>1, <2>2, <2>3, <2>4 DEF NatLine, access, c, ip
<1> QED BY <1>2, <1>3, <1>4

\* In the forward chain a line drops, or lets the packet go on.
LEMMA ForwardLine ==
    ASSUME NEW cfg, NEW r \in Script(cfg), r.chain = "FORWARD", r.verdict \in Final
    PROVE  r.verdict = "drop"
<1> SUFFICES ASSUME r.verdict # "drop" PROVE FALSE
  OBVIOUS
<1>1. PICK n \in 1..Len(Live(cfg)) : r \in CellRules(Live(cfg)[n], n - 1, cfg)
  BY OtherChains DEF Script, Live, Final
<1> DEFINE c == Live(cfg)[n]
           access == AccessWithDynamic(cfg)
           ip == TargetIp(c, cfg)
<1> HIDE DEF c
<1>2. CASE c.type = "drop"
  BY <1>1, <1>2 DEF CellRules, DropRule, On, c
<1>3. CASE c.type = "redirect"
  <2>1. PICK f : r \in RedirectRule(c, n - 1, f, access)
    BY <1>1, <1>3 DEF CellRules, RedirectRules, c
  <2>2. \A v, x, y : Translate(c, n - 1, f, access, v, x, y).chain = "PREROUTING"
    BY DEF Translate, On
  <2> QED BY <2>1, <2>2, DropsOnly DEF RedirectRule
<1>4. CASE c.type \notin {"drop", "redirect"}
  <2>1. r \in NatRules(c, n - 1, ip, access, cfg)
    BY <1>1, <1>4 DEF CellRules, c
  <2> HIDE DEF access, ip
  <2>2. r \notin AccessDrop(c, n - 1, Family(ip), access)
    BY DropsOnly
  <2>3. \A v, x, y : Translate(c, n - 1, Family(ip), access, v, x, y).chain = "PREROUTING"
    BY DEF Translate, On
  <2>4. \A x : \A q \in Postrouting(c, n - 1, Family(ip), ip, x, cfg) : q.chain = "POSTROUTING"
    BY DEF Postrouting, On
  <2>5. \A x : \A q \in TrafficCounters(c, n - 1, Family(ip), ip, x) : q.verdict \in {"in", "out"}
    BY DEF TrafficCounters, On
  <2> QED BY <2>1, <2>2, <2>3, <2>4, <2>5 DEF NatRules, Final
<1> QED BY <1>2, <1>3, <1>4

------------------------------------------------------------------------------
(* From the lines to the packets.                                           *)

\* The rule that decides a chain, if any, comes before the others that could.
LEMMA VerdictFirst ==
    ASSUME NEW rules, NEW chain, NEW p
    PROVE  LET end == Verdict(rules, chain, p)
           IN \/ end = NoRule
              \/ /\ end \in rules /\ end.chain = chain /\ Matches(end, p)
                 /\ end.verdict \in Final
                 /\ \A q \in rules : q.chain = chain /\ Matches(q, p) /\ q.verdict \in Final
                                    => q = end \/ Before(end, q)
<1> DEFINE final == {r \in Hits(rules, chain, p) : r.verdict \in Final}
           first == {r \in final : \A q \in final : q = r \/ Before(r, q)}
           end == Verdict(rules, chain, p)
<1>1. end = IF first = {} THEN NoRule ELSE CHOOSE r \in first : TRUE
  BY Zenon DEF Verdict
<1>2. CASE first = {}
  BY <1>1, <1>2
<1>3. CASE first # {}
  <2>1. end \in first
    BY <1>1, <1>3
  <2> QED BY <2>1 DEF Hits
<1> QED BY <1>2, <1>3

\* The packet as the nat chain leaves it.
Through(rules, p) ==
    LET nat  == IF p.state = "new" THEN Verdict(rules, "PREROUTING", p) ELSE NoRule
        port == IF nat.port = NoPort THEN p.port ELSE nat.port
    IN CASE nat.verdict = "dnat"     -> [p EXCEPT !.dst = nat.to, !.port = port]
         [] nat.verdict = "redirect" -> [p EXCEPT !.dst = Self, !.port = port]
         [] OTHER                    -> p

\* A translated packet met a rule of the nat chain that does not drop, and
\* nothing dropped it after that.
LEMMA JourneyTranslated ==
    ASSUME NEW rules, NEW p, Journey(rules, p).by # NoPort
    PROVE  LET nat == Verdict(rules, "PREROUTING", p)
               q == Through(rules, p)
               chain == IF q.dst = Self THEN "INPUT" ELSE "FORWARD"
               fate == Journey(rules, p)
           IN /\ p.state = "new" /\ nat.verdict # "drop" /\ nat # NoRule
              /\ Verdict(rules, chain, q).verdict # "drop"
              /\ fate.fate = chain /\ fate.by = nat.index /\ fate.dst = q.dst
              /\ fate.counted = {r.index : r \in {s \in Passed(rules, chain, q) :
                                                     s.verdict \in {"out", "in"}}}
<1> DEFINE nat == IF p.state = "new" THEN Verdict(rules, "PREROUTING", p) ELSE NoRule
           q == Through(rules, p)
           chain == IF q.dst = Self THEN "INPUT" ELSE "FORWARD"
           seen == Passed(rules, chain, q)
           snat == IF p.state = "new" /\ q.dst # Self
                   THEN Verdict(rules, "POSTROUTING", q) ELSE NoRule
<1>1. Journey(rules, p) =
        IF Verdict(rules, "GEOIP_PREROUTING", p).verdict = "drop" \/ nat.verdict = "drop"
        THEN Fate("dropped", p, NoPort, NoRule, {})
        ELSE IF Verdict(rules, chain, q).verdict = "drop"
        THEN Fate("dropped", q, NoPort, NoRule, seen)
        ELSE Fate(chain, q, nat.index, snat, seen)
  BY Zenon DEF Journey, Through
<1> HIDE DEF nat, q, chain, seen, snat
<1>2. \A f, x, s, t : Fate(f, x, NoPort, s, t).by = NoPort
  BY DEF Fate
<1>3. /\ nat.verdict # "drop" /\ Verdict(rules, chain, q).verdict # "drop"
      /\ Journey(rules, p) = Fate(chain, q, nat.index, snat, seen)
  BY <1>1, <1>2
<1>4. /\ Journey(rules, p).by = nat.index /\ Journey(rules, p).fate = chain
      /\ Journey(rules, p).dst = q.dst
      /\ Journey(rules, p).counted =
            {r.index : r \in {s \in seen : s.verdict \in {"out", "in"}}}
  BY <1>3 DEF Fate
<1>5. nat # NoRule
  BY <1>4 DEF NoRule, On
<1>6. p.state = "new" /\ nat = Verdict(rules, "PREROUTING", p)
  BY <1>5 DEF nat
<1> QED BY <1>3, <1>4, <1>5, <1>6 DEF q, chain, seen

\* A packet translated by a script met a line of an enabled rule, and no
\* line that drops stands before it.
LEMMA TranslatedByLine ==
    ASSUME NEW cfg, NEW p \in Packets, Journey(Script(cfg), p).by # NoPort
    PROVE  LET nat == Verdict(Script(cfg), "PREROUTING", p)
           IN /\ nat \in Script(cfg) /\ Matches(nat, p)
              /\ \E n \in 1..Len(Live(cfg)) : NatLine(nat, n, cfg)
              /\ \A q \in Script(cfg) : q.chain = "PREROUTING" /\ Matches(q, p) /\ q.verdict = "drop"
                                       => Before(nat, q)
<1> DEFINE nat == Verdict(Script(cfg), "PREROUTING", p)
<1>1. nat.verdict # "drop" /\ nat # NoRule
  BY JourneyTranslated
<1>2. /\ nat \in Script(cfg) /\ nat.chain = "PREROUTING" /\ Matches(nat, p)
      /\ \A q \in Script(cfg) : q.chain = "PREROUTING" /\ Matches(q, p) /\ q.verdict \in Final
                               => q = nat \/ Before(nat, q)
  BY <1>1, VerdictFirst
<1> HIDE DEF nat
<1>3. \E n \in 1..Len(Live(cfg)) : NatLine(nat, n, cfg)
  BY <1>1, <1>2, ScriptLine
<1>4. \A q \in Script(cfg) : q.chain = "PREROUTING" /\ Matches(q, p) /\ q.verdict = "drop"
                            => Before(nat, q)
  BY <1>1, <1>2 DEF Final
<1> QED BY <1>2, <1>3, <1>4 DEF nat

\* What the properties say of one packet.
AdmittedBy(cfg, a) ==
    LET access == AccessWithDynamic(cfg)
    IN CASE access.mode = "whitelist" -> a \in access.entries
         [] access.mode = "blacklist" -> a \notin access.entries
         [] OTHER -> TRUE

\* A line carries the entries of the whitelist; the line of the blacklist
\* stands before the one that translates.
LEMMA AccessOfPacket ==
    ASSUME NEW cfg, NEW p \in Packets, Journey(Script(cfg), p).by # NoPort
    PROVE  AdmittedBy(cfg, p.src)
<1> DEFINE access == AccessWithDynamic(cfg)
           nat == Verdict(Script(cfg), "PREROUTING", p)
<1>1. /\ nat \in Script(cfg) /\ Matches(nat, p)
      /\ \A q \in Script(cfg) : q.chain = "PREROUTING" /\ Matches(q, p) /\ q.verdict = "drop"
                               => Before(nat, q)
  BY TranslatedByLine
<1>2. PICK n \in 1..Len(Live(cfg)) : NatLine(nat, n, cfg)
  BY TranslatedByLine
<1> DEFINE c == Live(cfg)[n]
<1> HIDE DEF access, nat, c
<1>3. LineOf(nat, c, n - 1, access) /\ AccessDrop(c, n - 1, nat.fam, access) \subseteq Script(cfg)
  BY <1>2 DEF NatLine, access, c
<1>4. nat.fam = p.fam /\ p.src \in nat.src /\ Family(p.src) = p.fam
  BY <1>1, CellsAssumption, RulesetAssumption DEF Matches, Family
<1>5. CASE access.mode = "whitelist"
  <2>1. nat.src = AccessEntries(nat.fam, access)
    BY <1>3, <1>5 DEF LineOf, Closed, AccessCondition
  <2> QED BY <1>4, <1>5, <2>1 DEF AdmittedBy, access, AccessEntries
<1>6. CASE access.mode = "blacklist"
  <2> SUFFICES ASSUME p.src \in access.entries PROVE FALSE
    BY <1>6 DEF AdmittedBy, access
  <2>1. p.src \in AccessEntries(nat.fam, access)
    BY <1>4 DEF AccessEntries
  <2> DEFINE d == [On("PREROUTING", nat.fam, 1, n - 1, 1) EXCEPT
                      !.src = AccessEntries(nat.fam, access), !.proto = NftProto(c.protocol),
                      !.dports = Listen(c), !.verdict = "drop"]
  <2>2. d \in Script(cfg)
    BY <1>3, <1>6, <2>1 DEF AccessDrop
  <2>3. /\ d.chain = "PREROUTING" /\ d.verdict = "drop" /\ d.pos = <<1, n - 1, 1>>
        /\ d.fam = nat.fam /\ d.src = AccessEntries(nat.fam, access) /\ d.dst = AnyDst
        /\ d.proto = NftProto(c.protocol) /\ d.dports = Listen(c) /\ d.sports = Ports
        /\ d.state = {"new", "est"}
    BY DEF On
  <2> HIDE DEF d
  <2>4. Matches(d, p)
    BY <1>1, <1>3, <2>1, <2>3 DEF Matches, LineOf
  <2>5. Before(nat, d)
    BY <1>1, <2>2, <2>3, <2>4
  <2>6. nat.pos = <<1, n - 1, 2>>
    BY <1>3 DEF LineOf
  <2> QED BY <2>3, <2>5, <2>6 DEF Before
<1>7. CASE access.mode \notin {"whitelist", "blacklist"}
  BY <1>7 DEF AdmittedBy, access
<1> QED BY <1>5, <1>6, <1>7

\* Rule n sends packet p to its address, and to its port if it has one.
SentBy(n, cfg, p) ==
    LET nat == Verdict(Script(cfg), "PREROUTING", p)
        q   == Through(Script(cfg), p)
        ip  == TargetIp(Live(cfg)[n], cfg)
    IN /\ ip # NoText /\ NatLine(nat, n, cfg)
       /\ SendsTo(nat, Live(cfg)[n], n - 1, ip, Script(cfg)) /\ nat.verdict = "dnat"
       /\ q.fam = p.fam /\ q.src = p.src /\ q.proto = p.proto /\ q.state = p.state
       /\ q.dst = ip /\ q.port = IF nat.port = NoPort THEN p.port ELSE nat.port

\* A packet that is forwarded was sent to the address of its rule.
LEMMA ForwardedTo ==
    ASSUME NEW cfg, NEW p \in Packets, Journey(Script(cfg), p).by # NoPort,
           Journey(Script(cfg), p).fate = "FORWARD"
    PROVE  /\ \E n \in 1..Len(Live(cfg)) : SentBy(n, cfg, p)
           /\ Journey(Script(cfg), p).dst = Through(Script(cfg), p).dst
<1> DEFINE nat == Verdict(Script(cfg), "PREROUTING", p)
           q == Through(Script(cfg), p)
           port == IF nat.port = NoPort THEN p.port ELSE nat.port
<1>1. /\ p.state = "new" /\ q.dst # Self
      /\ Journey(Script(cfg), p).dst = q.dst
  BY JourneyTranslated
<1>2. PICK n \in 1..Len(Live(cfg)) : NatLine(nat, n, cfg)
  BY TranslatedByLine
<1> DEFINE c == Live(cfg)[n]
           ip == TargetIp(c, cfg)
<1>3. q = CASE nat.verdict = "dnat"     -> [p EXCEPT !.dst = nat.to, !.port = port]
            [] nat.verdict = "redirect" -> [p EXCEPT !.dst = Self, !.port = port]
            [] OTHER                    -> p
  BY <1>1 DEF Through
<1> HIDE DEF nat, q, port, c
<1>4. nat.verdict # "redirect"
  BY <1>1, <1>3, RulesetAssumption
<1>5. ip # NoText /\ SendsTo(nat, c, n - 1, ip, Script(cfg)) /\ nat.verdict = "dnat" /\ nat.to = ip
  BY <1>2, <1>4 DEF NatLine, SendsTo, c
<1>6. q = [p EXCEPT !.dst = ip, !.port = port]
  BY <1>3, <1>5
<1>7. p = Packet(p.fam, p.src, p.dst, p.proto, p.port, p.state)
  BY RulesetAssumption
<1>8. /\ q.fam = p.fam /\ q.src = p.src /\ q.proto = p.proto /\ q.state = p.state
      /\ q.dst = ip /\ q.port = port
  BY <1>6, <1>7 DEF Packet
<1>9. SentBy(n, cfg, p)
  BY <1>2, <1>5, <1>8 DEF SentBy, nat, q, c, port
<1> QED BY <1>1, <1>9 DEF q

\* The pair of counters of the rule sees the packet as it was translated.
LEMMA CountedPacket ==
    ASSUME NEW cfg \in Configs, NEW p \in Packets, Journey(Script(cfg), p).by # NoPort,
           Journey(Script(cfg), p).fate = "FORWARD"
    PROVE  Journey(Script(cfg), p).by \in Journey(Script(cfg), p).counted
<1> DEFINE rules == Script(cfg)
           nat == Verdict(rules, "PREROUTING", p)
           q == Through(rules, p)
           end == Verdict(rules, "FORWARD", q)
<1>1. PICK n \in 1..Len(Live(cfg)) : SentBy(n, cfg, p)
  BY ForwardedTo
<1> DEFINE c == Live(cfg)[n]
           ip == TargetIp(c, cfg)
           out1 == [On("FORWARD", nat.fam, 1, n - 1, 4) EXCEPT
                      !.dst = {ip}, !.proto = NftProto(c.protocol), !.dports = ToPorts(c),
                      !.verdict = "out"]
<1>2. /\ p.state = "new" /\ end.verdict # "drop" /\ Journey(rules, p).by = nat.index
      /\ Journey(rules, p).counted = {r.index : r \in {s \in Passed(rules, "FORWARD", q) :
                                                      s.verdict \in {"out", "in"}}}
  BY JourneyTranslated
<1>3. nat \in rules /\ Matches(nat, p)
  BY TranslatedByLine
<1>4. /\ p.fam \in {"ip", "ip6"} /\ p.src \in Addresses
      /\ c.type = "single" => c.dport # NoPort
  BY RulesetAssumption, LiveWellformed DEF Addresses, Wellformed
<1>5. /\ LineOf(nat, c, n - 1, AccessWithDynamic(cfg))
      /\ nat.port = (IF c.type = "single" THEN c.dport ELSE NoPort)
      /\ TrafficCounters(c, n - 1, nat.fam, ip, ToPorts(c)) \subseteq rules
  BY <1>1 DEF SentBy, NatLine, SendsTo
<1>6. out1 \in rules
  BY <1>5 DEF TrafficCounters
<1>7. /\ out1.chain = "FORWARD" /\ out1.verdict = "out" /\ out1.index = n - 1
      /\ out1.fam = nat.fam /\ out1.src = Addresses /\ out1.dst = {ip}
      /\ out1.proto = NftProto(c.protocol) /\ out1.dports = ToPorts(c) /\ out1.sports = Ports
      /\ out1.state = {"new", "est"}
  BY DEF On
<1>8. end = NoRule
  <2> SUFFICES ASSUME end # NoRule PROVE FALSE
    OBVIOUS
  <2>1. end \in rules /\ end.chain = "FORWARD" /\ end.verdict \in Final
    BY VerdictFirst
  <2> QED BY <1>2, <2>1, ForwardLine
<1>9. /\ q.fam = p.fam /\ q.src = p.src /\ q.proto = p.proto /\ q.state = p.state
      /\ q.dst = ip /\ q.port = IF nat.port = NoPort THEN p.port ELSE nat.port
  BY <1>1 DEF SentBy
<1> HIDE DEF rules, nat, q, end, c, ip, out1
<1>10. /\ nat.fam = p.fam /\ p.proto \in NftProto(c.protocol) /\ p.port \in Listen(c) /\ 0 \in Ports
       /\ nat.index = n - 1
  BY <1>3, <1>5 DEF Matches, LineOf
<1>11. q.port \in ToPorts(c)
  BY <1>4, <1>5, <1>9, <1>10 DEF ToPorts
<1>12. Matches(out1, q)
  BY <1>2, <1>4, <1>7, <1>9, <1>10, <1>11 DEF Matches
<1>13. out1 \in Passed(rules, "FORWARD", q)
  BY <1>6, <1>7, <1>8, <1>12 DEF Passed, Hits, end
<1> QED BY <1>2, <1>7, <1>10, <1>13 DEF rules

------------------------------------------------------------------------------
(* The specification: the script is that of the configuration, and the last *)
(* packet was judged by it.                                                 *)

Judged ==
    /\ config \in Configs
    /\ script = Script(config) /\ Accepted(script)
    /\ \/ packet = NoPacket /\ out = NoFate
       \/ packet \in Packets /\ out = Journey(script, packet)

LEMMA JudgedInductive == Spec => []Judged
<1>1. Init => Judged
  BY DEF Init, Judged
<1>2. Judged /\ [Next]_vars => Judged'
  BY DEF Judged, Next, Arrive, vars
<1> QED BY <1>1, <1>2, PTL DEF Spec

\* access_control admits the source of every connection that is translated,
\* for every configuration, DNS answer, cache and packet.
THEOREM AccessAlwaysHolds == Spec => []AccessHolds
<1>1. Judged => AccessHolds
  <2> SUFFICES ASSUME Judged, Translated PROVE Admitted(packet.src)
    BY DEF AccessHolds
  <2>1. packet \in Packets /\ out = Journey(Script(config), packet)
    BY DEF Judged, Translated, NoFate
  <2>2. AdmittedBy(config, packet.src)
    BY <2>1, AccessOfPacket DEF Translated
  <2> QED BY <2>2 DEF AdmittedBy, Admitted
<1> QED BY <1>1, JudgedInductive, PTL

\* No connection is forwarded to an address off the list of egress_control.
THEOREM EgressAlwaysHolds == Spec => []EgressHolds
<1>1. Judged => EgressHolds
  <2> SUFFICES ASSUME Judged, Translated, config.egress.enabled, out.fate = "FORWARD"
               PROVE  out.dst \in config.egress.allowed
    BY DEF EgressHolds
  <2>1. packet \in Packets /\ out = Journey(Script(config), packet)
    BY DEF Judged, Translated, NoFate
  <2>2. PICK n \in 1..Len(Live(config)) : SentBy(n, config, packet)
    BY <2>1, ForwardedTo DEF Translated
  <2>3. out.dst = Through(Script(config), packet).dst
    BY <2>1, ForwardedTo DEF Translated
  <2>4. TargetIp(Live(config)[n], config) # NoText /\ out.dst = TargetIp(Live(config)[n], config)
    BY <2>2, <2>3 DEF SentBy
  <2>5. TargetIp(Live(config)[n], config) \in config.egress.allowed
    BY <2>4 DEF TargetIp
  <2> QED BY <2>4, <2>5
<1> QED BY <1>1, JudgedInductive, PTL

\* The counters of a rule see every connection the rule forwards.
THEOREM TrafficAlwaysCounted == Spec => []TrafficIsCounted
<1>1. Judged => TrafficIsCounted
  <2> SUFFICES ASSUME Judged, Translated, out.fate = "FORWARD"
               PROVE  out.by \in out.counted
    BY DEF TrafficIsCounted
  <2>1. packet \in Packets /\ out = Journey(Script(config), packet) /\ config \in Configs
    BY DEF Judged, Translated, NoFate
  <2> QED BY <2>1, CountedPacket DEF Translated
<1> QED BY <1>1, JudgedInductive, PTL

------------------------------------------------------------------------------
(* Which line decides.                                                      *)

\* A non-empty set of naturals has a least element.
LEMMA Least ==
    ASSUME NEW S \in SUBSET Nat, S # {}
    PROVE  LET least == CHOOSE n \in S : \A m \in S : n <= m
           IN  least \in S /\ \A m \in S : least <= m
<1>1. PICK n \in S : \A m \in S : <<m, n>> \notin OpToRel(<, Nat)
  BY WFMin, NatLessThanWellFounded, Zenon
<1>2. \A m \in S : <<m, n>> \in Nat \X Nat
  OBVIOUS
<1>3. \A m \in S : ~(<<m, n>>[1] < <<m, n>>[2])
  BY <1>1, <1>2, Zenon DEF OpToRel
<1>4. \A m \in S : n <= m
  BY <1>3
<1> QED BY <1>4

------------------------------------------------------------------------------
(* What stands in the nat chain.                                            *)

Serves(c, f, cfg) ==
    IF c.type = "redirect" THEN c.version \in {"all", IF f = "ip" THEN "ipv4" ELSE "ipv6"}
    ELSE TargetIp(c, cfg) # NoText /\ Family(TargetIp(c, cfg)) = f

\* The port a line rewrites to; NoPort leaves the port alone.
SetsPort(c) == IF c.type = "range" THEN NoPort ELSE c.dport

\* The line by which rule c, whose place is i, translates packets of family f.
Line(c, i, f, cfg) ==
    LET access == AccessWithDynamic(cfg)
    IN IF c.type = "redirect" \/ Localhost(c, f)
       THEN Translate(c, i, f, access, "redirect", Self, SetsPort(c))
       ELSE Translate(c, i, f, access, "dnat", TargetIp(c, cfg), SetsPort(c))

NatChain(c, i, f, cfg) ==
    LET access == AccessWithDynamic(cfg)
    IN IF IsForward(c) /\ Serves(c, f, cfg) /\ ~Closed(f, access)
       THEN AccessDrop(c, i, f, access) \cup {Line(c, i, f, cfg)}
       ELSE {}

LEMMA DropFields ==
    ASSUME NEW c, NEW i, NEW f, NEW access, NEW r \in AccessDrop(c, i, f, access)
    PROVE  r.chain = "PREROUTING" /\ r.fam = f
BY DEF AccessDrop, On

LEMMA TranslateFields ==
    ASSUME NEW c, NEW i, NEW f, NEW access, NEW v, NEW ip, NEW port
    PROVE  /\ Translate(c, i, f, access, v, ip, port).chain = "PREROUTING"
           /\ Translate(c, i, f, access, v, ip, port).fam = f
BY DEF Translate, On

\* The lines of one rule in the nat chain, for one family.
LEMMA ChainOfCell ==
    ASSUME NEW cfg, NEW c, Wellformed(c), NEW i, NEW f \in {"ip", "ip6"}, NEW r
    PROVE  r \in CellRules(c, i, cfg) /\ r.chain = "PREROUTING" /\ r.fam = f
             <=> r \in NatChain(c, i, f, cfg)
<1> DEFINE access == AccessWithDynamic(cfg)
           ip == TargetIp(c, cfg)
<1> HIDE DEF access
<1>1. CASE c.type = "drop"
  <2>1. ~IsForward(c)
    BY <1>1 DEF IsForward
  <2>2. \A g : DropRule(c, i, g).chain # "PREROUTING"
    BY DEF DropRule, On
  <2>3. CellRules(c, i, cfg) = {DropRule(c, i, g) : g \in DropFamilies(c)}
    BY <1>1 DEF CellRules
  <2> QED BY <2>1, <2>2, <2>3 DEF NatChain
<1>2. CASE c.type = "redirect"
  <2>1. CellRules(c, i, cfg) = RedirectRules(c, i, access)
    BY <1>2 DEF CellRules, access
  <2>2. \A g : \A q \in RedirectRule(c, i, g, access) : q.chain = "PREROUTING" /\ q.fam = g
    <3> SUFFICES ASSUME NEW g, NEW q \in RedirectRule(c, i, g, access)
                 PROVE  q.chain = "PREROUTING" /\ q.fam = g
      OBVIOUS
    <3>2. CASE q \in AccessDrop(c, i, g, access)
      BY <3>2, DropFields
    <3>3. CASE q = Translate(c, i, g, access, "redirect", Self, c.dport)
      BY <3>3, TranslateFields
    <3> QED BY <3>2, <3>3 DEF RedirectRule
  <2>3. r \in RedirectRules(c, i, access) /\ r.chain = "PREROUTING" /\ r.fam = f
          <=> Serves(c, f, cfg) /\ r \in RedirectRule(c, i, f, access)
    <3> DEFINE families == CASE c.version = "ipv4" -> {"ip"}
                             [] c.version = "ipv6" -> {"ip6"}
                             [] c.version = "all"  -> {"ip", "ip6"}
    <3>1. f \in families <=> Serves(c, f, cfg)
      BY <1>2 DEF Serves, Wellformed, IpVersions
    <3>2. RedirectRules(c, i, access) = UNION {RedirectRule(c, i, g, access) : g \in families}
      BY Zenon DEF RedirectRules
    <3> HIDE DEF families
    <3> QED BY <2>2, <3>1, <3>2
  <2>4. Line(c, i, f, cfg) = Translate(c, i, f, access, "redirect", Self, c.dport)
    BY <1>2 DEF Line, SetsPort, access
  <2>5. RedirectRule(c, i, f, access) =
          IF Closed(f, access) THEN {}
          ELSE AccessDrop(c, i, f, access) \cup {Line(c, i, f, cfg)}
    BY <2>4, Zenon DEF RedirectRule
  <2>6. IsForward(c)
    BY <1>2 DEF IsForward
  <2> QED BY <2>1, <2>3, <2>5, <2>6 DEF NatChain, access
<1>3. CASE c.type \in {"single", "range"} /\ ip = NoText
  <2>1. CellRules(c, i, cfg) = {} /\ ~Serves(c, f, cfg)
    BY <1>3 DEF CellRules, Serves
  <2> QED BY <2>1 DEF NatChain
<1>4. CASE c.type \in {"single", "range"} /\ ip # NoText
  <2> DEFINE g == Family(ip)
             dports == IF c.type = "single" THEN {c.dport} ELSE Listen(c)
             port == IF c.type = "single" THEN c.dport ELSE NoPort
             tail == Postrouting(c, i, g, ip, dports, cfg) \cup TrafficCounters(c, i, g, ip, dports)
  <2>1. CellRules(c, i, cfg) = NatRules(c, i, ip, access, cfg)
    BY <1>4 DEF CellRules, access
  <2>2. NatRules(c, i, ip, access, cfg) =
          IF Closed(g, access) THEN {}
          ELSE AccessDrop(c, i, g, access)
               \cup IF Localhost(c, g)
                    THEN {Translate(c, i, g, access, "redirect", Self, port)}
                    ELSE {Translate(c, i, g, access, "dnat", ip, port)} \cup tail
    BY Zenon DEF NatRules
  <2>3. \A q \in tail : q.chain # "PREROUTING"
    BY DEF Postrouting, TrafficCounters, On
  <2>4. Serves(c, f, cfg) <=> g = f
    BY <1>4 DEF Serves
  <2>5. port = SetsPort(c)
    BY <1>4 DEF SetsPort
  <2>6. Line(c, i, g, cfg) = IF Localhost(c, g)
                             THEN Translate(c, i, g, access, "redirect", Self, port)
                             ELSE Translate(c, i, g, access, "dnat", ip, port)
    BY <1>4, <2>5 DEF Line, access
  <2>7. IsForward(c)
    BY <1>4 DEF IsForward
  <2>8. Line(c, i, g, cfg).chain = "PREROUTING" /\ Line(c, i, g, cfg).fam = g
    <3> HIDE DEF g, port, tail, dports, ip
    <3>1. CASE Localhost(c, g)
      BY <2>6, <3>1, TranslateFields
    <3>2. CASE ~Localhost(c, g)
      BY <2>6, <3>2, TranslateFields
    <3> QED BY <3>1, <3>2
  <2>9. \A q \in AccessDrop(c, i, g, access) : q.chain = "PREROUTING" /\ q.fam = g
    BY DropFields
  <2> HIDE DEF g, port, tail, dports
  <2>10. r \in NatRules(c, i, ip, access, cfg) /\ r.chain = "PREROUTING"
           <=> ~Closed(g, access) /\ r \in AccessDrop(c, i, g, access) \cup {Line(c, i, g, cfg)}
    BY <2>2, <2>3, <2>6, <2>8, <2>9
  <2> QED BY <2>1, <2>4, <2>7, <2>8, <2>9, <2>10 DEF NatChain, access
<1> QED BY <1>1, <1>2, <1>3, <1>4 DEF Wellformed

\* The nat chain is that of the enabled rules.
LEMMA ChainOfScript ==
    ASSUME NEW cfg \in Configs, NEW f \in {"ip", "ip6"}, NEW r
    PROVE  r \in Script(cfg) /\ r.chain = "PREROUTING" /\ r.fam = f
             <=> /\ cfg.global
                 /\ \E n \in 1..Len(Live(cfg)) : r \in NatChain(Live(cfg)[n], n - 1, f, cfg)
<1>1. r.chain = "PREROUTING" =>
        (r \in Script(cfg) <=> /\ cfg.global
                               /\ \E n \in 1..Len(Live(cfg)) :
                                     r \in CellRules(Live(cfg)[n], n - 1, cfg))
  BY OtherChains DEF Script, Live
<1>2. \A n \in 1..Len(Live(cfg)) :
        r \in CellRules(Live(cfg)[n], n - 1, cfg) /\ r.chain = "PREROUTING" /\ r.fam = f
          <=> r \in NatChain(Live(cfg)[n], n - 1, f, cfg)
  <2> SUFFICES ASSUME NEW n \in 1..Len(Live(cfg))
               PROVE  r \in CellRules(Live(cfg)[n], n - 1, cfg) /\ r.chain = "PREROUTING" /\ r.fam = f
                        <=> r \in NatChain(Live(cfg)[n], n - 1, f, cfg)
    OBVIOUS
  <2>1. Wellformed(Live(cfg)[n])
    BY LiveWellformed
  <2> DEFINE c == Live(cfg)[n]
             i == n - 1
  <2>2. Wellformed(c)
    BY <2>1
  <2> HIDE DEF c, i
  <2>3. r \in CellRules(c, i, cfg) /\ r.chain = "PREROUTING" /\ r.fam = f
          <=> r \in NatChain(c, i, f, cfg)
    BY <2>2, ChainOfCell
  <2> QED BY <2>3 DEF c, i
<1> QED BY <1>1, <1>2

------------------------------------------------------------------------------
(* Which line decides.                                                      *)

\* A line that matches and stands before every other one decides.
LEMMA VerdictIs ==
    ASSUME NEW rules, NEW chain, NEW p, NEW first \in rules,
           first.chain = chain, Matches(first, p), first.verdict \in Final,
           \A q \in rules : q.chain = chain /\ Matches(q, p) /\ q.verdict \in Final
                           => q = first \/ (Before(first, q) /\ ~Before(q, first))
    PROVE  Verdict(rules, chain, p) = first
<1> DEFINE final == {r \in Hits(rules, chain, p) : r.verdict \in Final}
           firsts == {r \in final : \A q \in final : q = r \/ Before(r, q)}
<1>1. Verdict(rules, chain, p) = IF firsts = {} THEN NoRule ELSE CHOOSE r \in firsts : TRUE
  BY Zenon DEF Verdict
<1>2. first \in final
  BY DEF Hits
<1>3. \A q \in final : q = first \/ (Before(first, q) /\ ~Before(q, first))
  BY DEF Hits
<1> HIDE DEF final
<1>4. firsts = {first}
  BY <1>2, <1>3
<1> QED BY <1>1, <1>4

\* Without a line that matches nothing decides.
LEMMA VerdictNone ==
    ASSUME NEW rules, NEW chain, NEW p,
           \A q \in rules : q.chain = chain /\ q.verdict \in Final => ~Matches(q, p)
    PROVE  Verdict(rules, chain, p) = NoRule
BY VerdictFirst

\* The rules of cfg that ask for packet p.
AskedBy(cfg, p) ==
    {n \in 1..Len(Live(cfg)) :
        /\ cfg.global /\ IsForward(Live(cfg)[n]) /\ Serves(Live(cfg)[n], p.fam, cfg)
        /\ p.port \in Listen(Live(cfg)[n]) /\ p.proto \in NftProto(Live(cfg)[n].protocol)}

FirstOf(cfg, p) == CHOOSE n \in AskedBy(cfg, p) : \A m \in AskedBy(cfg, p) : n <= m

LEMMA FirstIsLeast ==
    ASSUME NEW cfg, NEW p, AskedBy(cfg, p) # {}
    PROVE  /\ FirstOf(cfg, p) \in AskedBy(cfg, p) /\ FirstOf(cfg, p) \in Nat
           /\ \A m \in AskedBy(cfg, p) : m \in Nat /\ FirstOf(cfg, p) <= m
<1>1. AskedBy(cfg, p) \in SUBSET Nat
  BY DEF AskedBy
<1> QED BY <1>1, Least DEF FirstOf

\* The fields of the two lines a rule may have in the nat chain.
LEMMA LineShape ==
    ASSUME NEW c, NEW i, NEW f, NEW cfg
    PROVE  LET access == AccessWithDynamic(cfg)
               r == Line(c, i, f, cfg)
           IN /\ r.chain = "PREROUTING" /\ r.fam = f /\ r.pos = <<1, i, 2>>
              /\ r.src = AccessCondition(f, access) /\ r.dst = AnyDst
              /\ r.proto = NftProto(c.protocol) /\ r.sports = Ports /\ r.dports = Listen(c)
              /\ r.state = {"new"} /\ r.index = i /\ r.port = SetsPort(c)
              /\ IF c.type = "redirect" \/ Localhost(c, f)
                 THEN r.verdict = "redirect" /\ r.to = Self
                 ELSE r.verdict = "dnat" /\ r.to = TargetIp(c, cfg)
<1> DEFINE access == AccessWithDynamic(cfg)
<1> HIDE DEF access
<1>1. CASE c.type = "redirect" \/ Localhost(c, f)
  <2>1. Line(c, i, f, cfg) = Translate(c, i, f, access, "redirect", Self, SetsPort(c))
    BY <1>1 DEF Line, access
  <2> QED BY <1>1, <2>1 DEF Translate, On, access
<1>2. CASE ~(c.type = "redirect" \/ Localhost(c, f))
  <2>1. Line(c, i, f, cfg) = Translate(c, i, f, access, "dnat", TargetIp(c, cfg), SetsPort(c))
    BY <1>2 DEF Line, access
  <2> QED BY <1>2, <2>1 DEF Translate, On, access
<1> QED BY <1>1, <1>2

LEMMA DropShape ==
    ASSUME NEW c, NEW i, NEW f, NEW access, NEW r \in AccessDrop(c, i, f, access)
    PROVE  /\ r.chain = "PREROUTING" /\ r.fam = f /\ r.pos = <<1, i, 1>>
           /\ r.src = AccessEntries(f, access) /\ r.dst = AnyDst
           /\ r.proto = NftProto(c.protocol) /\ r.sports = Ports /\ r.dports = Listen(c)
           /\ r.state = {"new", "est"} /\ r.verdict = "drop"
           /\ access.mode = "blacklist" /\ AccessDrop(c, i, f, access) = {r}
BY DEF AccessDrop, On

LEMMA PacketFields ==
    ASSUME NEW p \in Packets
    PROVE  /\ p.fam \in {"ip", "ip6"} /\ Family(p.src) = p.fam
           /\ p.src \in Addresses /\ p.dst \in AnyDst /\ 0 \in Ports
<1>1. p.fam \in {"ip", "ip6"} /\ p.src \in Addresses
  BY RulesetAssumption DEF Addresses
<1>2. Family(p.src) = p.fam
  BY CellsAssumption, RulesetAssumption DEF Family
<1>3. p.dst \in AnyDst
  BY RulesetAssumption DEF AnyDst, Self
<1>4. 0 \in Ports
  <2>1. MaxPort \in Nat
    BY CellsAssumption, Zenon
  <2> QED BY <2>1 DEF Ports
<1> QED BY <1>1, <1>2, <1>3, <1>4

\* Which packets the lines of a rule that asks for p match: the line of the
\* translation those admitted or blacklisted, the drop those blacklisted.
LEMMA LineMatches ==
    ASSUME NEW cfg \in Configs, NEW p \in Packets, p.state = "new",
           NEW c, NEW i, ~Closed(p.fam, AccessWithDynamic(cfg))
    PROVE  LET access == AccessWithDynamic(cfg)
               asked == p.port \in Listen(c) /\ p.proto \in NftProto(c.protocol)
           IN /\ Matches(Line(c, i, p.fam, cfg), p)
                   <=> asked /\ (access.mode = "whitelist" => AdmittedBy(cfg, p.src))
              /\ \A r \in AccessDrop(c, i, p.fam, access) :
                    Matches(r, p) <=> asked /\ ~AdmittedBy(cfg, p.src)
<1> DEFINE access == AccessWithDynamic(cfg)
           r == Line(c, i, p.fam, cfg)
<1> HIDE DEF access, r
<1>1. /\ p.fam \in {"ip", "ip6"} /\ p.src \in Addresses /\ Family(p.src) = p.fam
      /\ p.dst \in AnyDst /\ 0 \in Ports
  BY PacketFields
<1>2. p.src \in AccessEntries(p.fam, access) <=> p.src \in access.entries
  BY <1>1 DEF AccessEntries
<1>3. /\ access.mode = "whitelist" => (AdmittedBy(cfg, p.src) <=> p.src \in access.entries)
      /\ access.mode = "blacklist" => (AdmittedBy(cfg, p.src) <=> p.src \notin access.entries)
  BY DEF AdmittedBy, access
<1>4. p.src \in AccessCondition(p.fam, access)
        <=> (access.mode = "whitelist" => AdmittedBy(cfg, p.src))
  BY <1>1, <1>2, <1>3 DEF AccessCondition, Closed, access
<1>5. /\ r.fam = p.fam /\ r.src = AccessCondition(p.fam, access) /\ r.dst = AnyDst
      /\ r.proto = NftProto(c.protocol) /\ r.sports = Ports /\ r.dports = Listen(c)
      /\ r.state = {"new"}
  BY LineShape DEF r, access
<1>6. Matches(r, p) <=> /\ p.port \in Listen(c) /\ p.proto \in NftProto(c.protocol)
                        /\ access.mode = "whitelist" => AdmittedBy(cfg, p.src)
  BY <1>1, <1>4, <1>5 DEF Matches
<1>7. ASSUME NEW d \in AccessDrop(c, i, p.fam, access)
      PROVE  Matches(d, p) <=> /\ p.port \in Listen(c) /\ p.proto \in NftProto(c.protocol)
                               /\ ~AdmittedBy(cfg, p.src)
  <2>1. /\ d.fam = p.fam /\ d.src = AccessEntries(p.fam, access) /\ d.dst = AnyDst
        /\ d.proto = NftProto(c.protocol) /\ d.sports = Ports /\ d.dports = Listen(c)
        /\ d.state = {"new", "est"} /\ access.mode = "blacklist"
    BY <1>7, DropShape
  <2> QED BY <1>1, <1>2, <1>3, <2>1 DEF Matches
<1> QED BY <1>6, <1>7 DEF r, access

\* A line of the script that matches p is one of a rule that asks for p.
LEMMA HitIsAsked ==
    ASSUME NEW cfg \in Configs, NEW p \in Packets, p.state = "new",
           NEW q \in Script(cfg), q.chain = "PREROUTING", Matches(q, p)
    PROVE  \E n \in AskedBy(cfg, p) :
              /\ ~Closed(p.fam, AccessWithDynamic(cfg))
              /\ q \in NatChain(Live(cfg)[n], n - 1, p.fam, cfg)
              /\ \/ q = Line(Live(cfg)[n], n - 1, p.fam, cfg)
                 \/ q \in AccessDrop(Live(cfg)[n], n - 1, p.fam, AccessWithDynamic(cfg))
<1>1. q.fam = p.fam /\ p.fam \in {"ip", "ip6"}
  BY RulesetAssumption DEF Matches
<1>2. PICK n \in 1..Len(Live(cfg)) : q \in NatChain(Live(cfg)[n], n - 1, p.fam, cfg)
  BY <1>1, ChainOfScript
<1> DEFINE c == Live(cfg)[n]
           access == AccessWithDynamic(cfg)
<1> HIDE DEF c, access
<1>3. /\ IsForward(c) /\ Serves(c, p.fam, cfg) /\ ~Closed(p.fam, access)
      /\ q = Line(c, n - 1, p.fam, cfg) \/ q \in AccessDrop(c, n - 1, p.fam, access)
  BY <1>2 DEF NatChain, c, access
<1>4. p.port \in Listen(c) /\ p.proto \in NftProto(c.protocol)
  BY <1>3, LineMatches DEF access
<1>5. cfg.global
  BY <1>1, ChainOfScript
<1> QED BY <1>2, <1>3, <1>4, <1>5 DEF AskedBy, c, access

\* Nothing decides when no rule asks for p, or the whitelist leaves it out.
LEMMA NatNone ==
    ASSUME NEW cfg \in Configs, NEW p \in Packets, p.state = "new",
           \/ AskedBy(cfg, p) = {}
           \/ AccessWithDynamic(cfg).mode = "whitelist" /\ ~AdmittedBy(cfg, p.src)
    PROVE  Verdict(Script(cfg), "PREROUTING", p) = NoRule
<1> SUFFICES ASSUME NEW q \in Script(cfg), q.chain = "PREROUTING", Matches(q, p) PROVE FALSE
  BY VerdictNone
<1>1. PICK n \in AskedBy(cfg, p) :
        /\ ~Closed(p.fam, AccessWithDynamic(cfg))
        /\ \/ q = Line(Live(cfg)[n], n - 1, p.fam, cfg)
           \/ q \in AccessDrop(Live(cfg)[n], n - 1, p.fam, AccessWithDynamic(cfg))
  BY HitIsAsked
<1>2. AccessWithDynamic(cfg).mode = "whitelist" /\ ~AdmittedBy(cfg, p.src)
  BY <1>1
<1>3. CASE q = Line(Live(cfg)[n], n - 1, p.fam, cfg)
  BY <1>1, <1>2, <1>3, LineMatches
<1>4. CASE q \in AccessDrop(Live(cfg)[n], n - 1, p.fam, AccessWithDynamic(cfg))
  BY <1>2, <1>4, DropShape
<1> QED BY <1>1, <1>3, <1>4

\* A line of one rule stands before those of the rules after it.
LEMMA ChainOrder ==
    ASSUME NEW n \in Nat, NEW m \in Nat, NEW r, NEW q, NEW a \in Nat, NEW b \in Nat,
           r.pos = <<1, n - 1, a>>, q.pos = <<1, m - 1, b>>,
           n < m \/ (n = m /\ a < b)
    PROVE  Before(r, q) /\ ~Before(q, r)
BY DEF Before

\* A blacklisted source meets the drop of the first rule that asks for p.
LEMMA NatDrops ==
    ASSUME NEW cfg \in Configs, NEW p \in Packets, p.state = "new",
           AskedBy(cfg, p) # {}, ~AdmittedBy(cfg, p.src),
           AccessWithDynamic(cfg).mode = "blacklist"
    PROVE  Verdict(Script(cfg), "PREROUTING", p).verdict = "drop"
<1> DEFINE access == AccessWithDynamic(cfg)
           k == FirstOf(cfg, p)
           c == Live(cfg)[k]
           d == [On("PREROUTING", p.fam, 1, k - 1, 1) EXCEPT
                    !.src = AccessEntries(p.fam, access), !.proto = NftProto(c.protocol),
                    !.dports = Listen(c), !.verdict = "drop"]
<1>1. /\ k \in AskedBy(cfg, p) /\ k \in Nat /\ k \in 1..Len(Live(cfg))
      /\ \A m \in AskedBy(cfg, p) : m \in Nat /\ k <= m
  BY FirstIsLeast DEF AskedBy
<1>2. /\ cfg.global /\ IsForward(c) /\ Serves(c, p.fam, cfg)
      /\ p.port \in Listen(c) /\ p.proto \in NftProto(c.protocol)
  BY <1>1 DEF AskedBy
<1>3. p.fam \in {"ip", "ip6"} /\ Family(p.src) = p.fam
  BY PacketFields
<1> HIDE DEF access, k, c, d
<1>4. ~Closed(p.fam, access)
  BY DEF Closed, access
<1>5. p.src \in AccessEntries(p.fam, access)
  BY <1>3 DEF AdmittedBy, AccessEntries, access
<1>6. d \in AccessDrop(c, k - 1, p.fam, access)
  BY <1>5 DEF AccessDrop, access, d
<1>7. d \in Script(cfg)
  <2>1. d \in NatChain(c, k - 1, p.fam, cfg)
    BY <1>2, <1>4, <1>6 DEF NatChain, access
  <2> QED BY <1>1, <1>2, <1>3, <2>1, ChainOfScript DEF c
<1>8. Matches(d, p)
  BY <1>2, <1>4, <1>6, LineMatches DEF access
<1>9. d.chain = "PREROUTING" /\ d.verdict = "drop" /\ d.pos = <<1, k - 1, 1>>
  BY <1>6, DropShape
<1>10. ASSUME NEW q \in Script(cfg), q.chain = "PREROUTING", Matches(q, p)
       PROVE  q = d \/ (Before(d, q) /\ ~Before(q, d))
  <2>1. PICK m \in AskedBy(cfg, p) :
           \/ q = Line(Live(cfg)[m], m - 1, p.fam, cfg)
           \/ q \in AccessDrop(Live(cfg)[m], m - 1, p.fam, access)
    BY <1>10, HitIsAsked DEF access
  <2>2. m \in Nat /\ k <= m
    BY <1>1
  <2>3. CASE q = Line(Live(cfg)[m], m - 1, p.fam, cfg)
    <3>1. q.pos = <<1, m - 1, 2>>
      BY <2>3, LineShape
    <3> QED BY <1>1, <1>9, <2>2, <3>1, ChainOrder
  <2>4. CASE q \in AccessDrop(Live(cfg)[m], m - 1, p.fam, access) /\ k < m
    <3>1. q.pos = <<1, m - 1, 1>>
      BY <2>4, DropShape
    <3> QED BY <1>1, <1>9, <2>2, <2>4, <3>1, ChainOrder
  <2>5. CASE q \in AccessDrop(Live(cfg)[m], m - 1, p.fam, access) /\ k = m
    <3>1. AccessDrop(c, k - 1, p.fam, access) = {q}
      BY <2>5, DropShape DEF c
    <3> QED BY <1>6, <3>1
  <2> QED BY <1>1, <2>1, <2>2, <2>3, <2>4, <2>5
<1>11. Verdict(Script(cfg), "PREROUTING", p) = d
  BY <1>7, <1>8, <1>9, <1>10, VerdictIs DEF Final
<1> QED BY <1>9, <1>11

\* An admitted source is translated by the first rule that asks for p.
LEMMA NatTranslates ==
    ASSUME NEW cfg \in Configs, NEW p \in Packets, p.state = "new",
           AskedBy(cfg, p) # {}, AdmittedBy(cfg, p.src)
    PROVE  Verdict(Script(cfg), "PREROUTING", p)
             = Line(Live(cfg)[FirstOf(cfg, p)], FirstOf(cfg, p) - 1, p.fam, cfg)
<1> DEFINE access == AccessWithDynamic(cfg)
           k == FirstOf(cfg, p)
           c == Live(cfg)[k]
           t == Line(c, k - 1, p.fam, cfg)
<1>1. /\ k \in AskedBy(cfg, p) /\ k \in Nat /\ k \in 1..Len(Live(cfg))
      /\ \A m \in AskedBy(cfg, p) : m \in Nat /\ k <= m
  BY FirstIsLeast DEF AskedBy
<1>2. /\ cfg.global /\ IsForward(c) /\ Serves(c, p.fam, cfg)
      /\ p.port \in Listen(c) /\ p.proto \in NftProto(c.protocol)
  BY <1>1 DEF AskedBy
<1>3. p.fam \in {"ip", "ip6"} /\ Family(p.src) = p.fam
  BY PacketFields
<1> HIDE DEF access, k, c, t
<1>4. ~Closed(p.fam, access)
  BY <1>3 DEF Closed, AdmittedBy, AccessEntries, access
<1>5. t \in Script(cfg)
  <2>1. t \in NatChain(c, k - 1, p.fam, cfg)
    BY <1>2, <1>4 DEF NatChain, access, t
  <2> QED BY <1>1, <1>2, <1>3, <2>1, ChainOfScript DEF c
<1>6. Matches(t, p)
  BY <1>2, <1>4, LineMatches DEF access, t
<1>7. t.chain = "PREROUTING" /\ t.verdict \in {"redirect", "dnat"} /\ t.pos = <<1, k - 1, 2>>
  BY LineShape DEF t
<1>8. ASSUME NEW q \in Script(cfg), q.chain = "PREROUTING", Matches(q, p)
      PROVE  q = t \/ (Before(t, q) /\ ~Before(q, t))
  <2>1. PICK m \in AskedBy(cfg, p) :
           \/ q = Line(Live(cfg)[m], m - 1, p.fam, cfg)
           \/ q \in AccessDrop(Live(cfg)[m], m - 1, p.fam, access)
    BY <1>8, HitIsAsked DEF access
  <2>2. m \in Nat /\ k <= m
    BY <1>1
  <2>3. q = Line(Live(cfg)[m], m - 1, p.fam, cfg)
    BY <1>4, <1>8, <2>1, LineMatches DEF access
  <2>4. q.pos = <<1, m - 1, 2>>
    BY <2>3, LineShape
  <2>5. CASE k < m
    BY <1>1, <1>7, <2>2, <2>4, <2>5, ChainOrder
  <2>6. CASE k = m
    BY <2>3, <2>6 DEF t, c
  <2> QED BY <1>1, <2>2, <2>5, <2>6
<1>9. Verdict(Script(cfg), "PREROUTING", p) = t
  BY <1>5, <1>6, <1>7, <1>8, VerdictIs DEF Final
<1> QED BY <1>9 DEF t, c, k

------------------------------------------------------------------------------
(* Where a new connection goes.                                             *)

\* The fate of a packet from what the nat chain says of it.
LEMMA JourneyNew ==
    ASSUME NEW rules, NEW p, p.state = "new"
    PROVE  LET nat == Verdict(rules, "PREROUTING", p)
               q == Through(rules, p)
               fate == Journey(rules, p)
           IN /\ nat.verdict = "drop" => fate.fate = "dropped"
              /\ fate.fate # "dropped" =>
                    fate.by = nat.index /\ fate.dst = q.dst /\ fate.port = q.port
              /\ fate.fate = "dropped" => fate.by = NoPort
              /\ Verdict(rules, "GEOIP_PREROUTING", p).verdict = "drop" => fate.fate = "dropped"
              /\ fate.fate = "dropped" =>
                    \/ Verdict(rules, "GEOIP_PREROUTING", p).verdict = "drop"
                    \/ nat.verdict = "drop"
                    \/ \E chain \in {"INPUT", "FORWARD"} : Verdict(rules, chain, q).verdict = "drop"
<1> DEFINE nat == Verdict(rules, "PREROUTING", p)
           q == Through(rules, p)
           chain == IF q.dst = Self THEN "INPUT" ELSE "FORWARD"
           seen == Passed(rules, chain, q)
           snat == IF q.dst # Self THEN Verdict(rules, "POSTROUTING", q) ELSE NoRule
<1>1. Journey(rules, p) =
        IF Verdict(rules, "GEOIP_PREROUTING", p).verdict = "drop" \/ nat.verdict = "drop"
        THEN Fate("dropped", p, NoPort, NoRule, {})
        ELSE IF Verdict(rules, chain, q).verdict = "drop"
        THEN Fate("dropped", q, NoPort, NoRule, seen)
        ELSE Fate(chain, q, nat.index, snat, seen)
  BY Zenon DEF Journey, Through
<1>2. chain \in {"INPUT", "FORWARD"}
  OBVIOUS
<1> HIDE DEF nat, q, chain, seen, snat
<1>3. \A f, x, i, s, t : /\ Fate(f, x, i, s, t).fate = f /\ Fate(f, x, i, s, t).by = i
                         /\ Fate(f, x, i, s, t).dst = x.dst /\ Fate(f, x, i, s, t).port = x.port
  BY DEF Fate
<1>4. CASE \/ Verdict(rules, "GEOIP_PREROUTING", p).verdict = "drop" \/ nat.verdict = "drop"
           \/ Verdict(rules, chain, q).verdict = "drop"
  BY <1>1, <1>2, <1>3, <1>4 DEF nat, q
<1>5. CASE ~(\/ Verdict(rules, "GEOIP_PREROUTING", p).verdict = "drop" \/ nat.verdict = "drop"
             \/ Verdict(rules, chain, q).verdict = "drop")
  <2>1. Journey(rules, p) = Fate(chain, q, nat.index, snat, seen)
    BY <1>1, <1>5
  <2> QED BY <1>2, <1>3, <1>5, <2>1 DEF nat, q
<1> QED BY <1>4, <1>5

\* The line of the first rule that asks for p sends it where the rule says.
LEMMA ThroughLine ==
    ASSUME NEW cfg \in Configs, NEW p \in Packets, p.state = "new",
           AskedBy(cfg, p) # {}, AdmittedBy(cfg, p.src)
    PROVE  LET c == Live(cfg)[FirstOf(cfg, p)]
               q == Through(Script(cfg), p)
           IN /\ Verdict(Script(cfg), "PREROUTING", p).index = FirstOf(cfg, p) - 1
              /\ q.dst = IF c.type = "redirect" \/ Localhost(c, p.fam) THEN Self
                         ELSE TargetIp(c, cfg)
              /\ q.port = IF c.type = "range" THEN p.port ELSE c.dport
<1> DEFINE k == FirstOf(cfg, p)
           c == Live(cfg)[k]
           nat == Line(c, k - 1, p.fam, cfg)
           q == Through(Script(cfg), p)
           port == IF nat.port = NoPort THEN p.port ELSE nat.port
<1>1. Verdict(Script(cfg), "PREROUTING", p) = nat
  BY NatTranslates
<1>2. k \in 1..Len(Live(cfg)) /\ IsForward(c)
  BY FirstIsLeast DEF AskedBy
<1>3. Wellformed(c) /\ c.type # "drop"
  BY <1>2, LiveWellformed DEF IsForward
<1> HIDE DEF c, k
<1>4. /\ nat.index = k - 1 /\ nat.port = SetsPort(c)
      /\ IF c.type = "redirect" \/ Localhost(c, p.fam)
         THEN nat.verdict = "redirect" /\ nat.to = Self
         ELSE nat.verdict = "dnat" /\ nat.to = TargetIp(c, cfg)
  BY LineShape
<1>5. q = CASE nat.verdict = "dnat"     -> [p EXCEPT !.dst = nat.to, !.port = port]
            [] nat.verdict = "redirect" -> [p EXCEPT !.dst = Self, !.port = port]
            [] OTHER                    -> p
  BY <1>1 DEF Through
<1> HIDE DEF nat, q, port
<1>6. q = [p EXCEPT !.dst = nat.to, !.port = port]
  BY <1>4, <1>5
<1>7. p = Packet(p.fam, p.src, p.dst, p.proto, p.port, p.state)
  BY RulesetAssumption
<1>8. q.dst = nat.to /\ q.port = port
  BY <1>6, <1>7 DEF Packet
<1>9. port = IF c.type = "range" THEN p.port ELSE c.dport
  BY <1>3, <1>4 DEF port, SetsPort, Wellformed
<1> QED BY <1>1, <1>4, <1>8, <1>9 DEF c, k, q

\* The whole of a new connection's way through the nat chain.
LEMMA Routed ==
    ASSUME NEW cfg \in Configs, NEW p \in Packets, p.state = "new"
    PROVE  LET n == FirstOf(cfg, p)
               c == Live(cfg)[n]
               fate == Journey(Script(cfg), p)
           IN /\ fate.fate # "dropped" =>
                    IF AskedBy(cfg, p) # {} /\ AdmittedBy(cfg, p.src)
                    THEN /\ fate.by = n - 1
                         /\ fate.dst = IF c.type = "redirect" \/ Localhost(c, p.fam) THEN Self
                                       ELSE TargetIp(c, cfg)
                         /\ fate.port = IF c.type = "range" THEN p.port ELSE c.dport
                    ELSE fate.by = NoPort /\ fate.dst = p.dst /\ fate.port = p.port
              /\ AskedBy(cfg, p) # {} /\ ~AdmittedBy(cfg, p.src)
                   /\ AccessWithDynamic(cfg).mode = "blacklist" => fate.fate = "dropped"
<1> DEFINE rules == Script(cfg)
           nat == Verdict(rules, "PREROUTING", p)
           q == Through(rules, p)
           fate == Journey(rules, p)
<1> HIDE DEF rules, nat, q, fate
<1>1. /\ nat.verdict = "drop" => fate.fate = "dropped"
      /\ fate.fate # "dropped" => fate.by = nat.index /\ fate.dst = q.dst /\ fate.port = q.port
  BY JourneyNew DEF nat, q, fate
<1>2. CASE AskedBy(cfg, p) # {} /\ AdmittedBy(cfg, p.src)
  BY <1>1, <1>2, ThroughLine DEF rules, nat, q, fate
<1>3. CASE /\ AskedBy(cfg, p) # {} /\ ~AdmittedBy(cfg, p.src)
           /\ AccessWithDynamic(cfg).mode = "blacklist"
  BY <1>1, <1>3, NatDrops DEF rules, nat, fate
<1>4. CASE \/ AskedBy(cfg, p) = {}
           \/ AccessWithDynamic(cfg).mode # "blacklist" /\ ~AdmittedBy(cfg, p.src)
  <2>1. \/ AskedBy(cfg, p) = {}
        \/ AccessWithDynamic(cfg).mode = "whitelist" /\ ~AdmittedBy(cfg, p.src)
    BY <1>4 DEF AdmittedBy
  <2>2. nat = NoRule
    BY <2>1, NatNone DEF nat, rules
  <2>3. NoRule.index = NoPort /\ NoRule.verdict = "count"
    BY DEF NoRule, On
  <2>4. q = p
    BY <2>2, <2>3 DEF Through, q, nat
  <2> QED BY <1>1, <1>4, <2>2, <2>3, <2>4 DEF fate, rules
<1> QED BY <1>2, <1>3, <1>4

(* The script means what the configuration says, for every configuration,  *)
(* DNS answer, cache and packet: a new connection goes where the first     *)
(* enabled rule asking for it sends it, and is otherwise left alone.       *)
THEOREM RoutesAlwaysAsConfigured == Spec => []RoutesAsConfigured
<1>1. Judged => RoutesAsConfigured
  <2> SUFFICES ASSUME Judged, packet # NoPacket, packet.state = "new"
               PROVE  RoutesAsConfigured
    BY DEF RoutesAsConfigured
  <2>1. /\ packet \in Packets /\ config \in Configs
        /\ out = Journey(Script(config), packet)
    BY DEF Judged
  <2>2. Asked(packet) = AskedBy(config, packet)
    BY DEF Asked, AskedBy, ServesFamily, Serves, Live
  <2>3. FirstAsked(packet) = FirstOf(config, packet)
    BY <2>2 DEF FirstAsked, FirstOf
  <2>4. Admitted(packet.src) <=> AdmittedBy(config, packet.src)
    BY DEF Admitted, AdmittedBy
  <2>5. config.access.mode = AccessWithDynamic(config).mode
    BY DEF AccessWithDynamic
  <2> DEFINE n == FirstOf(config, packet)
  <2>6. Asked(packet) # {} => RuleOf(n - 1) = Live(config)[n]
    BY <2>2, FirstIsLeast DEF RuleOf, Live
  <2> HIDE DEF n
  <2> QED BY <2>1, <2>2, <2>3, <2>4, <2>5, <2>6, Routed
          DEF RoutesAsConfigured, Translated, ToAddress, ToPort, n
<1> QED BY <1>1, JudgedInductive, PTL

------------------------------------------------------------------------------
(* The GeoIP chain.                                                         *)

\* What a rule resolves to fits its version, from a literal, the DNS or the
\* cache.
LEMMA RemoteFits ==
    ASSUME NEW target, NEW version, NEW dns, RemoteIp(target, version, dns) # NoText
    PROVE  Fits(RemoteIp(target, version, dns), version)
<1> DEFINE answers == dns.answers[target]
           fitting == {n \in 1..Len(answers) : Fits(answers[n], version)}
           v4s == {n \in fitting : answers[n] \in V4}
           first(places) == answers[CHOOSE n \in places : \A m \in places : n <= m]
<1>1. RemoteIp(target, version, dns) =
        IF target \in Addresses
        THEN IF Fits(target, version) /\ ~Rejected(target, dns) THEN target ELSE NoText
        ELSE IF fitting = {} \/ \E n \in fitting : Rejected(answers[n], dns) THEN NoText
        ELSE IF v4s # {} THEN first(v4s) ELSE first(fitting)
  BY Zenon DEF RemoteIp
<1>2. CASE target \in Addresses
  BY <1>1, <1>2
<1>3. CASE target \notin Addresses
  <2>1. /\ fitting # {}
        /\ \/ RemoteIp(target, version, dns) = first(v4s) /\ v4s # {}
           \/ RemoteIp(target, version, dns) = first(fitting)
    BY <1>1, <1>3
  <2>2. fitting \in SUBSET Nat /\ v4s \in SUBSET Nat /\ v4s \subseteq fitting
    OBVIOUS
  <2>3. \A n \in fitting : Fits(answers[n], version)
    OBVIOUS
  <2> HIDE DEF fitting, v4s
  <2>4. (CHOOSE n \in fitting : \A m \in fitting : n <= m) \in fitting
    BY <2>1, <2>2, Least
  <2>5. v4s # {} => (CHOOSE n \in v4s : \A m \in v4s : n <= m) \in v4s
    BY <2>2, Least
  <2>6. Fits(first(fitting), version) /\ (v4s # {} => Fits(first(v4s), version))
    BY <2>2, <2>3, <2>4, <2>5
  <2> QED BY <2>1, <2>6
<1> QED BY <1>2, <1>3

LEMMA TargetFits ==
    ASSUME NEW c, NEW cfg, TargetIp(c, cfg) # NoText
    PROVE  Fits(TargetIp(c, cfg), c.version)
<1> DEFINE live == RemoteIp(c.target, c.version, cfg.dns)
           cached == {e.ip : e \in {d \in cfg.cache : d.key = RuleKey(c) /\ Fits(d.ip, c.version)}}
<1>1. TargetIp(c, cfg) = ResolvedIp(c, cfg)
  BY DEF TargetIp
<1>2. ResolvedIp(c, cfg) = IF live # NoText THEN live
                           ELSE IF FallsBack(cfg) /\ RuleKey(c) # NoKey /\ cached # {}
                           THEN CHOOSE ip \in cached : TRUE ELSE NoText
  BY Zenon DEF ResolvedIp
<1>3. \A ip \in cached : Fits(ip, c.version)
  OBVIOUS
<1>4. live # NoText => Fits(live, c.version)
  BY RemoteFits
<1> HIDE DEF live, cached
<1>5. CASE live # NoText
  BY <1>1, <1>2, <1>4, <1>5
<1>6. CASE live = NoText
  <2>1. cached # {} /\ TargetIp(c, cfg) = CHOOSE ip \in cached : TRUE
    BY <1>1, <1>2, <1>6
  <2> QED BY <1>3, <2>1
<1> QED BY <1>5, <1>6

\* A rule that asks for an IPv4 packet and has a line is in the summary.
LEMMA AskedIsSummarised ==
    ASSUME NEW cfg \in Configs, NEW p, p.fam = "ip", NEW n \in AskedBy(cfg, p),
           CellRules(Live(cfg)[n], n - 1, cfg) # {}
    PROVE  n \in Summarised(Live(cfg), cfg)
<1> DEFINE c == Live(cfg)[n]
<1>1. n \in 1..Len(Live(cfg)) /\ IsForward(c) /\ Serves(c, "ip", cfg)
  BY DEF AskedBy
<1>2. Wellformed(c)
  BY <1>1, LiveWellformed
<1> HIDE DEF c
<1>3. c.version \in {"ipv4", "all"}
  <2>1. CASE c.type = "redirect"
    BY <1>1, <2>1 DEF Serves
  <2>2. CASE c.type # "redirect"
    <3>1. TargetIp(c, cfg) # NoText /\ Family(TargetIp(c, cfg)) = "ip"
      BY <1>1, <2>2 DEF Serves
    <3>2. Fits(TargetIp(c, cfg), c.version)
      BY <3>1, TargetFits
    <3> QED BY <3>1, <3>2 DEF Fits, Family
  <2> QED BY <2>1, <2>2
<1> QED BY <1>1, <1>3 DEF Summarised, c

\* The rules with a cell are in the other chains.
LEMMA CellChains ==
    ASSUME NEW c, NEW i, NEW cfg, NEW r \in CellRules(c, i, cfg)
    PROVE  r.chain # "GEOIP_PREROUTING"
<1> DEFINE access == AccessWithDynamic(cfg)
           ip == TargetIp(c, cfg)
<1> HIDE DEF access
<1>1. CASE c.type = "drop"
  BY <1>1 DEF CellRules, DropRule, On
<1>2. CASE c.type = "redirect"
  <2>1. PICK f : r \in RedirectRule(c, i, f, access)
    BY <1>2 DEF CellRules, RedirectRules, access
  <2>2. r \in AccessDrop(c, i, f, access) \/ r = Translate(c, i, f, access, "redirect", Self, c.dport)
    BY <2>1 DEF RedirectRule
  <2> QED BY <2>2, DropFields, TranslateFields
<1>3. CASE c.type \notin {"drop", "redirect"}
  <2>1. r \in NatRules(c, i, ip, access, cfg)
    BY <1>3 DEF CellRules, access
  <2> HIDE DEF ip
  <2>2. \A x : \A q \in AccessDrop(c, i, x, access) : q.chain = "PREROUTING"
    BY DropFields
  <2>3. \A v, x, y : Translate(c, i, Family(ip), access, v, x, y).chain = "PREROUTING"
    BY TranslateFields
  <2>4. \A x : \A q \in Postrouting(c, i, Family(ip), ip, x, cfg) : q.chain = "POSTROUTING"
    BY DEF Postrouting, On
  <2>5. \A x : \A q \in TrafficCounters(c, i, Family(ip), ip, x) : q.chain = "FORWARD"
    BY DEF TrafficCounters, On
  <2> QED BY <2>1, <2>2, <2>3, <2>4, <2>5 DEF NatRules
<1> QED BY <1>1, <1>2, <1>3

GeoRule(live, n, step) ==
    [On("GEOIP_PREROUTING", "ip", 2, n - 1, step) EXCEPT
        !.proto = NftProto(live[n].protocol), !.dports = Listen(live[n])]
GeoDrop(live, n) == [GeoRule(live, n, 3) EXCEPT !.verdict = "drop"]
GeoLan(live, n, cfg) == [GeoRule(live, n, 2) EXCEPT !.src = LanV4(cfg), !.verdict = "accept"]
GeoCn(live, n, cfg) == [GeoRule(live, n, 1) EXCEPT !.src = CnSet(cfg), !.verdict = "accept"]

\* The lines of the chain, each with what it accepts or drops.
LEMMA GeoForwardLines ==
    ASSUME NEW live, NEW cfg
    PROVE  /\ \A r \in GeoForwardRules(live, cfg) : \E n \in Summarised(live, cfg) :
                 r \in {GeoCn(live, n, cfg), GeoLan(live, n, cfg), GeoDrop(live, n)}
           /\ \A n \in Summarised(live, cfg) : GeoDrop(live, n) \in GeoForwardRules(live, cfg)
<1>1. GeoForwardRules(live, cfg) =
        UNION {{GeoCn(live, n, cfg), GeoDrop(live, n)}
               \cup IF LanV4(cfg) = {} THEN {} ELSE {GeoLan(live, n, cfg)}
               : n \in Summarised(live, cfg)}
  BY Zenon DEF GeoForwardRules, GeoCn, GeoDrop, GeoLan, GeoRule
<1> QED BY <1>1

LEMMA GeoSources ==
    ASSUME NEW live, NEW n, NEW cfg
    PROVE  GeoCn(live, n, cfg).src = CnSet(cfg) /\ GeoLan(live, n, cfg).src = LanV4(cfg)
BY DEF GeoCn, GeoLan, GeoRule, On

LEMMA GeoDropShape ==
    ASSUME NEW live, NEW n, NEW c, c = live[n]
    PROVE  /\ GeoDrop(live, n).chain = "GEOIP_PREROUTING" /\ GeoDrop(live, n).fam = "ip"
           /\ GeoDrop(live, n).pos = <<2, n - 1, 3>>
           /\ GeoDrop(live, n).src = Addresses /\ GeoDrop(live, n).dst = AnyDst
           /\ GeoDrop(live, n).proto = NftProto(c.protocol)
           /\ GeoDrop(live, n).sports = Ports
           /\ GeoDrop(live, n).dports = Listen(c)
           /\ GeoDrop(live, n).state = {"new", "est"} /\ GeoDrop(live, n).verdict = "drop"
BY DEF GeoDrop, GeoRule, On

LEMMA GeoChain ==
    ASSUME NEW cfg, NEW q \in Script(cfg), q.chain = "GEOIP_PREROUTING"
    PROVE  q \in GeoPrerouting \/ q \in GeoForwardRules(Live(cfg), cfg)
BY OtherChains, CellChains DEF Script, Live

\* A new IPv4 connection of another source meets the drop of the first rule
\* of the summary for its port.
LEMMA GeoDrops ==
    ASSUME NEW cfg \in Configs, NEW p \in Packets, p.state = "new", p.fam = "ip",
           cfg.global, cfg.geo.forward, CnSet(cfg) # {},
           p.src \notin CnSet(cfg) \cup LanV4(cfg),
           NEW n \in Summarised(Live(cfg), cfg),
           p.port \in Listen(Live(cfg)[n]), p.proto \in NftProto(Live(cfg)[n].protocol)
    PROVE  Verdict(Script(cfg), "GEOIP_PREROUTING", p).verdict = "drop"
<1> DEFINE D == {m \in Summarised(Live(cfg), cfg) :
                    p.port \in Listen(Live(cfg)[m]) /\ p.proto \in NftProto(Live(cfg)[m].protocol)}
           k == CHOOSE m \in D : \A j \in D : m <= j
           d == GeoDrop(Live(cfg), k)
<1>1. D \in SUBSET Nat /\ n \in D
  BY DEF Summarised
<1>2. k \in D /\ k \in Nat /\ \A m \in D : m \in Nat /\ k <= m
  <2> HIDE DEF D
  <2> QED BY <1>1, Least
<1>3. /\ k \in Summarised(Live(cfg), cfg)
      /\ p.port \in Listen(Live(cfg)[k]) /\ p.proto \in NftProto(Live(cfg)[k].protocol)
  BY <1>2
<1>4. \A m \in Summarised(Live(cfg), cfg) :
        p.port \in Listen(Live(cfg)[m]) /\ p.proto \in NftProto(Live(cfg)[m].protocol)
          => m \in Nat /\ k <= m
  BY <1>2
<1> HIDE DEF D, k, d
<1>5. d \in Script(cfg)
  BY <1>3, GeoForwardLines DEF Script, d, Live
<1>6. /\ d.chain = "GEOIP_PREROUTING" /\ d.fam = "ip" /\ d.pos = <<2, k - 1, 3>>
      /\ d.src = Addresses /\ d.dst = AnyDst
      /\ d.proto = NftProto(Live(cfg)[k].protocol) /\ d.sports = Ports
      /\ d.dports = Listen(Live(cfg)[k]) /\ d.state = {"new", "est"} /\ d.verdict = "drop"
  BY GeoDropShape DEF d
<1>7. Matches(d, p)
  BY <1>3, <1>6, PacketFields DEF Matches
<1>8. ASSUME NEW q \in Script(cfg), q.chain = "GEOIP_PREROUTING", Matches(q, p)
      PROVE  q = d \/ (Before(d, q) /\ ~Before(q, d))
  <2>1. q \notin GeoPrerouting
    BY <1>8 DEF GeoPrerouting, On, Matches
  <2>2. PICK m \in Summarised(Live(cfg), cfg) :
           q \in {GeoCn(Live(cfg), m, cfg), GeoLan(Live(cfg), m, cfg), GeoDrop(Live(cfg), m)}
    BY <1>8, <2>1, GeoChain, GeoForwardLines
  <2>3. q = GeoDrop(Live(cfg), m)
    BY <1>8, <2>2, GeoSources DEF Matches
  <2>4. /\ q.pos = <<2, m - 1, 3>>
        /\ p.port \in Listen(Live(cfg)[m]) /\ p.proto \in NftProto(Live(cfg)[m].protocol)
    <3>1. /\ q.pos = <<2, m - 1, 3>> /\ q.dports = Listen(Live(cfg)[m])
          /\ q.proto = NftProto(Live(cfg)[m].protocol)
      BY <2>3, GeoDropShape
    <3> QED BY <1>8, <3>1 DEF Matches
  <2>5. m \in Nat /\ k <= m
    BY <1>4, <2>4
  <2>6. CASE k < m
    BY <1>2, <1>6, <2>4, <2>5, <2>6 DEF Before
  <2>7. CASE k = m
    BY <2>3, <2>7 DEF d
  <2> QED BY <1>2, <2>5, <2>6, <2>7
<1>9. Verdict(Script(cfg), "GEOIP_PREROUTING", p) = d
  BY <1>5, <1>6, <1>7, <1>8, VerdictIs DEF Final
<1> QED BY <1>6, <1>9

(* With GeoIP active for forwarding, every new IPv4 connection that is     *)
(* translated comes from the CN set or an allowed LAN, whatever rules,     *)
(* DNS answers and cached addresses the script was made of.                *)
THEOREM GeoAlwaysHolds == Spec => []GeoHolds
<1>1. Judged => GeoHolds
  <2> SUFFICES ASSUME Judged, Translated, packet.fam = "ip", config.geo.forward,
                      CnSet(config) # {},
                      packet.src \notin CnSet(config) \cup LanV4(config)
               PROVE  FALSE
    BY DEF GeoHolds
  <2>1. /\ packet \in Packets /\ config \in Configs
        /\ out = Journey(Script(config), packet)
    BY DEF Judged, Translated, NoFate
  <2> DEFINE nat == Verdict(Script(config), "PREROUTING", packet)
  <2>2. packet.state = "new" /\ nat.verdict # "drop" /\ nat # NoRule
    BY <2>1, JourneyTranslated DEF Translated
  <2>3. nat \in Script(config) /\ nat.chain = "PREROUTING" /\ Matches(nat, packet)
    BY <2>2, VerdictFirst
  <2> HIDE DEF nat
  <2>4. PICK n \in AskedBy(config, packet) :
           nat \in NatChain(Live(config)[n], n - 1, packet.fam, config)
    BY <2>1, <2>2, <2>3, HitIsAsked
  <2>5. /\ n \in 1..Len(Live(config)) /\ config.global
        /\ packet.port \in Listen(Live(config)[n])
        /\ packet.proto \in NftProto(Live(config)[n].protocol)
    BY DEF AskedBy
  <2>6. CellRules(Live(config)[n], n - 1, config) # {}
    BY <2>1, <2>4, <2>5, LiveWellformed, ChainOfCell
  <2>7. n \in Summarised(Live(config), config)
    BY <2>1, <2>6, AskedIsSummarised
  <2>8. Verdict(Script(config), "GEOIP_PREROUTING", packet).verdict = "drop"
    BY <2>1, <2>2, <2>5, <2>7, GeoDrops
  <2> QED BY <2>1, <2>2, <2>8, JourneyNew DEF Translated
<1> QED BY <1>1, JudgedInductive, PTL

------------------------------------------------------------------------------
(* The page on a source.                                                    *)

\* The lists of the page are those the lines are made of.
LEMMA AccessIs ==
    ASSUME NEW cfg \in Configs, NEW a
    PROVE  /\ Access(cfg, a) <=> AdmittedBy(cfg, a)
           /\ AccessWithDynamic(cfg).mode = cfg.access.mode
<1>1. /\ cfg.access = [mode |-> cfg.access.mode, entries |-> cfg.access.entries]
      /\ cfg.access.mode \in {"off", "whitelist", "blacklist"}
  BY RulesetAssumption
<1>2. CASE cfg.access.mode = "whitelist"
  <2>1. /\ AccessWithDynamic(cfg).mode = "whitelist"
        /\ AccessWithDynamic(cfg).entries = cfg.access.entries \cup cfg.dynamic
    BY <1>1, <1>2 DEF AccessWithDynamic
  <2> QED BY <1>2, <2>1 DEF Access, AdmittedBy, StaticHit, DynamicHit
<1>3. CASE cfg.access.mode = "blacklist"
  <2>1. AccessWithDynamic(cfg) = cfg.access
    BY <1>3 DEF AccessWithDynamic
  <2> QED BY <1>3, <2>1 DEF Access, AdmittedBy, StaticHit
<1>4. CASE cfg.access.mode = "off"
  <2>1. AccessWithDynamic(cfg) = cfg.access
    BY <1>4 DEF AccessWithDynamic
  <2> QED BY <1>4, <2>1 DEF Access, AdmittedBy
<1> QED BY <1>1, <1>2, <1>3, <1>4

\* What stands behind each word of the page on GeoIP.
LEMMA GeoAnswerIs ==
    ASSUME NEW cfg, NEW a \in Addresses
    PROVE  LET on == cfg.geo.enabled /\ cfg.geo.forward
               answer == GeoAnswer(cfg, a)
           IN /\ answer \in {"disabled", "unchecked", "unavailable", "hit", "miss"}
              /\ answer = "disabled" => ~on
              /\ answer = "unchecked" => a \in V6
              /\ answer = "hit" => a \in LanV4(cfg) \cup cfg.geo.file
              /\ answer = "miss" => /\ on /\ a \in V4 /\ a \notin LanV4(cfg) \cup cfg.geo.file
                                    /\ cfg.geo.file # {}
<1>1. CASE ~(cfg.geo.enabled /\ cfg.geo.forward)
  <2>1. GeoAnswer(cfg, a) = "disabled"
    BY <1>1 DEF GeoAnswer
  <2> QED BY <1>1, <2>1
<1>2. CASE cfg.geo.enabled /\ cfg.geo.forward /\ a \in V6
  <2>1. GeoAnswer(cfg, a) = "unchecked"
    BY <1>2, CellsAssumption DEF GeoAnswer
  <2> QED BY <1>2, <2>1
<1>3. CASE cfg.geo.enabled /\ cfg.geo.forward /\ a \in V4
  <2>1. a \notin V6
    BY <1>3, CellsAssumption
  <2>2. GeoAnswer(cfg, a) = IF a \in LanV4(cfg) THEN "hit"
                            ELSE IF cfg.geo.file = {} THEN "unavailable"
                            ELSE IF a \in cfg.geo.file THEN "hit" ELSE "miss"
    BY <1>3, <2>1 DEF GeoAnswer
  <2> QED BY <1>3, <2>2
<1> QED BY <1>1, <1>2, <1>3 DEF Addresses

\* Before the line that drops stand those that accept.
LEMMA GeoAccepts ==
    ASSUME NEW live, NEW cfg, NEW n \in Summarised(live, cfg)
    PROVE  /\ GeoCn(live, n, cfg) \in GeoForwardRules(live, cfg)
           /\ LanV4(cfg) # {} => GeoLan(live, n, cfg) \in GeoForwardRules(live, cfg)
<1>1. GeoForwardRules(live, cfg) =
        UNION {{GeoCn(live, m, cfg), GeoDrop(live, m)}
               \cup IF LanV4(cfg) = {} THEN {} ELSE {GeoLan(live, m, cfg)}
               : m \in Summarised(live, cfg)}
  BY Zenon DEF GeoForwardRules, GeoCn, GeoDrop, GeoLan, GeoRule
<1> QED BY <1>1

LEMMA GeoAcceptShape ==
    ASSUME NEW live, NEW n, NEW cfg, NEW c, c = live[n],
           NEW step \in {1, 2}, NEW r,
           r = IF step = 1 THEN GeoCn(live, n, cfg) ELSE GeoLan(live, n, cfg)
    PROVE  /\ r.chain = "GEOIP_PREROUTING" /\ r.fam = "ip" /\ r.pos = <<2, n - 1, step>>
           /\ r.src = (IF step = 1 THEN CnSet(cfg) ELSE LanV4(cfg)) /\ r.dst = AnyDst
           /\ r.proto = NftProto(c.protocol) /\ r.sports = Ports /\ r.dports = Listen(c)
           /\ r.state = {"new", "est"} /\ r.verdict = "accept"
<1>1. CASE step = 1
  BY <1>1 DEF GeoCn, GeoRule, On
<1>2. CASE step = 2
  BY <1>2 DEF GeoLan, GeoRule, On
<1> QED BY <1>1, <1>2

\* A packet of which the page does not say "miss", nor that there is no set
\* to tell, passes the GeoIP chain.
LEMMA GeoPasses ==
    ASSUME NEW cfg \in Configs, NEW p \in Packets, p.state = "new",
           GeoAnswer(cfg, p.src) \in {"disabled", "unchecked", "hit"}
    PROVE  Verdict(Script(cfg), "GEOIP_PREROUTING", p).verdict # "drop"
<1> DEFINE end == Verdict(Script(cfg), "GEOIP_PREROUTING", p)
<1> SUFFICES ASSUME end.verdict = "drop" PROVE FALSE
  OBVIOUS
<1>1. end # NoRule
  BY DEF NoRule, On
<1>2. /\ end \in Script(cfg) /\ end.chain = "GEOIP_PREROUTING" /\ Matches(end, p)
      /\ \A q \in Script(cfg) : q.chain = "GEOIP_PREROUTING" /\ Matches(q, p) /\ q.verdict \in Final
                               => q = end \/ Before(end, q)
  BY <1>1, VerdictFirst
<1> HIDE DEF end
<1>3. end \notin GeoPrerouting
  BY DEF GeoPrerouting, On
<1>4. /\ cfg.global /\ CnSet(cfg) # {} /\ cfg.geo.forward /\ end \in GeoForwardRules(Live(cfg), cfg)
      /\ GeoForwardRules(Live(cfg), cfg) \subseteq Script(cfg)
  BY <1>2, <1>3, OtherChains, CellChains DEF Script, Live
<1>5. cfg.geo.enabled /\ CnSet(cfg) = cfg.geo.file
  BY <1>4 DEF CnSet, GeoActive
<1>6. PICK m \in Summarised(Live(cfg), cfg) :
         end \in {GeoCn(Live(cfg), m, cfg), GeoLan(Live(cfg), m, cfg), GeoDrop(Live(cfg), m)}
  BY <1>4, GeoForwardLines
<1>7. end = GeoDrop(Live(cfg), m)
  BY <1>6 DEF GeoCn, GeoLan, GeoRule, On
<1>8. /\ end.fam = "ip" /\ end.pos = <<2, m - 1, 3>> /\ end.dst = AnyDst
      /\ end.proto = NftProto(Live(cfg)[m].protocol) /\ end.sports = Ports
      /\ end.dports = Listen(Live(cfg)[m]) /\ end.state = {"new", "est"}
  BY <1>7, GeoDropShape
<1>9. /\ p.fam = "ip" /\ p.dst \in AnyDst /\ p.proto \in NftProto(Live(cfg)[m].protocol)
      /\ 0 \in Ports /\ p.port \in Listen(Live(cfg)[m])
  BY <1>2, <1>8 DEF Matches
<1>10. p.src \in V4 /\ p.src \in Addresses /\ p.src \notin V6
  BY <1>9, RulesetAssumption, CellsAssumption DEF Addresses
<1>11. p.src \in LanV4(cfg) \cup CnSet(cfg)
  BY <1>4, <1>5, <1>10, GeoAnswerIs
<1>12. m \in Nat
  BY DEF Summarised
<1>13. ASSUME NEW step \in {1, 2},
              p.src \in IF step = 1 THEN CnSet(cfg) ELSE LanV4(cfg)
       PROVE  FALSE
  <2> DEFINE r == IF step = 1 THEN GeoCn(Live(cfg), m, cfg) ELSE GeoLan(Live(cfg), m, cfg)
  <2>1. r \in GeoForwardRules(Live(cfg), cfg)
    BY <1>13, GeoAccepts
  <2>2. /\ r.chain = "GEOIP_PREROUTING" /\ r.fam = "ip" /\ r.pos = <<2, m - 1, step>>
        /\ r.src = (IF step = 1 THEN CnSet(cfg) ELSE LanV4(cfg)) /\ r.dst = AnyDst
        /\ r.proto = NftProto(Live(cfg)[m].protocol) /\ r.sports = Ports
        /\ r.dports = Listen(Live(cfg)[m]) /\ r.state = {"new", "est"}
        /\ r.verdict = "accept"
    <3> HIDE DEF r
    <3> QED BY GeoAcceptShape DEF r
  <2> HIDE DEF r
  <2>3. Matches(r, p)
    BY <1>9, <1>13, <2>2 DEF Matches
  <2>4. r = end \/ Before(end, r)
    BY <1>2, <1>4, <2>1, <2>2, <2>3 DEF Final
  <2> QED BY <1>8, <1>12, <2>2, <2>4 DEF Before
<1>14. CASE p.src \in CnSet(cfg)
  BY <1>13, <1>14
<1>15. CASE p.src \in LanV4(cfg)
  <2>1. \E step \in {1, 2} : p.src \in IF step = 1 THEN CnSet(cfg) ELSE LanV4(cfg)
    BY <1>15
  <2> QED BY <1>13, <2>1
<1> QED BY <1>11, <1>14, <1>15

\* Only the restriction of the SSH port and the drop rules drop in the filter
\* chains.
LEMMA FilterDrops ==
    ASSUME NEW cfg \in Configs, NEW r \in Script(cfg), r.chain \in {"INPUT", "FORWARD"},
           r.verdict = "drop"
    PROVE  cfg.geo.ssh \/ \E n \in 1..Len(Live(cfg)) : Live(cfg)[n].type = "drop"
<1> SUFFICES ASSUME ~cfg.geo.ssh PROVE \E n \in 1..Len(Live(cfg)) : Live(cfg)[n].type = "drop"
  OBVIOUS
<1>1. PICK n \in 1..Len(Live(cfg)) : r \in CellRules(Live(cfg)[n], n - 1, cfg)
  BY OtherChains DEF Script, Live
<1> DEFINE c == Live(cfg)[n]
           access == AccessWithDynamic(cfg)
           ip == TargetIp(c, cfg)
<1> HIDE DEF c, access
<1>2. c.type # "redirect"
  <2> SUFFICES ASSUME c.type = "redirect" PROVE FALSE
    OBVIOUS
  <2>1. PICK f : r \in RedirectRule(c, n - 1, f, access)
    BY <1>1 DEF CellRules, RedirectRules, c, access
  <2>2. r \in AccessDrop(c, n - 1, f, access)
           \/ r = Translate(c, n - 1, f, access, "redirect", Self, c.dport)
    BY <2>1 DEF RedirectRule
  <2> QED BY <2>2, DropFields, TranslateFields
<1>3. c.type \notin {"single", "range"}
  <2> SUFFICES ASSUME c.type \in {"single", "range"} PROVE FALSE
    OBVIOUS
  <2>1. r \in NatRules(c, n - 1, ip, access, cfg)
    BY <1>1 DEF CellRules, c, access
  <2> HIDE DEF ip
  <2>2. \A x : \A q \in AccessDrop(c, n - 1, x, access) : q.chain = "PREROUTING"
    BY DropFields
  <2>3. \A v, x, y : Translate(c, n - 1, Family(ip), access, v, x, y).chain = "PREROUTING"
    BY TranslateFields
  <2>4. \A x : \A q \in Postrouting(c, n - 1, Family(ip), ip, x, cfg) : q.chain = "POSTROUTING"
    BY DEF Postrouting, On
  <2>5. \A x : \A q \in TrafficCounters(c, n - 1, Family(ip), ip, x) : q.verdict \in {"in", "out"}
    BY DEF TrafficCounters, On
  <2> QED BY <2>1, <2>2, <2>3, <2>4, <2>5 DEF NatRules
<1>4. Wellformed(c)
  BY LiveWellformed DEF c
<1> QED BY <1>2, <1>3, <1>4 DEF Wellformed, c

\* A rule that asks for p has a line, unless the whitelist is closed.
LEMMA AskedHasLine ==
    ASSUME NEW cfg \in Configs, NEW p \in Packets, NEW n \in AskedBy(cfg, p),
           ~Closed(p.fam, AccessWithDynamic(cfg))
    PROVE  CellRules(Live(cfg)[n], n - 1, cfg) # {}
<1> DEFINE c == Live(cfg)[n]
<1>1. n \in 1..Len(Live(cfg)) /\ IsForward(c) /\ Serves(c, p.fam, cfg)
  BY DEF AskedBy
<1>2. Wellformed(c) /\ p.fam \in {"ip", "ip6"}
  BY <1>1, LiveWellformed, PacketFields
<1> HIDE DEF c
<1>3. Line(c, n - 1, p.fam, cfg) \in NatChain(c, n - 1, p.fam, cfg)
  BY <1>1 DEF NatChain
<1>4. Line(c, n - 1, p.fam, cfg) \in CellRules(c, n - 1, cfg)
  BY <1>2, <1>3, ChainOfCell
<1> QED BY <1>4 DEF c

\* The source that GeoIP turns away is dropped before any rule.
LEMMA MissIsDropped ==
    ASSUME NEW cfg \in Configs, NEW p \in Packets, p.state = "new",
           AskedBy(cfg, p) # {}, ~Closed(p.fam, AccessWithDynamic(cfg)),
           GeoAnswer(cfg, p.src) = "miss"
    PROVE  Journey(Script(cfg), p).fate = "dropped"
<1>1. p.src \in Addresses /\ p.fam \in {"ip", "ip6"} /\ Family(p.src) = p.fam
  BY PacketFields
<1>2. /\ cfg.geo.enabled /\ cfg.geo.forward /\ p.src \in V4
      /\ p.src \notin LanV4(cfg) \cup cfg.geo.file /\ cfg.geo.file # {}
  BY <1>1, GeoAnswerIs
<1>3. p.fam = "ip"
  BY <1>1, <1>2, CellsAssumption DEF Family
<1>4. PICK n \in AskedBy(cfg, p) : TRUE
  OBVIOUS
<1>5. /\ cfg.global /\ n \in 1..Len(Live(cfg))
      /\ p.port \in Listen(Live(cfg)[n]) /\ p.proto \in NftProto(Live(cfg)[n].protocol)
  BY DEF AskedBy
<1>6. CnSet(cfg) = cfg.geo.file
  BY <1>2, <1>5 DEF CnSet, GeoActive
<1>7. n \in Summarised(Live(cfg), cfg)
  BY <1>3, AskedHasLine, AskedIsSummarised
<1>8. Verdict(Script(cfg), "GEOIP_PREROUTING", p).verdict = "drop"
  BY <1>2, <1>3, <1>5, <1>6, <1>7, GeoDrops
<1> QED BY <1>8, JourneyNew

\* The source of which the page says yes is served, or met a drop rule or the
\* restriction of the SSH port.
LEMMA YesIsServed ==
    ASSUME NEW cfg \in Configs, NEW p \in Packets, p.state = "new",
           AskedBy(cfg, p) # {}, AdmittedBy(cfg, p.src),
           GeoAnswer(cfg, p.src) \in {"disabled", "unchecked", "hit"}
    PROVE  \/ Journey(Script(cfg), p).by # NoPort
           \/ /\ Journey(Script(cfg), p).fate = "dropped"
              /\ cfg.geo.ssh \/ \E n \in 1..Len(Live(cfg)) : Live(cfg)[n].type = "drop"
<1> DEFINE fate == Journey(Script(cfg), p)
           q == Through(Script(cfg), p)
           k == FirstOf(cfg, p)
<1>1. CASE fate.fate # "dropped"
  <2>1. fate.by = k - 1
    BY <1>1, Routed
  <2>2. k \in 1..Len(Live(cfg)) /\ k \in Nat
    BY FirstIsLeast DEF AskedBy
  <2> HIDE DEF fate, k
  <2>3. k - 1 # NoPort
    BY <2>2 DEF NoPort
  <2> QED BY <2>1, <2>3 DEF fate
<1>2. CASE fate.fate = "dropped"
  <2>1. Verdict(Script(cfg), "GEOIP_PREROUTING", p).verdict # "drop"
    BY GeoPasses
  <2>2. Verdict(Script(cfg), "PREROUTING", p).verdict # "drop"
    <3>1. Line(Live(cfg)[k], k - 1, p.fam, cfg).verdict # "drop"
      BY LineShape
    <3> QED BY <3>1, NatTranslates
  <2>3. PICK chain \in {"INPUT", "FORWARD"} : Verdict(Script(cfg), chain, q).verdict = "drop"
    BY <1>2, <2>1, <2>2, JourneyNew
  <2> DEFINE end == Verdict(Script(cfg), chain, q)
  <2>4. end # NoRule
    BY <2>3 DEF NoRule, On
  <2>5. end \in Script(cfg) /\ end.chain = chain
    BY <2>4, VerdictFirst
  <2> HIDE DEF end
  <2>6. end.verdict = "drop"
    BY <2>3 DEF end
  <2> QED BY <1>2, <2>5, <2>6, FilterDrops
<1> QED BY <1>1, <1>2

(* The page tells of a source what the rules do to it: for every           *)
(* configuration, set on disk and packet, a source it calls refused is not *)
(* translated, and one it allows is, unless a drop rule or the restriction *)
(* of the SSH port takes it.                                               *)
THEOREM QueryAlwaysTrue == Spec => []QueryIsTrue
<1>1. Judged => QueryIsTrue
  <2> SUFFICES ASSUME Judged, packet # NoPacket, packet.state = "new", Asked(packet) # {}
               PROVE  QueryIsTrue
    BY DEF QueryIsTrue
  <2>1. /\ packet \in Packets /\ config \in Configs
        /\ out = Journey(Script(config), packet)
    BY DEF Judged
  <2>2. AskedBy(config, packet) # {}
    BY DEF Asked, AskedBy, ServesFamily, Serves, Live
  <2> DEFINE a == packet.src
             fate == Journey(Script(config), packet)
             page == Page(config, a)
             closed == Closed(packet.fam, AccessWithDynamic(config))
  <2>3. /\ page.static <=> StaticHit(config, a)
        /\ page.dynamic <=> DynamicHit(config, a)
        /\ page.blacklist = "hit" => config.access.mode = "blacklist" /\ StaticHit(config, a)
        /\ page.geo = GeoAnswer(config, a) /\ page.allowed = Assess(config, a)
    BY DEF Page
  <2>4. /\ Assess(config, a) = "no" => ~Access(config, a) \/ GeoAnswer(config, a) = "miss"
        /\ Assess(config, a) = "yes" => /\ Access(config, a)
                                        /\ GeoAnswer(config, a) \notin {"miss", "unavailable"}
    BY DEF Assess
  <2>5. /\ Access(config, a) <=> AdmittedBy(config, a)
        /\ AccessWithDynamic(config).mode = config.access.mode
    BY <2>1, AccessIs
  <2>6. GeoAnswer(config, a) \in {"disabled", "unchecked", "unavailable", "hit", "miss"}
    BY <2>1, PacketFields, GeoAnswerIs
  <2> HIDE DEF page, a, fate, closed
  <2>7. ~AdmittedBy(config, a) => fate.by = NoPort
    BY <2>1, AccessOfPacket DEF a, fate
  <2>8. GeoAnswer(config, a) = "miss" => fate.by = NoPort
    <3>1. CASE closed
      <4>1. ~AdmittedBy(config, a)
        BY <2>1, <3>1, PacketFields DEF closed, Closed, AccessEntries, AdmittedBy, a
      <4> QED BY <2>7, <4>1
    <3>2. CASE ~closed
      BY <2>1, <2>2, <3>2, MissIsDropped, JourneyNew DEF closed, a, fate
    <3> QED BY <3>1, <3>2
  <2>9. GeoAnswer(config, a) = "miss" /\ ~closed => fate.fate = "dropped"
    BY <2>1, <2>2, MissIsDropped DEF closed, a, fate
  <2>10. config.access.mode = "blacklist" /\ StaticHit(config, a) => fate.fate = "dropped"
    <3> SUFFICES ASSUME config.access.mode = "blacklist", StaticHit(config, a)
                 PROVE  fate.fate = "dropped"
      OBVIOUS
    <3>1. ~Access(config, a)
      BY DEF Access
    <3> QED BY <2>1, <2>2, <2>5, <3>1, Routed DEF a, fate
  <2>11. AdmittedBy(config, a) /\ GeoAnswer(config, a) \in {"disabled", "unchecked", "hit"}
           => \/ fate.by # NoPort
              \/ /\ fate.fate = "dropped"
                 /\ config.geo.ssh \/ \E n \in 1..Len(Live(config)) : Live(config)[n].type = "drop"
    BY <2>1, <2>2, YesIsServed DEF a, fate
  <2>12. config.access.mode = "whitelist" /\ ~StaticHit(config, a) /\ ~DynamicHit(config, a)
           => ~Access(config, a)
    BY DEF Access
  <2>13. page.allowed = "no" => fate.by = NoPort
    BY <2>3, <2>4, <2>5, <2>7, <2>8
  <2>14. page.allowed = "yes" =>
           \/ fate.by # NoPort
           \/ /\ fate.fate = "dropped"
              /\ config.geo.ssh \/ \E n \in 1..Len(Live(config)) : Live(config)[n].type = "drop"
    BY <2>3, <2>4, <2>5, <2>6, <2>11
  <2>15. /\ page.blacklist = "hit" => fate.fate = "dropped"
         /\ page.geo = "miss" /\ ~closed => fate.fate = "dropped"
    BY <2>3, <2>9, <2>10
  <2>16. config.access.mode = "whitelist" /\ ~page.static /\ ~page.dynamic => fate.by = NoPort
    BY <2>3, <2>5, <2>7, <2>12
  <2>17. fate = out
    BY <2>1 DEF fate
  <2>18. ASSUME NEW n \in 1..Len(Live(config))
         PROVE  \E m \in DOMAIN config.cells : Live(config)[n] = config.cells[m]
    <3>1. Len(config.cells) \in Nat /\ DOMAIN config.cells = 1..Len(config.cells)
      BY <2>1, RulesetAssumption
    <3>2. PICK m \in 1..Len(config.cells) : Live(config)[n] = config.cells[m]
      BY <3>1, LiveRules DEF Live
    <3> QED BY <3>1, <3>2
  <2>19. page.allowed = "yes" =>
           \/ fate.by # NoPort
           \/ /\ fate.fate = "dropped"
              /\ config.geo.ssh \/ \E n \in DOMAIN config.cells : config.cells[n].type = "drop"
    BY <2>14, <2>18
  <2> QED BY <2>13, <2>15, <2>16, <2>17, <2>19
          DEF QueryIsTrue, Translated, page, a, closed
<1> QED BY <1>1, JudgedInductive, PTL

------------------------------------------------------------------------------
(* The page on a rule: its SNAT section.                                    *)

\* A source is rewritten as the rule says, and wherever the rule stands.
LEMMA SnatLine ==
    ASSUME NEW c, NEW i, NEW cfg, NEW r \in CellRules(c, i, cfg), r.verdict = "snat", NEW j
    PROVE  /\ r.to = SnatTo(c, r.fam, cfg)
           /\ cfg.snat.mode = "off" => r.fam # "ip6" /\ SnatOf(c) # NoText
           /\ \E q \in CellRules(c, j, cfg) : q.verdict = "snat" /\ q.to = r.to
<1> DEFINE access == AccessWithDynamic(cfg)
           ip == TargetIp(c, cfg)
           family == Family(ip)
           dports == IF c.type = "single" THEN {c.dport} ELSE Listen(c)
           port == IF c.type = "single" THEN c.dport ELSE NoPort
<1> HIDE DEF access
<1>1. c.type # "drop"
  BY DEF CellRules, DropRule, On
<1>2. \A x, v, t, y : Translate(c, i, x, access, v, t, y).verdict = v
  BY DEF Translate, On
<1>3. c.type # "redirect"
  <2> SUFFICES ASSUME c.type = "redirect" PROVE FALSE
    OBVIOUS
  <2>1. PICK f : r \in RedirectRule(c, i, f, access)
    BY DEF CellRules, RedirectRules, access
  <2> QED BY <1>2, <2>1, DropsOnly DEF RedirectRule
<1>4. ip # NoText /\ \A k : CellRules(c, k, cfg) = NatRules(c, k, ip, access, cfg)
  BY <1>1, <1>3 DEF CellRules, access
<1> HIDE DEF ip
<1>5. ASSUME NEW k
      PROVE  NatRules(c, k, ip, access, cfg) =
               IF Closed(family, access) THEN {}
               ELSE AccessDrop(c, k, family, access)
                    \cup IF Localhost(c, family)
                         THEN {Translate(c, k, family, access, "redirect", Self, port)}
                         ELSE {Translate(c, k, family, access, "dnat", ip, port)}
                              \cup Postrouting(c, k, family, ip, dports, cfg)
                              \cup TrafficCounters(c, k, family, ip, dports)
  BY Zenon DEF NatRules
<1>6. \A q \in TrafficCounters(c, i, family, ip, dports) : q.verdict \in {"in", "out"}
  BY DEF TrafficCounters, On
<1> HIDE DEF family, dports, port
<1>7. /\ ~Closed(family, access) /\ ~Localhost(c, family)
      /\ r \in Postrouting(c, i, family, ip, dports, cfg)
  BY <1>2, <1>4, <1>5, <1>6, DropsOnly
<1>8. ~(cfg.snat.mode = "off" /\ (family = "ip6" \/ SnatOf(c) = NoText))
  BY <1>7 DEF Postrouting
<1>9. ASSUME NEW k, NEW q \in Postrouting(c, k, family, ip, dports, cfg)
      PROVE  q.fam = family /\ q.verdict = "snat" /\ q.to = SnatTo(c, family, cfg)
  BY <1>9 DEF Postrouting, On
<1>10. \E q : q \in Postrouting(c, j, family, ip, dports, cfg)
  BY <1>8 DEF Postrouting
<1> QED BY <1>4, <1>5, <1>7, <1>8, <1>9, <1>10

\* A rule of which the destination is translated and not the source is so by
\* the mode.
LEMMA NoSnatLine ==
    ASSUME NEW c, NEW i, NEW cfg, NEW r \in CellRules(c, i, cfg), r.verdict = "dnat",
           \A q \in CellRules(c, i, cfg) : q.fam = r.fam => q.verdict # "snat"
    PROVE  cfg.snat.mode = "off" /\ (r.fam = "ip6" \/ SnatOf(c) = NoText)
<1> DEFINE access == AccessWithDynamic(cfg)
           ip == TargetIp(c, cfg)
           family == Family(ip)
           dports == IF c.type = "single" THEN {c.dport} ELSE Listen(c)
           port == IF c.type = "single" THEN c.dport ELSE NoPort
<1> HIDE DEF access
<1>1. c.type # "drop"
  BY DEF CellRules, DropRule, On
<1>2. \A x, v, t, y : Translate(c, i, x, access, v, t, y).verdict = v
                     /\ Translate(c, i, x, access, v, t, y).fam = x
  BY DEF Translate, On
<1>3. c.type # "redirect"
  <2> SUFFICES ASSUME c.type = "redirect" PROVE FALSE
    OBVIOUS
  <2>1. PICK f : r \in RedirectRule(c, i, f, access)
    BY DEF CellRules, RedirectRules, access
  <2> QED BY <1>2, <2>1, DropsOnly DEF RedirectRule
<1>4. ip # NoText /\ CellRules(c, i, cfg) = NatRules(c, i, ip, access, cfg)
  BY <1>1, <1>3 DEF CellRules, access
<1> HIDE DEF ip
<1>5. NatRules(c, i, ip, access, cfg) =
        IF Closed(family, access) THEN {}
        ELSE AccessDrop(c, i, family, access)
             \cup IF Localhost(c, family)
                  THEN {Translate(c, i, family, access, "redirect", Self, port)}
                  ELSE {Translate(c, i, family, access, "dnat", ip, port)}
                       \cup Postrouting(c, i, family, ip, dports, cfg)
                       \cup TrafficCounters(c, i, family, ip, dports)
  BY Zenon DEF NatRules
<1> HIDE DEF family, dports, port
<1>6. \A q \in TrafficCounters(c, i, family, ip, dports) : q.verdict \in {"in", "out"}
  BY DEF TrafficCounters, On
<1>7. \A q \in Postrouting(c, i, family, ip, dports, cfg) : q.verdict = "snat" /\ q.fam = family
  BY DEF Postrouting, On
<1>8. ~Closed(family, access) /\ ~Localhost(c, family)
  BY <1>2, <1>4, <1>5, DropsOnly
<1>9. Postrouting(c, i, family, ip, dports, cfg) \subseteq CellRules(c, i, cfg)
  BY <1>4, <1>5, <1>8
<1>10. r.fam = family
  BY <1>2, <1>4, <1>5, <1>6, <1>7, <1>8, DropsOnly
<1>11. Postrouting(c, i, family, ip, dports, cfg) = {}
  BY <1>7, <1>9, <1>10
<1> QED BY <1>10, <1>11 DEF Postrouting

(* The SNAT section of the page on a rule shows the address in the rule's  *)
(* line, says off where there is none, and does not warn of an address of  *)
(* its own that has a line, for every configuration and environment; but   *)
(* where the legacy variable decides, for the address shown, only if the   *)
(* menu's process and the one that built the script have the same.         *)
THEOREM PlanAlwaysTrue == Spec => []PlanIsTrue
<1>1. Judged => PlanIsTrue
  <2> DEFINE Lines(n, verdict) == {r \in CellRules(config.cells[n], n - 1, config) :
                                     r.fam = "ip" /\ r.verdict = verdict}
  <2> SUFFICES ASSUME Judged, packet = NoPacket, config.global, NEW n \in Testable(config),
                      Enabled(config.cells[n])
               PROVE  /\ (FromVariable(config.cells[n], config)
                             => config.snat.shown = config.snat.legacy.ip)
                         => \A r \in Lines(n, "snat") : SnatPlan(config.cells[n], config) = r.to
                      /\ Lines(n, "dnat") # {} /\ Lines(n, "snat") = {}
                         => SnatPlan(config.cells[n], config) = NoSnat
                      /\ Lines(n, "snat") # {} => \A facts \in Facts : ~Report(n, facts).warned
    BY Zenon DEF PlanIsTrue, PlanHolds
  <2> DEFINE c == config.cells[n]
  <2>1. config \in Configs /\ script = Script(config) /\ Accepted(script)
    BY DEF Judged
  <2>2. /\ config.snat.mode \in {"off", "fixed", "masquerade"}
        /\ Len(config.cells) \in Nat /\ n \in 1..Len(config.cells)
    BY <2>1, RulesetAssumption DEF Testable
  <2>3. PICK k \in 1..Len(Live(config)) : Live(config)[k] = c
    BY <2>2, LiveRules DEF Live
  <2> HIDE DEF c
  <2>4. ASSUME NEW r \in Lines(n, "snat")
        PROVE  /\ r.to = SnatTo(c, "ip", config) /\ r.to # Blank
               /\ config.snat.mode = "off" => SnatOf(c) # NoText
               /\ \E q \in script : q.verdict = "snat" /\ q.to = r.to
    <3>1. /\ r.to = SnatTo(c, "ip", config)
          /\ config.snat.mode = "off" => SnatOf(c) # NoText
      BY SnatLine DEF c
    <3>2. PICK q \in CellRules(c, k - 1, config) : q.verdict = "snat" /\ q.to = r.to
      BY SnatLine DEF c
    <3>3. q \in script
      BY <2>1, <2>3, <3>2 DEF Script, Live
    <3> QED BY <2>1, <3>1, <3>2, <3>3 DEF Accepted
  <2>5. ASSUME NEW r \in Lines(n, "snat"),
               FromVariable(c, config) => config.snat.shown = config.snat.legacy.ip
        PROVE  SnatPlan(c, config) = r.to
    <3> HIDE DEF Lines
    <3>1. CASE SnatOf(c) # NoText
      BY <2>4, <3>1 DEF SnatPlan, SnatTo
    <3>2. CASE SnatOf(c) = NoText /\ config.snat.mode = "fixed"
      BY <2>4, <3>2 DEF SnatPlan, SnatTo, FamilySnat
    <3>3. CASE SnatOf(c) = NoText /\ config.snat.mode = "masquerade"
      <4>1. r.to = config.snat.legacy.ip /\ config.snat.legacy.ip # Blank
        BY <2>4, <3>3 DEF SnatTo
      <4>2. config.snat.shown = config.snat.legacy.ip
        BY <2>5, <3>3 DEF FromVariable
      <4> QED BY <3>3, <4>1, <4>2 DEF SnatPlan, FamilySnat
    <3> QED BY <2>2, <2>4, <3>1, <3>2, <3>3
  <2>6. ASSUME Lines(n, "dnat") # {}, Lines(n, "snat") = {}
        PROVE  SnatPlan(c, config) = NoSnat
    <3>1. PICK r \in CellRules(config.cells[n], n - 1, config) : r.fam = "ip" /\ r.verdict = "dnat"
      BY <2>6
    <3>2. config.snat.mode = "off" /\ SnatOf(c) = NoText
      BY <2>6, <3>1, NoSnatLine DEF c
    <3> QED BY <3>2 DEF SnatPlan, FamilySnat
  <2>7. ASSUME Lines(n, "snat") # {}, NEW facts \in Facts
        PROVE  ~Report(n, facts).warned
    <3>1. PICK r \in Lines(n, "snat") : TRUE
      BY <2>7
    <3> HIDE DEF Lines
    <3>2. SnatOf(c) # NoText => SnatListed(c, script)
      BY <2>4, <3>1 DEF SnatListed, SnatTo
    <3>3. SnatCheck(c, config, script, facts) # "missing"
      BY <3>2 DEF SnatCheck
    <3>4. Report(n, facts).warned <=> SnatCheck(c, config, script, facts) = "missing"
      BY DEF Report, SnatSection, c
    <3> QED BY <3>3, <3>4
  <2> QED BY <2>5, <2>6, <2>7 DEF c
<1> QED BY <1>1, JudgedInductive, PTL

------------------------------------------------------------------------------
(* The page on a rule: its address.                                         *)

\* What the page resolves is what the service does, fake answers apart.
LEMMA ShownIs ==
    ASSUME NEW c, NEW dns, c.type # "redirect", ~Rejected(c.target, dns),
           \A n \in 1..Len(dns.answers[c.target]) : ~Rejected(dns.answers[c.target][n], dns),
           c.target \in Addresses => Fits(c.target, c.version)
    PROVE  RemoteIp(c.target, c.version, dns) = ShownIp(c, dns)
<1> DEFINE answers == dns.answers[c.target]
           fitting == {n \in 1..Len(answers) : Fits(answers[n], c.version)}
           v4s == {n \in fitting : answers[n] \in V4}
           first(places) == answers[CHOOSE n \in places : \A m \in places : n <= m]
           chosen == IF v4s # {} THEN first(v4s) ELSE first(fitting)
<1>1. RemoteIp(c.target, c.version, dns) =
        IF c.target \in Addresses
        THEN IF Fits(c.target, c.version) /\ ~Rejected(c.target, dns) THEN c.target ELSE NoText
        ELSE IF fitting = {} \/ \E n \in fitting : Rejected(answers[n], dns) THEN NoText
        ELSE chosen
  BY Zenon DEF RemoteIp
<1>2. ShownIp(c, dns) =
        CASE c.type = "redirect" -> "127.0.0.1"
          [] c.type # "redirect" /\ c.target \in Addresses -> c.target
          [] OTHER -> IF fitting = {} THEN NoText ELSE chosen
  BY Zenon DEF ShownIp
<1>3. \A n \in fitting : ~Rejected(answers[n], dns)
  OBVIOUS
<1> HIDE DEF fitting, chosen, answers
<1>4. CASE c.target \in Addresses
  BY <1>1, <1>2, <1>4
<1>5. CASE c.target \notin Addresses
  BY <1>1, <1>2, <1>3, <1>5
<1> QED BY <1>4, <1>5

Usable(c, cfg) == {d \in cfg.cache : d.key = RuleKey(c) /\ Fits(d.ip, c.version)}

\* An entry under the number of a rule is that rule's, and the service would
\* take its address.
LEMMA EntryIs ==
    ASSUME NEW cfg \in Configs, NEW e \in cfg.cache, NEW n \in 1..Len(Live(cfg)),
           e.id = RuleId(n), NEW c, c = Live(cfg)[n]
    PROVE  RuleKey(c) # NoKey /\ Usable(c, cfg) = {e}
<1>1. /\ \A f \in cfg.cache : f.key = e.key => f = e
      /\ Fits(e.ip, e.key[5])
  BY CacheAssumption
<1>2. e.key = RuleKey(c) /\ RuleKey(c) # NoKey
  <2>1. PICK r \in Identities(cfg.cells) : r.id = e.id /\ r.key = e.key
    BY CacheAssumption
  <2>2. PICK m \in 1..Len(Live(cfg)) :
           /\ r = [id |-> m - 1, key |-> RuleKey(Live(cfg)[m]), domain |-> Live(cfg)[m].target]
           /\ RuleKey(Live(cfg)[m]) # NoKey
    BY <2>1 DEF Identities, Live
  <2>3. m - 1 = n - 1
    BY <2>1, <2>2 DEF RuleId
  <2>4. m = n
    BY <2>3
  <2> QED BY <2>1, <2>2, <2>4
<1>3. RuleKey(c)[5] = c.version
  BY <1>2 DEF RuleKey, NoKey
<1>4. Usable(c, cfg) = {e}
  BY <1>1, <1>2, <1>3 DEF Usable
<1> QED BY <1>2, <1>4

LEMMA AddressTrue == Judged => AddressIsTrue
<1> SUFFICES ASSUME Judged, packet = NoPacket, config.global, NEW n \in Testable(config),
                    SameId(n), Enabled(config.cells[n]), config.cells[n].type # "redirect",
                    \A ip \in {config.cells[n].target}
                              \cup {config.dns.answers[config.cells[n].target][m] :
                                      m \in 1..Len(config.dns.answers[config.cells[n].target])} :
                       ~Rejected(ip, config.dns),
                    config.cells[n].target \in Addresses
                      => Fits(config.cells[n].target, config.cells[n].version)
             PROVE  LET c == config.cells[n]
                        shown == Resolution(n, c, config)
                    IN /\ /\ shown.ip # NoText /\ shown.egress # "blocked"
                          /\ config.lastGood.onFailure \/ shown.from # "last-good"
                          => TargetIp(c, config) = shown.ip
                       /\ shown.from = "live" /\ shown.egress = "blocked" => TargetIp(c, config) = NoText
  BY Zenon DEF AddressIsTrue, AddressHolds
<1> DEFINE c == config.cells[n]
           live == ShownIp(c, config.dns)
           cached == {e \in config.cache : e.id = RuleId(n)}
           entry == CHOOSE e \in cached : TRUE
           kept == {e.ip : e \in Usable(c, config)}
           shown == Resolution(n, c, config)
           ip == ResolvedIp(c, config)
<1>1. /\ config \in Configs /\ Len(config.cells) \in Nat /\ n \in 1..Len(config.cells)
  BY RulesetAssumption DEF Judged, Testable
<1>2. n \in 1..Len(Live(config)) /\ Live(config)[n] = c
  <2>1. \A m \in 1..n : Enabled(config.cells[m])
    BY <1>1 DEF SameId
  <2> QED BY <1>1, <2>1, LiveRules DEF Live
<1>3. RemoteIp(c.target, c.version, config.dns) = live
  BY ShownIs
<1>4. ip = IF live # NoText THEN live
           ELSE IF FallsBack(config) /\ RuleKey(c) # NoKey /\ kept # {}
           THEN CHOOSE a \in kept : TRUE ELSE NoText
  BY <1>3, Zenon DEF ResolvedIp, Usable
<1>5. TargetIp(c, config) =
        IF config.egress.enabled /\ ip \notin config.egress.allowed THEN NoText ELSE ip
  BY Zenon DEF TargetIp
<1>6. CASE live # NoText
  <2>1. /\ shown.from = "live" /\ shown.ip = live
        /\ shown.egress = IF config.egress.enabled
                          THEN IF live \in config.egress.allowed THEN "allowed" ELSE "blocked"
                          ELSE ""
    BY <1>6 DEF Resolution
  <2> HIDE DEF live, shown, ip, c
  <2> QED BY <1>4, <1>5, <1>6, <2>1 DEF shown, c
<1>7. CASE live = NoText /\ cached # {} /\ config.lastGood.enabled
  <2>1. /\ shown.from = "last-good" /\ shown.ip = entry.ip
        /\ shown.egress = IF entry.allowed THEN "allowed" ELSE "blocked"
    BY <1>7 DEF Resolution
  <2>2. entry \in config.cache /\ entry.id = RuleId(n)
    BY <1>7
  <2> HIDE DEF entry, live, shown, ip
  <2>3. RuleKey(c) # NoKey /\ Usable(c, config) = {entry}
    BY <1>1, <1>2, <2>2, EntryIs
  <2>4. kept = {entry.ip}
    BY <2>3
  <2> HIDE DEF kept, c
  <2>5. config.lastGood.onFailure => ip = entry.ip
    BY <1>4, <1>7, <2>3, <2>4 DEF FallsBack
  <2>6. config.egress.enabled /\ entry.allowed => entry.ip \in config.egress.allowed
    BY <1>1, <2>2, CacheAssumption
  <2> QED BY <1>5, <2>1, <2>5, <2>6 DEF shown, c
<1>8. CASE live = NoText /\ ~(cached # {} /\ config.lastGood.enabled)
  <2>1. shown = NoAddress
    BY <1>8 DEF Resolution
  <2> HIDE DEF live, cached, shown, c
  <2>2. shown.ip = NoText /\ shown.from = "none"
    BY <2>1 DEF NoAddress
  <2> QED BY <2>2 DEF shown, c
<1> QED BY <1>6, <1>7, <1>8

------------------------------------------------------------------------------
(* The page on a rule: its lines.                                           *)

\* A rule's own line in the nat chain, told by its number.
LEMMA LineById ==
    ASSUME NEW cfg \in Configs, NEW f \in {"ip", "ip6"}, NEW r \in Script(cfg),
           NEW n \in 1..Len(Live(cfg)), r.index = RuleId(n), r.fam = f,
           r.chain \in {"PREROUTING", "FORWARD"}, r.verdict \in {"dnat", "redirect"}
    PROVE  IsForward(Live(cfg)[n]) /\ Serves(Live(cfg)[n], f, cfg) /\ cfg.global
<1>1. r.chain = "PREROUTING"
  BY ForwardLine DEF Final
<1>2. /\ cfg.global
      /\ \E m \in 1..Len(Live(cfg)) : r \in NatChain(Live(cfg)[m], m - 1, f, cfg)
  BY <1>1, ChainOfScript
<1>3. PICK m \in 1..Len(Live(cfg)) : r \in NatChain(Live(cfg)[m], m - 1, f, cfg)
  BY <1>2
<1>4. /\ IsForward(Live(cfg)[m]) /\ Serves(Live(cfg)[m], f, cfg)
      /\ \/ r \in AccessDrop(Live(cfg)[m], m - 1, f, AccessWithDynamic(cfg))
         \/ r = Line(Live(cfg)[m], m - 1, f, cfg)
  BY <1>3 DEF NatChain
<1>5. r = Line(Live(cfg)[m], m - 1, f, cfg)
  BY <1>4, DropsOnly
<1>6. r.index = m - 1
  BY <1>5, LineShape
<1>7. m = n
  BY <1>6 DEF RuleId
<1> QED BY <1>2, <1>4, <1>7

LEMMA ClassifiedWords ==
    ASSUME NEW seen, NEW c, NEW facts
    PROVE  Classified(seen, c, facts) \in {"applied", "partial", "unconfirmed", "not applied"}
<1> DEFINE protocols == NftProto(c.protocol) \subseteq seen.protos
           whole == IF Shape(c) = "redirect" THEN seen.nat ELSE seen.nat \cap seen.out \cap seen.in
           any == IF Shape(c) = "redirect" THEN seen.nat ELSE seen.nat \cup seen.out \cup seen.in
           sound == Families(c) \subseteq whole /\ protocols
<1>1. Classified(seen, c, facts) =
        CASE Families(c) \subseteq whole /\ protocols /\ any # {} -> "applied"
          [] ~sound /\ any # {} -> "partial"
          [] any = {} -> IF facts.service = "active" /\ facts.apply = "success"
                         THEN "unconfirmed" ELSE "not applied"
  BY Zenon DEF Classified
<1> HIDE DEF whole, any, protocols
<1> QED BY <1>1

\* What is concluded to be normal was on, listed and found applied.
LEMMA NormalMeans ==
    ASSUME NEW n \in Testable(config), NEW facts \in Facts, Said(n, facts) = "normal",
           NEW c, c = config.cells[n]
    PROVE  LET page == Report(n, facts)
               seen == Presence(script, RuleId(n))
           IN /\ config.global /\ c.enabled
              /\ Classified(seen, c, facts) = "applied"
              /\ page.nft.nat = NatProbe(seen) /\ page.nft.filter = FilterProbe(seen, c)
              /\ page.outside = "try" /\ page.tcp # "no"
<1> DEFINE seen == Presence(script, RuleId(n))
           nft == NftSection(c, config, seen, facts)
           page == Report(n, facts)
<1> HIDE DEF seen
<1>1. /\ page.nft = nft /\ page.conclusion = Conclusion(c, config, nft, facts)
      /\ page.outside = IF config.global /\ c.enabled THEN "try" ELSE "no hit"
      /\ page.tcp = IF config.global /\ c.enabled THEN Probe(c, config, facts) ELSE "none"
  BY DEF Report, seen
<1> HIDE DEF nft, page
<1>2. Conclusion(c, config, nft, facts) = "normal"
  BY <1>1 DEF Said, page
<1>3. config.global
  BY <1>2 DEF Conclusion
<1>4. c.enabled
  BY <1>2, <1>3 DEF Conclusion
<1>5. Probe(c, config, facts) # "no"
  BY <1>2, <1>3, <1>4 DEF Conclusion
<1>6. nft.verdict = "applied"
  <2>1. Classified(seen, c, facts) \in {"applied", "partial", "unconfirmed", "not applied"}
    BY ClassifiedWords
  <2>2. nft.verdict # "normal"
    BY <1>3, <1>4, <2>1 DEF NftSection, nft
  <2>3. facts.service = "active" /\ facts.apply = "success"
    BY <1>2, <1>3, <1>4 DEF Conclusion
  <2> QED BY <1>2, <1>3, <1>4, <1>5, <2>2, <2>3 DEF Conclusion
<1>7. nft = [nat |-> NatProbe(seen), filter |-> FilterProbe(seen, c),
             verdict |-> Classified(seen, c, facts)]
  BY <1>3, <1>4, <1>6 DEF NftSection, nft
<1> QED BY <1>1, <1>3, <1>4, <1>5, <1>6, <1>7 DEF page, seen

\* What a rule found applied has: a line for each of its families.
LEMMA AppliedMeans ==
    ASSUME NEW seen, NEW c, NEW facts, Classified(seen, c, facts) = "applied"
    PROVE  /\ Families(c) \subseteq seen.nat
           /\ Shape(c) # "redirect" => Families(c) \subseteq seen.out
<1> DEFINE protocols == NftProto(c.protocol) \subseteq seen.protos
           whole == IF Shape(c) = "redirect" THEN seen.nat ELSE seen.nat \cap seen.out \cap seen.in
           any == IF Shape(c) = "redirect" THEN seen.nat ELSE seen.nat \cup seen.out \cup seen.in
<1>1. Classified(seen, c, facts) =
        CASE Families(c) \subseteq whole /\ protocols /\ any # {} -> "applied"
          [] ~(Families(c) \subseteq whole /\ protocols) /\ any # {} -> "partial"
          [] any = {} -> IF facts.service = "active" /\ facts.apply = "success"
                         THEN "unconfirmed" ELSE "not applied"
  BY Zenon DEF Classified
<1> HIDE DEF whole, any, protocols
<1>2. Families(c) \subseteq whole
  BY <1>1
<1> QED BY <1>2 DEF whole

LEMMA FamiliesOf ==
    ASSUME NEW c, c.version \in IpVersions
    PROVE  Families(c) # {} /\ Families(c) = {"ip", "ip6"} \ (IF c.version = "ipv4" THEN {"ip6"}
                                ELSE IF c.version = "ipv6" THEN {"ip"} ELSE {})
BY DEF Families, IpVersions

LEMMA SectionsTrue == Judged => SectionsAgree
<1> SUFFICES ASSUME Judged, NEW n \in Testable(config), NEW facts \in Facts,
                    Said(n, facts) = "normal"
             PROVE  /\ Report(n, facts).nft.nat = "found" /\ Report(n, facts).nft.filter # "missing"
                    /\ Report(n, facts).outside = "try" /\ Report(n, facts).tcp # "no"
  BY DEF SectionsAgree, Said
<1> DEFINE c == config.cells[n]
           seen == Presence(script, RuleId(n))
<1>1. c.version \in IpVersions
  <2>1. config \in Configs /\ n \in 1..Len(config.cells)
    BY RulesetAssumption DEF Judged, Testable
  <2>2. c.type # "drop"
    BY DEF Testable, IsForward
  <2>3. IsCell(c)
    BY <2>1, RulesetAssumption
  <2> QED BY <2>2, <2>3 DEF IsCell
<1> HIDE DEF c
<1>2. /\ Classified(seen, c, facts) = "applied"
      /\ Report(n, facts).nft.nat = NatProbe(seen)
      /\ Report(n, facts).nft.filter = FilterProbe(seen, c)
      /\ Report(n, facts).outside = "try" /\ Report(n, facts).tcp # "no"
  BY NormalMeans DEF c
<1> HIDE DEF seen
<1>3. /\ Families(c) # {} /\ Families(c) \subseteq seen.nat
      /\ Shape(c) # "redirect" => Families(c) \subseteq seen.out
  BY <1>1, <1>2, AppliedMeans, FamiliesOf
<1>4. NatProbe(seen) = "found"
  BY <1>3 DEF NatProbe
<1>5. FilterProbe(seen, c) # "missing"
  BY <1>3 DEF FilterProbe
<1> QED BY <1>2, <1>4, <1>5

LEMMA NormalTrue == Judged => NormalIsTrue
<1> SUFFICES ASSUME Judged, packet # NoPacket, packet.state = "new", Admitted(packet.src),
                    NEW n \in Testable(config), SameId(n), Claims(config.cells[n], packet),
                    NEW facts \in Facts, Said(n, facts) = "normal"
             PROVE  Translated \/ out.fate = "dropped"
  BY DEF NormalIsTrue
<1> DEFINE c == config.cells[n]
           seen == Presence(script, RuleId(n))
<1>1. /\ packet \in Packets /\ config \in Configs /\ script = Script(config)
      /\ out = Journey(Script(config), packet)
  BY DEF Judged
<1>2. Len(config.cells) \in Nat /\ n \in 1..Len(config.cells)
  BY <1>1, RulesetAssumption DEF Testable
<1>3. /\ Enabled(c) /\ packet.port \in Listen(c) /\ packet.proto \in NftProto(c.protocol)
      /\ c.version \in {"all", IF packet.fam = "ip" THEN "ipv4" ELSE "ipv6"}
  BY DEF Claims
<1>4. n \in 1..Len(Live(config)) /\ Live(config)[n] = c
  <2>1. \A m \in 1..n : Enabled(config.cells[m])
    BY <1>2, <1>3 DEF SameId
  <2> QED BY <1>2, <2>1, LiveRules DEF Live
<1>5. packet.fam \in {"ip", "ip6"}
  BY <1>1, PacketFields
<1> HIDE DEF c
<1>6. Classified(seen, c, facts) = "applied"
  BY NormalMeans DEF c
<1>7. packet.fam \in seen.nat
  <2>1. packet.fam \in Families(c)
    BY <1>3, <1>5, FamiliesOf DEF IpVersions
  <2> HIDE DEF seen
  <2> QED BY <1>6, <2>1, AppliedMeans
<1>8. PICK r \in script : /\ r.index = RuleId(n) /\ r.chain \in {"PREROUTING", "FORWARD"}
                          /\ r.verdict \in {"dnat", "redirect"} /\ r.fam = packet.fam
  BY <1>7 DEF Presence, Told
<1>9. IsForward(c) /\ Serves(c, packet.fam, config) /\ config.global
  BY <1>1, <1>4, <1>5, <1>8, LineById
<1>10. n \in AskedBy(config, packet)
  BY <1>3, <1>4, <1>9 DEF AskedBy
<1>11. AdmittedBy(config, packet.src)
  BY DEF Admitted, AdmittedBy
<1> DEFINE k == FirstOf(config, packet)
<1>12. out.fate # "dropped" => out.by = k - 1
  BY <1>1, <1>10, <1>11, Routed
<1>13. k \in 1..Len(Live(config)) /\ k \in Nat
  BY <1>10, FirstIsLeast DEF AskedBy
<1> HIDE DEF k
<1>14. k - 1 # NoPort
  BY <1>13 DEF NoPort
<1> QED BY <1>12, <1>14 DEF Translated

\* A rule with a translating line is served, in each of its families, unless
\* it is for both of them and need not have an address or an entry of each.
LEMMA OwnFamilies ==
    ASSUME NEW cfg \in Configs, NEW c, Wellformed(c), IsForward(c), NEW i,
           NEW r \in CellRules(c, i, cfg), r.verdict \in {"dnat", "redirect"},
           c.version # "all" \/ c.type = "redirect",
           c.version # "all" \/ cfg.access.mode # "whitelist",
           NEW f \in Families(c)
    PROVE  f \in {"ip", "ip6"} /\ Serves(c, f, cfg) /\ ~Closed(f, AccessWithDynamic(cfg))
<1> DEFINE access == AccessWithDynamic(cfg)
           ip == TargetIp(c, cfg)
<1>1. access.mode = cfg.access.mode
  BY AccessIs
<1>2. /\ c.type \in {"single", "range", "redirect"} /\ c.version \in IpVersions
      /\ f \in {"ip", "ip6"}
  BY FamiliesOf DEF Wellformed, IsForward
<1> HIDE DEF access
<1>3. CASE c.type = "redirect"
  <2>1. Serves(c, f, cfg)
    BY <1>2, <1>3, FamiliesOf DEF Serves, IpVersions
  <2>2. ~Closed(f, access)
    <3>1. CASE cfg.access.mode # "whitelist"
      BY <1>1, <3>1 DEF Closed
    <3>2. CASE c.version # "all"
      <4> DEFINE families == CASE c.version = "ipv4" -> {"ip"}
                               [] c.version = "ipv6" -> {"ip6"}
                               [] c.version = "all"  -> {"ip", "ip6"}
      <4>1. CellRules(c, i, cfg) = UNION {RedirectRule(c, i, g, access) : g \in families}
        <5>1. CellRules(c, i, cfg) = RedirectRules(c, i, access)
          BY <1>3 DEF CellRules, access
        <5> QED BY <5>1, Zenon DEF RedirectRules
      <4>2. families = {f}
        BY <1>2, <3>2, FamiliesOf DEF IpVersions
      <4> HIDE DEF families
      <4>3. r \in RedirectRule(c, i, f, access)
        BY <4>1, <4>2
      <4> QED BY <4>3 DEF RedirectRule
    <3> QED BY <3>1, <3>2
  <2> QED BY <1>2, <2>1, <2>2 DEF access
<1>4. CASE c.type \in {"single", "range"}
  <2>1. ip # NoText /\ r \in NatRules(c, i, ip, access, cfg)
    BY <1>4 DEF CellRules, access
  <2>2. ~Closed(Family(ip), access)
    BY <2>1, Zenon DEF NatRules
  <2>3. Fits(ip, c.version)
    BY <2>1, TargetFits
  <2>4. Family(ip) = f
    <3>1. c.version \in {"ipv4", "ipv6"}
      BY <1>2, <1>4 DEF IpVersions
    <3> HIDE DEF ip
    <3>2. CASE c.version = "ipv4"
      <4>1. ip \in V4 /\ ip \notin V6
        <5>1. V4 \cap V6 = {}
          BY CellsAssumption, Zenon
        <5> QED BY <2>3, <3>2, <5>1 DEF Fits
      <4>2. f = "ip"
        BY <1>2, <3>2, FamiliesOf
      <4> QED BY <4>1, <4>2 DEF Family
    <3>3. CASE c.version = "ipv6"
      <4>1. ip \in V6
        BY <2>3, <3>3 DEF Fits
      <4>2. f = "ip6"
        BY <1>2, <3>3, FamiliesOf
      <4> QED BY <4>1, <4>2 DEF Family
    <3> QED BY <3>1, <3>2, <3>3
  <2>5. Serves(c, f, cfg)
    BY <1>4, <2>1, <2>4 DEF Serves
  <2> QED BY <1>2, <2>2, <2>4, <2>5 DEF access
<1> QED BY <1>2, <1>3, <1>4

\* The counters that come with a line that sends to another host.
LEMMA OwnCounters ==
    ASSUME NEW cfg, NEW c, NEW i, NEW f, c.type \in {"single", "range"},
           Serves(c, f, cfg), ~Closed(f, AccessWithDynamic(cfg)), ~Localhost(c, f)
    PROVE  \A word \in {"out", "in"} : \E r \in CellRules(c, i, cfg) :
              /\ r.chain = "FORWARD" /\ r.fam = f /\ r.index = i /\ r.verdict = word
<1> DEFINE access == AccessWithDynamic(cfg)
           ip == TargetIp(c, cfg)
           dports == IF c.type = "single" THEN {c.dport} ELSE Listen(c)
           port == IF c.type = "single" THEN c.dport ELSE NoPort
<1> HIDE DEF access
<1>1. ip # NoText /\ Family(ip) = f
  BY DEF Serves
<1>2. CellRules(c, i, cfg) = NatRules(c, i, ip, access, cfg)
  BY <1>1 DEF CellRules, access
<1>3. NatRules(c, i, ip, access, cfg) =
        IF Closed(Family(ip), access) THEN {}
        ELSE AccessDrop(c, i, Family(ip), access)
             \cup IF Localhost(c, Family(ip))
                  THEN {Translate(c, i, Family(ip), access, "redirect", Self, port)}
                  ELSE {Translate(c, i, Family(ip), access, "dnat", ip, port)}
                       \cup Postrouting(c, i, Family(ip), ip, dports, cfg)
                       \cup TrafficCounters(c, i, Family(ip), ip, dports)
  BY Zenon DEF NatRules
<1> HIDE DEF ip, dports, port
<1>4. TrafficCounters(c, i, f, ip, dports) \subseteq CellRules(c, i, cfg)
  BY <1>1, <1>2, <1>3 DEF access
<1>5. \A word \in {"out", "in"} : \E r \in TrafficCounters(c, i, f, ip, dports) :
         /\ r.chain = "FORWARD" /\ r.fam = f /\ r.index = i /\ r.verdict = word
  <2> DEFINE out1 == [On("FORWARD", f, 1, i, 4) EXCEPT
                        !.dst = {ip}, !.proto = NftProto(c.protocol), !.dports = dports, !.verdict = "out"]
             in1 == [On("FORWARD", f, 1, i, 5) EXCEPT
                        !.src = {ip}, !.proto = NftProto(c.protocol), !.sports = dports, !.verdict = "in"]
  <2>1. TrafficCounters(c, i, f, ip, dports) = {out1, in1}
    BY DEF TrafficCounters
  <2>2. /\ out1.chain = "FORWARD" /\ out1.fam = f /\ out1.index = i /\ out1.verdict = "out"
        /\ in1.chain = "FORWARD" /\ in1.fam = f /\ in1.index = i /\ in1.verdict = "in"
    BY DEF On
  <2> HIDE DEF out1, in1
  <2> QED BY <2>1, <2>2
<1> QED BY <1>4, <1>5

\* What the page is told of lines that are there.
LEMMA ToldOf ==
    ASSUME NEW rules, NEW r \in rules, NEW id, r.index = id, r.chain \in {"PREROUTING", "FORWARD"}
    PROVE  LET seen == Presence(rules, id)
           IN /\ r.verdict \in {"dnat", "redirect"} => r.fam \in seen.nat /\ r.proto \subseteq seen.protos
              /\ r.verdict = "out" => r.fam \in seen.out
              /\ r.verdict = "in" => r.fam \in seen.in
BY DEF Presence, Told

LEMMA AlarmTrue == Judged => NoFalseAlarm
<1> SUFFICES ASSUME Judged, config.global, NEW n \in Testable(config),
                    NEW c, c = config.cells[n], SameId(n), Enabled(c),
                    c.version # "all" \/ c.type = "redirect",
                    NEW r \in CellRules(c, n - 1, config), r.verdict \in {"dnat", "redirect"},
                    c.version # "all" \/ config.access.mode # "whitelist",
                    NEW facts \in Facts
             PROVE  Classified(Presence(script, RuleId(n)), c, facts) = "applied"
  BY DEF NoFalseAlarm
<1> DEFINE seen == Presence(script, RuleId(n))
<1>1. /\ config \in Configs /\ script = Script(config)
      /\ Len(config.cells) \in Nat /\ n \in 1..Len(config.cells)
  BY RulesetAssumption DEF Judged, Testable
<1>2. n \in 1..Len(Live(config)) /\ Live(config)[n] = c
  <2>1. \A m \in 1..n : Enabled(config.cells[m])
    BY <1>1 DEF SameId
  <2> QED BY <1>1, <2>1, LiveRules DEF Live
<1>3. Wellformed(c) /\ IsForward(c) /\ c.type \in {"single", "range", "redirect"}
  BY <1>1, <1>2, LiveWellformed DEF Testable, IsForward, Wellformed
<1>4. CellRules(c, n - 1, config) \subseteq script
  BY <1>1, <1>2 DEF Script, Live
<1> HIDE DEF seen
<1>5. ASSUME NEW f \in Families(c)
      PROVE  /\ f \in seen.nat /\ NftProto(c.protocol) \subseteq seen.protos
             /\ Shape(c) # "redirect" => f \in seen.out /\ f \in seen.in
  <2>1. f \in {"ip", "ip6"} /\ Serves(c, f, config) /\ ~Closed(f, AccessWithDynamic(config))
    BY <1>1, <1>3, <1>5, OwnFamilies
  <2> DEFINE line == Line(c, n - 1, f, config)
  <2>2. /\ line.chain = "PREROUTING" /\ line.fam = f /\ line.index = n - 1
        /\ line.proto = NftProto(c.protocol) /\ line.verdict \in {"dnat", "redirect"}
    BY LineShape
  <2>3. line \in NatChain(c, n - 1, f, config)
    BY <1>3, <2>1 DEF NatChain
  <2>4. line \in script
    BY <1>3, <1>4, <2>1, <2>3, ChainOfCell
  <2> HIDE DEF line
  <2>5. f \in seen.nat /\ NftProto(c.protocol) \subseteq seen.protos
    BY <2>2, <2>4, ToldOf DEF seen, RuleId
  <2>6. ASSUME Shape(c) # "redirect" PROVE f \in seen.out /\ f \in seen.in
    <3>1. c.type \in {"single", "range"} /\ ~Localhost(c, f)
      BY <1>3, <2>6 DEF Shape, Localhost
    <3>2. PICK q \in CellRules(c, n - 1, config) :
             q.chain = "FORWARD" /\ q.fam = f /\ q.index = n - 1 /\ q.verdict = "out"
      BY <2>1, <3>1, OwnCounters
    <3>3. PICK q1 \in CellRules(c, n - 1, config) :
             q1.chain = "FORWARD" /\ q1.fam = f /\ q1.index = n - 1 /\ q1.verdict = "in"
      BY <2>1, <3>1, OwnCounters
    <3>4. f \in seen.out
      BY <1>4, <3>2, ToldOf DEF seen, RuleId
    <3>5. f \in seen.in
      BY <1>4, <3>3, ToldOf DEF seen, RuleId
    <3> QED BY <3>4, <3>5
  <2> QED BY <2>5, <2>6
<1>6. Families(c) # {}
  BY <1>3, FamiliesOf DEF Wellformed, IsForward
<1> DEFINE protocols == NftProto(c.protocol) \subseteq seen.protos
           whole == IF Shape(c) = "redirect" THEN seen.nat ELSE seen.nat \cap seen.out \cap seen.in
           any == IF Shape(c) = "redirect" THEN seen.nat ELSE seen.nat \cup seen.out \cup seen.in
           sound == Families(c) \subseteq whole /\ protocols
<1>7. Classified(seen, c, facts) =
        CASE Families(c) \subseteq whole /\ protocols /\ any # {} -> "applied"
          [] ~sound /\ any # {} -> "partial"
          [] any = {} -> IF facts.service = "active" /\ facts.apply = "success"
                         THEN "unconfirmed" ELSE "not applied"
  BY Zenon DEF Classified
<1>8. Families(c) \subseteq whole /\ protocols /\ any # {}
  BY <1>5, <1>6
<1> HIDE DEF whole, any, protocols
<1>9. Classified(seen, c, facts) = "applied"
  BY <1>7, <1>8
<1> QED BY <1>9 DEF seen

(* What the page on a rule says agrees with what the ruleset does: where   *)
(* it calls a rule normal connections are translated, no applied rule is   *)
(* called half applied, its sections do not contradict each other, and the *)
(* address it shows is the one in the rule's lines; of a cached address if  *)
(* use_last_good_on_dns_failure, at which the page does not look, is set.   *)
THEOREM PageAlwaysTrue == Spec => []PageIsTrue
<1>1. Judged => PageIsTrue
  BY NormalTrue, AlarmTrue, SectionsTrue, AddressTrue DEF PageIsTrue
<1> QED BY <1>1, JudgedInductive, PTL

------------------------------------------------------------------------------
(* The legacy file: what each rule is printed as is parsed to it, and what  *)
(* the reader keeps of the file is all lines but the comment at its top.    *)

\* All members but the first.
LEMMA FilteredRest ==
    ASSUME NEW list, NEW size \in Nat
    PROVE  Filtered(list, 2..(size + 1)) = [k \in 1..size |-> list[k + 1]]
<1> DEFINE places == 2..(size + 1)
           At(k) == CHOOSE n \in places : Cardinality({m \in places : m <= n}) = k
<1>1. Filtered(list, places) = [k \in 1..Cardinality(places) |-> list[At(k)]]
  BY DEF Filtered
<1>2. ASSUME NEW n \in places
      PROVE  Cardinality({m \in places : m <= n}) = n - 1
  <2>1. {m \in places : m <= n} = 2..n
    OBVIOUS
  <2>2. Cardinality(2..n) = n - 1
    BY FS_Interval
  <2> QED BY <2>1, <2>2
<1>3. Cardinality(places) = size
  BY FS_Interval
<1>4. ASSUME NEW k \in 1..size
      PROVE  At(k) = k + 1
  <2>1. k + 1 \in places
    OBVIOUS
  <2>2. \A n \in places : Cardinality({m \in places : m <= n}) = k <=> n = k + 1
    BY <1>2
  <2> HIDE DEF places
  <2> QED BY <2>1, <2>2
<1> HIDE DEF At, places
<1>5. [k \in 1..size |-> list[At(k)]] = [k \in 1..size |-> list[k + 1]]
  BY <1>4
<1> QED BY <1>1, <1>3, <1>5 DEF places

\* The line of a rule with a target is parsed to that rule.
LEMMA NatBack ==
    ASSUME NEW c, IsCell(c), c.type \in {"single", "range"}
    PROVE  ParseLine(Display(c)) = InLine(c)
<1>1. /\ c = [Forward(c.type, c.lo, c.hi, c.dport, c.target, c.protocol, c.version)
                EXCEPT !.enabled = c.enabled, !.snat = c.snat, !.comment = c.comment,
                       !.quota = c.quota]
      /\ c.lo \in Ports /\ c.protocol \in Protocols /\ c.version \in IpVersions
      /\ \/ c.type = "single" /\ c.hi = NoPort /\ c.dport \in Ports
         \/ c.type = "range" /\ c.hi \in Ports /\ c.dport = NoPort
  BY DEF IsCell
<1> DEFINE word == IF c.type = "single" THEN "SINGLE" ELSE "RANGE"
           to == IF c.type = "single" THEN c.dport ELSE c.hi
           line == <<W(word), N(c.lo), N(to), TargetField(c.target), W(c.protocol), W(c.version)>>
<1>2. Display(c) = line
  BY DEF Display
<1>3. Len(line) = 6 /\ line # <<>> /\ IsWord(line[1], {"SINGLE", "RANGE"}) /\ line[1].v = word
  BY DEF IsWord, W
<1>4. /\ ~IsWord(line[1], {"#"})
      /\ ~IsWord(line[1], {"DROP"})
      /\ ~IsWord(line[1], {"REDIRECT"})
  BY <1>3 DEF IsWord
<1>5. ParseLine(line) = ParseNat(line)
  <2> HIDE DEF line
  <2> QED BY <1>3, <1>4 DEF ParseLine
<1>6. /\ IsPort(line[2]) /\ line[2].v = c.lo
      /\ IsPort(line[3]) /\ line[3].v = to
      /\ AsText(line[4]) = c.target
      /\ AsProtocol(Field(line, 5, "all")) = c.protocol
      /\ AsVersion(Field(line, 6, "ipv4")) = c.version
  <2>1. IsPort(N(c.lo)) /\ IsPort(N(to)) /\ N(c.lo).v = c.lo /\ N(to).v = to
    BY <1>1 DEF IsPort, N
  <2>2. AsText(TargetField(c.target)) = c.target
    BY DEF AsText, TargetField, A, W
  <2>3. AsProtocol(AsText(W(c.protocol))) = c.protocol
    BY <1>1 DEF AsText, W, AsProtocol
  <2>4. AsVersion(AsText(W(c.version))) = c.version
    BY <1>1 DEF AsText, W, AsVersion
  <2> QED BY <1>3, <2>1, <2>2, <2>3, <2>4 DEF Field
<1>7. ParseNat(line) = IF word = "SINGLE"
                       THEN Single(c.lo, to, c.target, c.protocol, c.version)
                       ELSE RangeCell(c.lo, to, c.target, c.protocol, c.version)
  <2> HIDE DEF line
  <2> QED BY <1>3, <1>6 DEF ParseNat
<1>8. InLine(c) = Forward(c.type, c.lo, c.hi, c.dport, c.target, c.protocol, c.version)
  BY <1>1 DEF InLine, IsForward, Forward
<1> QED BY <1>1, <1>2, <1>5, <1>7, <1>8 DEF Single, RangeCell

\* And a redirect.
LEMMA RedirectBack ==
    ASSUME NEW c, IsCell(c), c.type = "redirect"
    PROVE  ParseLine(Display(c)) = InLine(c)
<1>1. /\ c = [Forward(c.type, c.lo, c.hi, c.dport, c.target, c.protocol, c.version)
                EXCEPT !.enabled = c.enabled, !.snat = c.snat, !.comment = c.comment,
                       !.quota = c.quota]
      /\ c.lo \in Ports /\ c.protocol \in Protocols /\ c.version \in IpVersions
      /\ c.hi \in Ports \cup {NoPort} /\ c.dport \in Ports /\ c.target = "localhost"
  BY DEF IsCell
<1> DEFINE line == <<W("REDIRECT"), PortField(c.lo, c.hi), N(c.dport), W(c.protocol), W(c.version)>>
<1>2. Display(c) = line
  BY DEF Display
<1>3. Len(line) = 5 /\ line # <<>> /\ IsWord(line[1], {"REDIRECT"}) /\ line[1].v = "REDIRECT"
  BY DEF IsWord, W
<1>4. /\ ~IsWord(line[1], {"#"})
      /\ ~IsWord(line[1], {"DROP"})
      /\ ~IsWord(line[1], {"SINGLE", "RANGE"})
  BY <1>3 DEF IsWord
<1>5. ParseLine(line) = ParseRedirect(line)
  <2> HIDE DEF line
  <2> QED BY <1>3, <1>4 DEF ParseLine
<1>6. /\ IsPort(line[2]) \/ IsPortRange(line[2])
      /\ line[2].k = "range" => line[2].v = <<c.lo, c.hi>>
      /\ line[2].k # "range" => line[2].v = c.lo /\ c.hi = NoPort
      /\ IsPort(line[3]) /\ line[3].v = c.dport
      /\ AsProtocol(Field(line, 4, "all")) = c.protocol
      /\ AsVersion(Field(line, 5, "ipv4")) = c.version
  <2>1. IsPort(N(c.dport)) /\ N(c.dport).v = c.dport
    BY <1>1 DEF IsPort, N
  <2>2. LET f == PortField(c.lo, c.hi)
        IN /\ IsPort(f) \/ IsPortRange(f)
           /\ f.k = "range" => f.v = <<c.lo, c.hi>>
           /\ f.k # "range" => f.v = c.lo /\ c.hi = NoPort
    BY <1>1 DEF PortField, IsPort, IsPortRange, N, R
  <2>3. AsProtocol(AsText(W(c.protocol))) = c.protocol
    BY <1>1 DEF AsText, W, AsProtocol
  <2>4. AsVersion(AsText(W(c.version))) = c.version
    BY <1>1 DEF AsText, W, AsVersion
  <2> QED BY <1>3, <2>1, <2>2, <2>3, <2>4 DEF Field
<1>7. ParseRedirect(line) = Redirect(c.lo, c.hi, c.dport, c.protocol, c.version)
  <2> HIDE DEF line
  <2> QED BY <1>3, <1>6 DEF ParseRedirect
<1>8. InLine(c) = Forward(c.type, c.lo, c.hi, c.dport, c.target, c.protocol, c.version)
  BY <1>1 DEF InLine, IsForward, Forward
<1> QED BY <1>1, <1>2, <1>5, <1>7, <1>8 DEF Redirect

------------------------------------------------------------------------------
(* A drop rule is printed field by field.                                   *)

DropKeys == {"src_ip", "dst_ip", "src_port", "dst_port"}
PlacesOf(line, key) == {n \in 3..Len(line) : Key(line[n]) = key}
FieldOk(key, f) == key \in {"src_port", "dst_port"} => IsPort(f) \/ IsPortRange(f)

\* A line to which the protocol is still to be added.
DropLine(line, chain, fields) ==
    /\ line \in Seq(fields) /\ Len(line) >= 2
    /\ line[1] = W("DROP") /\ line[2] = W(chain)
    /\ \A n \in 3..Len(line) : \E key \in DropKeys : \E f : line[n] = KV(key, f) /\ FieldOk(key, f)

\* The line says once that key is the one member of values, or not at all.
Mentions(line, key, values) ==
    IF values = {} THEN PlacesOf(line, key) = {}
    ELSE \E n \in 3..Len(line) : PlacesOf(line, key) = {n}
                                 /\ \E f : values = {f} /\ line[n] = KV(key, f)

\* One more field.
LEMMA Added ==
    ASSUME NEW fields, NEW line \in Seq(fields), NEW x \in fields
    PROVE  /\ line \o <<x>> \in Seq(fields)
           /\ Len(line \o <<x>>) = Len(line) + 1
           /\ \A n \in 1..Len(line) : (line \o <<x>>)[n] = line[n]
           /\ (line \o <<x>>)[Len(line) + 1] = x
<1>1. <<x>> \in Seq(fields) /\ Len(<<x>>) = 1 /\ <<x>>[1] = x
  OBVIOUS
<1>2. Len(line) \in Nat
  OBVIOUS
<1> QED BY <1>1, <1>2, ConcatProperties

LEMMA PlacesAdded ==
    ASSUME NEW fields, NEW line \in Seq(fields), Len(line) >= 2, NEW x \in fields, NEW key
    PROVE  PlacesOf(line \o <<x>>, key) =
             PlacesOf(line, key) \cup (IF Key(x) = key THEN {Len(line) + 1} ELSE {})
<1> DEFINE more == line \o <<x>>
<1>1. /\ Len(more) = Len(line) + 1 /\ Len(line) \in Nat
      /\ \A n \in 1..Len(line) : more[n] = line[n]
      /\ more[Len(line) + 1] = x
  BY Added
<1> HIDE DEF more
<1>2. \A n : n \in 3..Len(more) <=> n \in 3..Len(line) \/ n = Len(line) + 1
  BY <1>1
<1>3. \A n \in 3..Len(line) : more[n] = line[n] /\ n # Len(line) + 1
  BY <1>1
<1>4. PlacesOf(more, key) = PlacesOf(line, key) \cup (IF Key(x) = key THEN {Len(line) + 1} ELSE {})
  BY <1>1, <1>2, <1>3 DEF PlacesOf
<1> QED BY <1>4 DEF more

\* What a line says is not changed by a field about something else.
LEMMA StillMentioned ==
    ASSUME NEW fields, NEW line \in Seq(fields), Len(line) >= 2, NEW x \in fields,
           NEW key, Key(x) # key, NEW values, Mentions(line, key, values)
    PROVE  Mentions(line \o <<x>>, key, values)
<1>1. PlacesOf(line \o <<x>>, key) = PlacesOf(line, key)
  <2>1. PlacesOf(line \o <<x>>, key) =
            PlacesOf(line, key) \cup (IF Key(x) = key THEN {Len(line) + 1} ELSE {})
    BY PlacesAdded
  <2> QED BY <2>1
<1>2. \A n \in 3..Len(line) : n \in 3..Len(line \o <<x>>) /\ (line \o <<x>>)[n] = line[n]
  BY Added
<1> QED BY <1>1, <1>2 DEF Mentions

LEMMA KeyOf ==
    /\ \A key, f : Key(KV(key, f)) = key /\ KV(key, f).k = "pair" /\ KV(key, f).v[2] = f
    /\ \A w : Key(W(w)) = NoText /\ W(w).k = "word" /\ W(w).v = w
BY DEF Key, KV, W

\* An optional field, as Display adds it.
Adds(more, line, key, f, values) ==
    /\ more = line \o (IF values = {} THEN <<>> ELSE <<KV(key, f)>>)
    /\ values \in {{}, {f}} /\ (values # {} => FieldOk(key, f))

LEMMA FieldAdded ==
    ASSUME NEW fields, NEW chain, NEW line, DropLine(line, chain, fields),
           NEW key \in DropKeys, NEW f, KV(key, f) \in fields, PlacesOf(line, key) = {},
           NEW values, NEW more, Adds(more, line, key, f, values)
    PROVE  /\ DropLine(more, chain, fields)
           /\ Mentions(more, key, values)
           /\ \A other \in DropKeys \ {key} : \A given :
                Mentions(line, other, given) => Mentions(more, other, given)
<1>0. line \in Seq(fields) /\ Len(line) >= 2 /\ Len(line) \in Nat
  BY DEF DropLine
<1>1. CASE values = {}
  <2>1. more = line
    BY <1>0, <1>1, ConcatEmptySeq DEF Adds
  <2> QED BY <1>1, <2>1 DEF Mentions
<1>2. CASE values = {f}
  <2>1. more = line \o <<KV(key, f)>> /\ FieldOk(key, f)
    BY <1>2 DEF Adds
  <2>2. /\ more \in Seq(fields) /\ Len(more) = Len(line) + 1
        /\ \A n \in 1..Len(line) : more[n] = line[n]
        /\ more[Len(line) + 1] = KV(key, f)
    BY <1>0, <2>1, Added
  <2>3. PlacesOf(more, key) = {Len(line) + 1}
    BY <1>0, <2>1, PlacesAdded, KeyOf
  <2>4. Mentions(more, key, values)
    <3>1. Len(line) + 1 \in 3..Len(more)
      BY <1>0, <2>2
    <3> QED BY <1>2, <2>2, <2>3, <3>1 DEF Mentions
  <2>5. \A other \in DropKeys \ {key} : \A given :
            Mentions(line, other, given) => Mentions(more, other, given)
    BY <1>0, <2>1, StillMentioned, KeyOf
  <2>6. ASSUME NEW n \in 3..Len(more)
        PROVE  \E k \in DropKeys : \E g : more[n] = KV(k, g) /\ FieldOk(k, g)
    <3>1. CASE n \in 3..Len(line)
      <4>1. more[n] = line[n]
        BY <1>0, <2>2, <3>1
      <4> QED BY <3>1, <4>1 DEF DropLine
    <3>2. CASE n = Len(line) + 1
      BY <2>1, <2>2, <3>2
    <3> QED BY <1>0, <2>2, <3>1, <3>2
  <2>7. Len(more) >= 2 /\ more[1] = W("DROP") /\ more[2] = W(chain)
    BY <1>0, <2>2 DEF DropLine
  <2> QED BY <2>2, <2>4, <2>5, <2>6, <2>7 DEF DropLine
<1> QED BY <1>1, <1>2 DEF Adds

\* An option, as the set of what it holds.
Given(test, f) == IF test THEN {f} ELSE {}

\* The line as a whole: the fields that are there, then the protocol.
LEMMA DropDisplay ==
    ASSUME NEW c, IsCell(c), c.type = "drop", NEW line, line = Display(c)
    PROVE  /\ Len(line) >= 3 /\ line[1] = W("DROP") /\ line[2] = W(c.chain)
           /\ line[Len(line)] = W(c.protocol)
           /\ \A n \in 3..(Len(line) - 1) :
                \E key \in DropKeys : \E f : line[n] = KV(key, f) /\ FieldOk(key, f)
           /\ Mentions(line, "src_ip", Given(c.src # NoText, A(c.src)))
           /\ Mentions(line, "dst_ip", Given(c.dst # NoText, A(c.dst)))
           /\ Mentions(line, "src_port", Given(c.slo # NoPort, PortField(c.slo, c.shi)))
           /\ Mentions(line, "dst_port", Given(c.dlo # NoPort, PortField(c.dlo, c.dhi)))
           /\ Len(line) \in Nat
<1> DEFINE src == A(c.src)
           dst == A(c.dst)
           sp  == PortField(c.slo, c.shi)
           dp  == PortField(c.dlo, c.dhi)
           gsrc == Given(c.src # NoText, src)
           gdst == Given(c.dst # NoText, dst)
           gsp  == Given(c.slo # NoPort, sp)
           gdp  == Given(c.dlo # NoPort, dp)
           fields == {W("DROP"), W(c.chain), KV("src_ip", src), KV("dst_ip", dst),
                      KV("src_port", sp), KV("dst_port", dp), W(c.protocol)}
           l0 == <<W("DROP"), W(c.chain)>>
           l1 == l0 \o (IF gsrc = {} THEN <<>> ELSE <<KV("src_ip", src)>>)
           l2 == l1 \o (IF gdst = {} THEN <<>> ELSE <<KV("dst_ip", dst)>>)
           l3 == l2 \o (IF gsp = {} THEN <<>> ELSE <<KV("src_port", sp)>>)
           l4 == l3 \o (IF gdp = {} THEN <<>> ELSE <<KV("dst_port", dp)>>)
<1>1. line = l4 \o <<W(c.protocol)>>
  <2>1. /\ gsrc = {} <=> ~(c.src # NoText)
        /\ gdst = {} <=> ~(c.dst # NoText)
        /\ gsp = {} <=> ~(c.slo # NoPort)
        /\ gdp = {} <=> ~(c.dlo # NoPort)
    BY DEF Given
  <2>2. line = l0 \o (IF c.src # NoText THEN <<KV("src_ip", src)>> ELSE <<>>)
                  \o (IF c.dst # NoText THEN <<KV("dst_ip", dst)>> ELSE <<>>)
                  \o (IF c.slo # NoPort THEN <<KV("src_port", sp)>> ELSE <<>>)
                  \o (IF c.dlo # NoPort THEN <<KV("dst_port", dp)>> ELSE <<>>)
                  \o <<W(c.protocol)>>
    BY DEF Display
  <2> HIDE DEF gsrc, gdst, gsp, gdp, src, dst, sp, dp, l0
  <2> QED BY <2>1, <2>2
<1>2. /\ gsp # {} => FieldOk("src_port", sp)
      /\ gdp # {} => FieldOk("dst_port", dp)
  <2>1. {c.slo, c.shi, c.dlo, c.dhi} \subseteq Ports \cup {NoPort}
    BY DEF IsCell
  <2> QED BY <2>1 DEF Given, FieldOk, PortField, IsPort, IsPortRange, N, R
<1>3. /\ FieldOk("src_ip", src) /\ FieldOk("dst_ip", dst)
      /\ "src_ip" \in DropKeys /\ "dst_ip" \in DropKeys
      /\ "src_port" \in DropKeys /\ "dst_port" \in DropKeys
  BY DEF FieldOk, DropKeys
<1>4. /\ KV("src_ip", src) \in fields /\ KV("dst_ip", dst) \in fields
      /\ KV("src_port", sp) \in fields /\ KV("dst_port", dp) \in fields
      /\ W("DROP") \in fields /\ W(c.chain) \in fields /\ W(c.protocol) \in fields
  OBVIOUS
<1>5. /\ gsrc \in {{}, {src}} /\ gdst \in {{}, {dst}}
      /\ gsp \in {{}, {sp}} /\ gdp \in {{}, {dp}}
  BY DEF Given
<1> HIDE DEF fields, src, dst, sp, dp, gsrc, gdst, gsp, gdp
<1>6. /\ DropLine(l0, c.chain, fields)
      /\ \A key : Mentions(l0, key, {})
  <2>1. l0 \in Seq(fields) /\ Len(l0) = 2 /\ l0[1] = W("DROP") /\ l0[2] = W(c.chain)
    BY <1>4
  <2>2. 3..Len(l0) = {}
    BY <2>1
  <2> HIDE DEF l0
  <2> QED BY <2>1, <2>2 DEF DropLine, Mentions, PlacesOf
<1> HIDE DEF l0
<1>7. /\ DropLine(l1, c.chain, fields)
      /\ Mentions(l1, "src_ip", gsrc)
      /\ \A key \in DropKeys \ {"src_ip"} : Mentions(l1, key, {})
  <2>1. PlacesOf(l0, "src_ip") = {}
    BY <1>6 DEF Mentions
  <2>2. Adds(l1, l0, "src_ip", src, gsrc)
    BY <1>2, <1>3, <1>5 DEF Adds
  <2> HIDE DEF l1
  <2>3. /\ DropLine(l1, c.chain, fields)
        /\ Mentions(l1, "src_ip", gsrc)
        /\ \A other \in DropKeys \ {"src_ip"} : \A given :
              Mentions(l0, other, given) => Mentions(l1, other, given)
    BY <1>3, <1>4, <1>6, <2>1, <2>2, FieldAdded
  <2> QED BY <1>3, <1>6, <2>3
<1> HIDE DEF l1
<1>8. /\ DropLine(l2, c.chain, fields)
      /\ Mentions(l2, "src_ip", gsrc) /\ Mentions(l2, "dst_ip", gdst)
      /\ \A key \in DropKeys \ {"src_ip", "dst_ip"} : Mentions(l2, key, {})
  <2>1. PlacesOf(l1, "dst_ip") = {}
    BY <1>3, <1>7 DEF Mentions
  <2>2. Adds(l2, l1, "dst_ip", dst, gdst)
    BY <1>2, <1>3, <1>5 DEF Adds
  <2> HIDE DEF l2
  <2>3. /\ DropLine(l2, c.chain, fields)
        /\ Mentions(l2, "dst_ip", gdst)
        /\ \A other \in DropKeys \ {"dst_ip"} : \A given :
              Mentions(l1, other, given) => Mentions(l2, other, given)
    BY <1>3, <1>4, <1>7, <2>1, <2>2, FieldAdded
  <2> QED BY <1>3, <1>7, <2>3
<1> HIDE DEF l2
<1>9. /\ DropLine(l3, c.chain, fields)
      /\ Mentions(l3, "src_ip", gsrc) /\ Mentions(l3, "dst_ip", gdst)
      /\ Mentions(l3, "src_port", gsp)
      /\ Mentions(l3, "dst_port", {})
  <2>1. PlacesOf(l2, "src_port") = {}
    BY <1>3, <1>8 DEF Mentions
  <2>2. Adds(l3, l2, "src_port", sp, gsp)
    BY <1>2, <1>3, <1>5 DEF Adds
  <2> HIDE DEF l3
  <2>3. /\ DropLine(l3, c.chain, fields)
        /\ Mentions(l3, "src_port", gsp)
        /\ \A other \in DropKeys \ {"src_port"} : \A given :
              Mentions(l2, other, given) => Mentions(l3, other, given)
    BY <1>3, <1>4, <1>8, <2>1, <2>2, FieldAdded
  <2> QED BY <1>3, <1>8, <2>3
<1> HIDE DEF l3
<1>10. /\ DropLine(l4, c.chain, fields)
       /\ Mentions(l4, "src_ip", gsrc) /\ Mentions(l4, "dst_ip", gdst)
       /\ Mentions(l4, "src_port", gsp) /\ Mentions(l4, "dst_port", gdp)
  <2>1. PlacesOf(l3, "dst_port") = {}
    BY <1>9 DEF Mentions
  <2>2. Adds(l4, l3, "dst_port", dp, gdp)
    BY <1>2, <1>3, <1>5 DEF Adds
  <2> HIDE DEF l4
  <2>3. /\ DropLine(l4, c.chain, fields)
        /\ Mentions(l4, "dst_port", gdp)
        /\ \A other \in DropKeys \ {"dst_port"} : \A given :
              Mentions(l3, other, given) => Mentions(l4, other, given)
    BY <1>3, <1>4, <1>9, <2>1, <2>2, FieldAdded
  <2> QED BY <1>3, <1>9, <2>3
<1> HIDE DEF l4
<1>11. /\ l4 \in Seq(fields) /\ Len(l4) >= 2 /\ Len(l4) \in Nat
       /\ l4[1] = W("DROP") /\ l4[2] = W(c.chain)
  BY <1>10 DEF DropLine
<1>12. /\ Len(line) = Len(l4) + 1
       /\ \A n \in 1..Len(l4) : line[n] = l4[n]
       /\ line[Len(l4) + 1] = W(c.protocol)
  BY <1>1, <1>4, <1>11, Added
<1>13. Key(W(c.protocol)) \notin DropKeys
  BY KeyOf DEF DropKeys, NoText
<1>14. /\ Mentions(line, "src_ip", gsrc) /\ Mentions(line, "dst_ip", gdst)
       /\ Mentions(line, "src_port", gsp) /\ Mentions(line, "dst_port", gdp)
  BY <1>1, <1>3, <1>4, <1>10, <1>11, <1>13, StillMentioned
<1>15. \A n \in 3..(Len(line) - 1) :
          \E key \in DropKeys : \E f : line[n] = KV(key, f) /\ FieldOk(key, f)
  BY <1>10, <1>11, <1>12 DEF DropLine
<1> QED BY <1>11, <1>12, <1>14, <1>15 DEF src, dst, sp, dp, gsrc, gdst, gsp, gdp

LEMMA LastOfOne == \A n \in Int : LastAt({n}) = n
BY DEF LastAt

\* What is read of one key.
LEMMA MentionedText ==
    ASSUME NEW line, NEW key, NEW values, Mentions(line, key, values),
           NEW a, values = Given(a # NoText, A(a))
    PROVE  (IF PlacesOf(line, key) = {} THEN NoText
            ELSE AsText(line[LastAt(PlacesOf(line, key))].v[2])) = a
<1>1. CASE a = NoText
  <2>1. PlacesOf(line, key) = {}
    BY <1>1 DEF Mentions, Given
  <2> QED BY <1>1, <2>1
<1>2. CASE a # NoText
  <2>1. values = {A(a)}
    BY <1>2 DEF Given
  <2>2. PICK n \in 3..Len(line) : PlacesOf(line, key) = {n} /\ line[n] = KV(key, A(a))
    BY <2>1 DEF Mentions
  <2>3. LastAt(PlacesOf(line, key)) = n
    BY <2>2, LastOfOne
  <2>4. AsText(KV(key, A(a)).v[2]) = a
    BY DEF KV, A, AsText
  <2> QED BY <2>2, <2>3, <2>4
<1> QED BY <1>1, <1>2

\* What ParseDrop reads of the two ends of a port.
LoOf(line, key) ==
    LET places == PlacesOf(line, key)
        First(f) == IF f.k = "range" THEN f.v[1] ELSE f.v
    IN IF places = {} THEN NoPort ELSE First(line[LastAt(places)].v[2])
HiOf(line, key) ==
    LET ends == {n \in PlacesOf(line, key) : line[n].v[2].k = "range"}
    IN IF ends = {} THEN NoPort ELSE line[LastAt(ends)].v[2].v[2]

LEMMA MentionedPorts ==
    ASSUME NEW line, NEW key, NEW values, Mentions(line, key, values),
           NEW lo, NEW hi, values = Given(lo # NoPort, PortField(lo, hi))
    PROVE  /\ LoOf(line, key) = lo
           /\ HiOf(line, key) = IF lo = NoPort THEN NoPort ELSE hi
<1> DEFINE places == PlacesOf(line, key)
           ends == {n \in places : line[n].v[2].k = "range"}
           First(f) == IF f.k = "range" THEN f.v[1] ELSE f.v
<1>0. /\ LoOf(line, key) = IF places = {} THEN NoPort ELSE First(line[LastAt(places)].v[2])
      /\ HiOf(line, key) = IF ends = {} THEN NoPort ELSE line[LastAt(ends)].v[2].v[2]
  BY DEF LoOf, HiOf
<1>1. CASE lo = NoPort
  <2>1. places = {}
    BY <1>1 DEF Mentions, Given
  <2>2. ends = {}
    BY <2>1
  <2> HIDE DEF places, ends
  <2>3. (IF places = {} THEN NoPort ELSE First(line[LastAt(places)].v[2])) = NoPort
    BY <2>1
  <2>4. (IF ends = {} THEN NoPort ELSE line[LastAt(ends)].v[2].v[2]) = NoPort
    BY <2>2
  <2> QED BY <1>0, <1>1, <2>3, <2>4
<1>2. CASE lo # NoPort
  <2> DEFINE f == PortField(lo, hi)
  <2>1. values = {f}
    BY <1>2 DEF Given
  <2>2. PICK n \in 3..Len(line) : places = {n} /\ line[n] = KV(key, f)
    BY <2>1 DEF Mentions
  <2>3. LastAt(places) = n /\ line[n].v[2] = f
    BY <2>2, LastOfOne, KeyOf
  <2>4. First(f) = lo
    BY DEF PortField, N, R
  <2>5. (IF places = {} THEN NoPort ELSE First(line[LastAt(places)].v[2])) = lo
    <3> HIDE DEF places, First, f
    <3> QED BY <2>2, <2>3, <2>4
  <2>6. f.k = "range" => f.v[2] = hi
    BY DEF PortField, N, R
  <2>7. f.k # "range" => hi = NoPort
    BY DEF PortField, R
  <2>8. ends = IF f.k = "range" THEN {n} ELSE {}
    <3> HIDE DEF f
    <3> QED BY <2>2, <2>3
  <2>9. (IF ends = {} THEN NoPort ELSE line[LastAt(ends)].v[2].v[2]) = hi
    <3> HIDE DEF places, ends, f
    <3>1. CASE f.k = "range"
      <4>1. LastAt(ends) = n /\ ends # {}
        BY <2>8, <3>1, LastOfOne
      <4> QED BY <2>3, <2>6, <3>1, <4>1
    <3>2. CASE f.k # "range"
      BY <2>7, <2>8, <3>2
    <3> QED BY <3>1, <3>2
  <2> HIDE DEF f, places, ends, First
  <2> QED BY <1>0, <1>2, <2>5, <2>9
<1> QED BY <1>1, <1>2

\* So the parser gets the drop rule back.
LEMMA DropBack ==
    ASSUME NEW c, IsCell(c), c.type = "drop"
    PROVE  ParseLine(Display(c)) = InLine(c)
<1> DEFINE line == Display(c)
           at == 3..Len(line)
           Of(key)  == {n \in at : Key(line[n]) = key}
           Ends(key) == {n \in Of(key) : line[n].v[2].k = "range"}
           Text(key) == IF Of(key) = {} THEN NoText ELSE AsText(line[LastAt(Of(key))].v[2])
           First(f) == IF f.k = "range" THEN f.v[1] ELSE f.v
           Lo(key) == IF Of(key) = {} THEN NoPort ELSE First(line[LastAt(Of(key))].v[2])
           Hi(key) == IF Ends(key) = {} THEN NoPort ELSE line[LastAt(Ends(key))].v[2].v[2]
           words == {n \in at : IsWord(line[n], Protocols)}
<1>1. /\ Len(line) >= 3 /\ line[1] = W("DROP") /\ line[2] = W(c.chain)
      /\ line[Len(line)] = W(c.protocol)
      /\ \A n \in 3..(Len(line) - 1) :
            \E key \in DropKeys : \E f : line[n] = KV(key, f) /\ FieldOk(key, f)
      /\ Mentions(line, "src_ip", Given(c.src # NoText, A(c.src)))
      /\ Mentions(line, "dst_ip", Given(c.dst # NoText, A(c.dst)))
      /\ Mentions(line, "src_port", Given(c.slo # NoPort, PortField(c.slo, c.shi)))
      /\ Mentions(line, "dst_port", Given(c.dlo # NoPort, PortField(c.dlo, c.dhi)))
      /\ Len(line) \in Nat
  BY DropDisplay
<1>2. c.chain \in Chains /\ c.protocol \in Protocols
  BY DEF IsCell
<1> HIDE DEF line
<1>3. \A key : Of(key) = PlacesOf(line, key)
  BY DEF PlacesOf
<1>4. Text("src_ip") = c.src /\ Text("dst_ip") = c.dst
  <2>1. \A key : Text(key) = IF PlacesOf(line, key) = {} THEN NoText
                             ELSE AsText(line[LastAt(PlacesOf(line, key))].v[2])
    BY <1>3
  <2> HIDE DEF Text
  <2> QED BY <1>1, <2>1, MentionedText
<1>5. /\ Lo("src_port") = c.slo /\ Hi("src_port") = IF c.slo = NoPort THEN NoPort ELSE c.shi
      /\ Lo("dst_port") = c.dlo /\ Hi("dst_port") = IF c.dlo = NoPort THEN NoPort ELSE c.dhi
  <2>1. \A key : Lo(key) = LoOf(line, key) /\ Hi(key) = HiOf(line, key)
    BY Zenon DEF LoOf, HiOf, PlacesOf
  <2> HIDE DEF Lo, Hi
  <2> QED BY <1>1, <2>1, MentionedPorts
<1>6. words = {Len(line)}
  <2>1. ASSUME NEW n \in at, n # Len(line)
        PROVE  ~IsWord(line[n], Protocols)
    <3>1. n \in 3..(Len(line) - 1)
      BY <1>1, <2>1
    <3> QED BY <1>1, <3>1, KeyOf DEF IsWord
  <2>2. Len(line) \in at /\ IsWord(line[Len(line)], Protocols)
    BY <1>1, <1>2, KeyOf DEF IsWord
  <2> QED BY <2>1, <2>2
<1>7. \A n \in at : line[n].k = "pair" =>
          /\ Key(line[n]) \in {"src_ip", "dst_ip", "src_port", "dst_port"}
          /\ Key(line[n]) \in {"src_port", "dst_port"} =>
                IsPort(line[n].v[2]) \/ IsPortRange(line[n].v[2])
  <2>1. TAKE n \in at
  <2>2. CASE n = Len(line)
    BY <1>1, <2>2, KeyOf
  <2>3. CASE n # Len(line)
    <3>1. n \in 3..(Len(line) - 1)
      BY <1>1, <2>3
    <3> QED BY <1>1, <3>1, KeyOf DEF DropKeys, FieldOk
  <2> QED BY <2>2, <2>3
<1>8. ParseDrop(line) = Drop(AsChain(AsText(line[2])), Text("src_ip"), Text("dst_ip"),
                             Lo("src_port"), Hi("src_port"), Lo("dst_port"), Hi("dst_port"),
                             IF words = {} THEN "all" ELSE line[LastAt(words)].v)
  <2>1. ~(Len(line) < 3)
    BY <1>1
  <2> QED BY <1>7, <2>1, Zenon DEF ParseDrop
<1>9. AsChain(AsText(line[2])) = c.chain
  BY <1>1, <1>2 DEF AsText, AsChain, W
<1>10. words # {} /\ line[LastAt(words)].v = c.protocol
  BY <1>1, <1>6, LastOfOne, KeyOf
<1> HIDE DEF Text, Lo, Hi, words
<1>11. ParseDrop(line) = InLine(c)
  BY <1>4, <1>5, <1>8, <1>9, <1>10 DEF InLine, IsForward
<1>12. /\ line # <<>> /\ IsWord(line[1], {"DROP"}) /\ ~IsWord(line[1], {"#"})
       /\ ~IsWord(line[1], {"SINGLE", "RANGE"}) /\ ~IsWord(line[1], {"REDIRECT"})
  BY <1>1, KeyOf DEF IsWord
<1>13. ParseLine(line) = ParseDrop(line)
  BY <1>12 DEF ParseLine
<1> QED BY <1>11, <1>13 DEF line

\* A line says what of a rule a line can say.
LEMMA LineBack ==
    ASSUME NEW c, IsCell(c)
    PROVE  ParseLine(Display(c)) = InLine(c)
<1>1. c.type \in {"single", "range", "redirect", "drop"}
  BY DEF IsCell
<1> QED BY <1>1, NatBack, RedirectBack, DropBack

\* What a line leaves out makes no rule invalid.
LEMMA ValidInLine ==
    ASSUME NEW c, IsCell(c), Valid(c)
    PROVE  Valid(InLine(c))
<1>1. CASE c.type = "drop"
  <2>1. Valid(c) <=> DropValid(c)
    BY <1>1 DEF Valid
  <2>2. InLine(c).type = "drop" /\ DropValid(InLine(c))
    BY <1>1, <2>1 DEF InLine, IsForward, Drop, DropValid, PortRangeOk
  <2> QED BY <2>2 DEF Valid
<1>2. CASE c.type # "drop"
  <2>1. InLine(c) = Forward(c.type, c.lo, c.hi, c.dport, c.target, c.protocol, c.version)
    BY <1>2 DEF IsCell, InLine, IsForward, Forward
  <2>2. c.type \in {"single", "range", "redirect"}
    BY <1>2 DEF IsCell
  <2>3. LET d == InLine(c)
        IN /\ d.type = c.type /\ d.lo = c.lo /\ d.hi = c.hi /\ d.dport = c.dport
           /\ d.target = c.target /\ SnatOk(d)
    BY <2>1 DEF Forward, SnatOk
  <2> QED BY <2>2, <2>3 DEF Valid
<1> QED BY <1>1, <1>2

\* The whole file.
LEMMA LinesBack ==
    ASSUME NEW cfg \in Configs
    PROVE  LET lines == <<<<W("#")>>>> \o [n \in DOMAIN cfg.cells |-> Display(cfg.cells[n])]
           IN /\ (\A n \in DOMAIN cfg.cells : Valid(cfg.cells[n])) => LegacyValid(lines)
              /\ ReadLegacy(lines) = [n \in DOMAIN cfg.cells |-> InLine(cfg.cells[n])]
<1> DEFINE cells == cfg.cells
           size == Len(cells)
           rest == [n \in DOMAIN cells |-> Display(cells[n])]
           lines == <<<<W("#")>>>> \o rest
<1>1. size \in Nat /\ DOMAIN cells = 1..size /\ \A n \in 1..size : IsCell(cells[n])
  BY RulesetAssumption
<1> HIDE DEF size
<1>2. /\ Len(lines) = size + 1
      /\ lines[1] = <<W("#")>>
      /\ \A n \in 1..size : lines[n + 1] = Display(cells[n])
  <2> DEFINE all == {<<W("#")>>} \cup {Display(cells[n]) : n \in 1..size}
             head == <<<<W("#")>>>>
  <2>1. rest \in Seq(all) /\ Len(rest) = size
    BY <1>1
  <2>2. head \in Seq(all) /\ Len(head) = 1 /\ head[1] = <<W("#")>>
    OBVIOUS
  <2>3. \A n \in 1..size : rest[n] = Display(cells[n])
    BY <1>1
  <2> HIDE DEF all, head, rest
  <2>4. /\ Len(head \o rest) = size + 1
        /\ (head \o rest)[1] = <<W("#")>>
        /\ \A n \in 1..size : (head \o rest)[n + 1] = rest[n]
    <3>1. /\ Len(head \o rest) = Len(head) + Len(rest)
          /\ \A i \in 1..(Len(head) + Len(rest)) :
                (head \o rest)[i] = IF i <= Len(head) THEN head[i] ELSE rest[i - Len(head)]
      BY <2>1, <2>2, ConcatProperties
    <3>2. \A n \in 1..size : n + 1 \in 1..(1 + size) /\ ~(n + 1 <= 1) /\ (n + 1) - 1 = n
      BY <1>1
    <3> QED BY <1>1, <2>1, <2>2, <3>1, <3>2
  <2> QED BY <2>3, <2>4 DEF head
<1> HIDE DEF lines
<1>3. ParseLine(lines[1]) = Skip
  <2>1. <<W("#")>> # <<>> /\ IsWord(<<W("#")>>[1], {"#"})
    BY DEF IsWord, W
  <2>2. /\ ~IsWord(<<W("#")>>[1], {"DROP"})
        /\ ~IsWord(<<W("#")>>[1], {"SINGLE", "RANGE"})
        /\ ~IsWord(<<W("#")>>[1], {"REDIRECT"})
    BY DEF IsWord, W
  <2> QED BY <1>2, <2>1, <2>2 DEF ParseLine
<1>4. \A n \in 1..size : ParseLine(lines[n + 1]) = InLine(cells[n])
  BY <1>1, <1>2, LineBack
<1>5. \A n \in 1..size : InLine(cells[n]).type \in {"single", "range", "redirect", "drop"}
  <2>1. TAKE n \in 1..size
  <2>2. IsCell(cells[n]) /\ cells[n].type \in {"single", "range", "redirect", "drop"}
    BY <1>1 DEF IsCell
  <2>3. InLine(cells[n]).type = cells[n].type
    BY <2>2 DEF IsCell, InLine, IsForward, Forward, Drop
  <2> QED BY <2>2, <2>3
<1>6. ASSUME \A n \in DOMAIN cells : Valid(cells[n]) PROVE LegacyValid(lines)
  <2>1. ASSUME NEW n \in 1..Len(lines)
        PROVE  \/ ParseLine(lines[n]).type = "skip"
               \/ ParseLine(lines[n]).type # "invalid" /\ Valid(ParseLine(lines[n]))
    <3>1. CASE n = 1
      BY <1>3, <3>1 DEF Skip
    <3>2. CASE n # 1
      <4>1. n - 1 \in 1..size /\ n = (n - 1) + 1
        BY <1>1, <1>2, <3>2
      <4>2. ParseLine(lines[n]) = InLine(cells[n - 1])
        BY <1>4, <4>1
      <4>3. Valid(InLine(cells[n - 1]))
        BY <1>1, <1>6, <4>1, ValidInLine
      <4> QED BY <1>5, <4>1, <4>2, <4>3
    <3> QED BY <3>1, <3>2
  <2> QED BY <2>1 DEF LegacyValid
<1>7. ReadLegacy(lines) = [n \in DOMAIN cells |-> InLine(cells[n])]
  <2> DEFINE parsed == [n \in 1..Len(lines) |-> ParseLine(lines[n])]
             kept == {n \in DOMAIN parsed : parsed[n].type \notin {"skip", "invalid"}}
  <2>1. ReadLegacy(lines) = Filtered(parsed, kept)
    BY DEF ReadLegacy
  <2>2. DOMAIN parsed = 1..(size + 1) /\ parsed[1] = Skip
        /\ \A n \in 1..size : parsed[n + 1] = InLine(cells[n])
    BY <1>1, <1>2, <1>3, <1>4
  <2> HIDE DEF parsed
  <2>3. kept = 2..(size + 1)
    <3>1. 1 \notin kept
      BY <2>2 DEF Skip
    <3>2. ASSUME NEW n \in 2..(size + 1) PROVE n \in kept
      <4>1. n - 1 \in 1..size /\ n = (n - 1) + 1 /\ n \in 1..(size + 1)
        BY <1>1
      <4> QED BY <1>5, <2>2, <4>1
    <3>3. \A n \in kept : n \in 1..(size + 1)
      BY <2>2
    <3> HIDE DEF kept
    <3>4. \A n \in kept : n \in 2..(size + 1)
      BY <1>1, <3>1, <3>3
    <3> QED BY <3>2, <3>4
  <2> HIDE DEF kept
  <2>4. ReadLegacy(lines) = [n \in 1..size |-> parsed[n + 1]]
    BY <1>1, <2>1, <2>3, FilteredRest
  <2>5. [n \in 1..size |-> parsed[n + 1]] = [n \in 1..size |-> InLine(cells[n])]
    BY <2>2
  <2> QED BY <1>1, <2>4, <2>5
<1> QED BY <1>6, <1>7 DEF lines

\* Rules that are written to a legacy file and read from it are the same rules,
\* in the same order, but for what a line cannot say; and valid rules make a
\* file that validate_legacy_config accepts.
THEOREM LinesAlwaysRoundTrip == Spec => []LinesRoundTrip
<1>1. Judged => LinesRoundTrip
  BY LinesBack DEF LinesRoundTrip, Judged
<1> QED BY <1>1, JudgedInductive, PTL
=============================================================================
