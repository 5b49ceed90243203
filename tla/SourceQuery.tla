----------------------------- MODULE SourceQuery -----------------------------
(***************************************************************************)
(* The page that tells whether a source may use the forwarding rules       *)
(* (nat-cli/src/menu.rs, format_source_ip_match_lines), beside the rules   *)
(* that decide it, and the legacy file beside the rules it stands for.     *)
(***************************************************************************)
EXTENDS RuleBuild

\* dynamic_source_matches: the page looks at the DDNS sources and not at the
\* source files; `cfg.dynamic` stands for the former.
StaticHit(cfg, a)  == a \in cfg.access.entries
DynamicHit(cfg, a) == a \in cfg.dynamic

\* evaluate_geoip_source_match
GeoAnswer(cfg, a) ==
    CASE ~(cfg.geo.enabled /\ cfg.geo.forward) -> "disabled"
      [] cfg.geo.enabled /\ cfg.geo.forward /\ a \in V6 -> "unchecked"
      [] cfg.geo.enabled /\ cfg.geo.forward /\ a \in V4 ->
            IF a \in LanV4(cfg) THEN "hit"
            ELSE IF cfg.geo.file = {} THEN "unavailable"
            ELSE IF a \in cfg.geo.file THEN "hit" ELSE "miss"

Access(cfg, a) ==
    CASE cfg.access.mode = "off"       -> TRUE
      [] cfg.access.mode = "blacklist" -> ~StaticHit(cfg, a)
      [] cfg.access.mode = "whitelist" -> StaticHit(cfg, a) \/ DynamicHit(cfg, a)

\* The lists would make up for a miss.
AssessEither(cfg, a) == IF Access(cfg, a) THEN "yes" ELSE "no"

\* assess_final_source_decision
Assess(cfg, a) ==
    CASE ~Access(cfg, a) \/ GeoAnswer(cfg, a) = "miss" -> "no"
      [] Access(cfg, a) /\ GeoAnswer(cfg, a) = "unavailable" -> "unknown"
      [] OTHER -> "yes"

\* format_source_ip_match_lines: the sections of the page, and its last word.
Page(cfg, a) ==
    [static    |-> StaticHit(cfg, a),
     blacklist |-> CASE cfg.access.mode # "blacklist" -> "off"
                     [] cfg.access.mode = "blacklist" -> IF StaticHit(cfg, a) THEN "hit" ELSE "miss",
     dynamic   |-> DynamicHit(cfg, a),
     geo       |-> GeoAnswer(cfg, a),
     allowed   |-> Assess(cfg, a)]

------------------------------------------------------------------------------
(* Properties.                                                              *)

\* "GeoIP 与 access_control 是 AND 叠加" (menu.rs:3129): what the page says of a
\* source, the rules do to its connections to a forwarded port, but for those
\* that a drop rule or the restriction of the SSH port takes away; and the
\* section that speaks against a source is the one that stops it.  A whitelist
\* without an entry of the family leaves no rule for GeoIP to guard.
QueryIsTrue ==
    packet # NoPacket /\ packet.state = "new" /\ Asked(packet) # {} =>
        LET page == Page(config, packet.src)
            access == AccessWithDynamic(config)
            dropped == out.fate = "dropped"
        IN /\ page.allowed = "no" => ~Translated
           /\ page.allowed = "yes" =>
                \/ Translated
                \/ /\ dropped
                   /\ config.geo.ssh \/ \E n \in DOMAIN config.cells : config.cells[n].type = "drop"
           /\ page.blacklist = "hit" => dropped
           /\ page.geo = "miss" /\ ~Closed(packet.fam, access) => dropped
           /\ config.access.mode = "whitelist" /\ ~page.static /\ ~page.dynamic => ~Translated

\* "legacy 单行格式" (Display and TryFrom): rules written as lines are given back
\* in order by read_config, but for what a line cannot say, and if the rules are
\* valid, validate_legacy_config accepts the lines.
LinesRoundTrip ==
    LET cells == config.cells
        lines == <<<<W("#")>>>> \o [n \in DOMAIN cells |-> Display(cells[n])]
    IN /\ (\A n \in DOMAIN cells : Valid(cells[n])) => LegacyValid(lines)
       /\ ReadLegacy(lines) = [n \in DOMAIN cells |-> InLine(cells[n])]
=============================================================================
