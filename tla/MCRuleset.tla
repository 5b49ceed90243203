------------------------------ MODULE MCRuleset ------------------------------
(* Configurations and packets for RuleBuild: one policy is varied at a time *)
(* against every pair of rules of a set chosen to overlap and to share      *)
(* targets.                                                                 *)
EXTENDS SourceQuery, Connectivity

MCV4 == {"cn", "lan", "far", "t4", "u4", "127.0.0.1"}
MCV6 == {"far6", "t6"}
MCNames == {"localhost", "dual", "only6", "down", "fake"}

MCDns == [answers |-> [t \in MCV4 \cup MCV6 \cup MCNames |->
                         CASE t = "dual" -> <<"t6", "t4">> [] t = "only6" -> <<"t6">>
                           [] t = "fake" -> <<"t4", "lan">> [] t = "localhost" -> <<"127.0.0.1">>
                           [] OTHER -> <<>>],
          rejectFake |-> TRUE, fake |-> {"lan"}]

Cell == {Single(1, 2, "t4", "all", "ipv4"), Single(2, 2, "t4", "tcp", "ipv4"),
         [Single(1, 2, "dual", "tcp", "ipv4") EXCEPT !.snat = "u4"],
         Single(1, 1, "only6", "all", "all"), Single(2, 1, "down", "tcp", "ipv4"),
         Single(1, 3, "fake", "tcp", "ipv4"), Single(2, 3, "127.0.0.1", "tcp", "ipv4"),
         [RangeCell(1, 2, "u4", "udp", "all") EXCEPT !.enabled = FALSE],
         RangeCell(2, 3, "dual", "all", "all"),
         Redirect(1, 2, 3, "tcp", "all"), Redirect(2, NoPort, 1, "udp", "ipv6"),
         Drop("forward", NoText, "t4", NoPort, 3, 2, 3, "tcp"),
         Drop("input", "far", NoText, NoPort, NoPort, NoPort, NoPort, "all")}

MCBase ==
    [global |-> TRUE, cells |-> <<>>,
     access |-> [mode |-> "off", entries |-> {}], dynamic |-> {"cn"},
     egress |-> [enabled |-> FALSE, allowed |-> {}],
     snat |-> [mode |-> "masquerade", fixed |-> "lan", legacy |-> [ip |-> NoText, ip6 |-> NoText],
              shown |-> NoText],
     mss |-> FALSE,
     geo |-> [enabled |-> FALSE, forward |-> FALSE, ssh |-> FALSE, sshMode |-> "allow-cn",
              sshPort |-> 3, allowLan |-> FALSE, lan |-> {"lan", "far6"}, file |-> {}],
     dns |-> MCDns, lastGood |-> [enabled |-> TRUE, onFailure |-> TRUE],
     cache |-> {}]

\* The entry of the rule whose name does not resolve, as a round leaves it: what
\* it says of egress_control may be a "blocked" of an older, shorter list.
MCCache(cfg) ==
    LET down == {r \in Identities(cfg.cells) : r.domain = "down"}
    IN {[id |-> r.id, key |-> r.key, ip |-> "u4", 
       allowed |-> ~cfg.egress.enabled \/ cfg.egress.allowed = {"u4"}] :
          r \in {q \in down : \A s \in down : s.id <= q.id}}

\* Used on failure, shown only, and off.
MCLastGood == [enabled : {TRUE}, onFailure : BOOLEAN] \cup [enabled : {FALSE}, onFailure : {TRUE}]

MCPolicies ==
    {[MCBase EXCEPT !.access = [mode |-> m, entries |-> e], !.dynamic = d] :
        m \in {"whitelist", "blacklist"}, e \in {{}, {"lan", "far6"}}, d \in {{}, {"cn"}}}
    \cup {[MCBase EXCEPT !.egress = [enabled |-> TRUE, allowed |-> a], !.lastGood = g] :
        a \in {{}, {"t4"}, {"u4", "t6"}}, g \in MCLastGood}
    \cup {[MCBase EXCEPT !.egress = [enabled |-> e, allowed |-> {"u4"}], !.lastGood = g] :
        e \in BOOLEAN, g \in MCLastGood}
    \cup {[MCBase EXCEPT !.snat.mode = m, !.snat.legacy.ip = l, !.snat.shown = l,
                         !.mss = (m = "fixed")] :
        m \in {"masquerade", "fixed", "off"}, l \in {NoText, "cn"}}
    \cup {[MCBase EXCEPT !.snat.legacy.ip = e[1], !.snat.shown = e[2]] :
        e \in {<<"cn", NoText>>, <<NoText, "cn">>, <<"cn", "lan">>, <<Blank, Blank>>, <<NoText, Blank>>}}
    \cup {[MCBase EXCEPT !.geo.enabled = TRUE, !.geo.forward = f, !.geo.ssh = s, !.geo.allowLan = l,
                         !.geo.sshMode = IF l THEN "allow-cn-and-lan" ELSE "allow-cn",
                         !.geo.file = file, !.global = g] :
        f \in BOOLEAN, s \in BOOLEAN, l \in BOOLEAN, file \in {{}, {"cn"}}, g \in {TRUE}}
    \cup {[MCBase EXCEPT !.geo.enabled = TRUE, !.geo.ssh = TRUE, !.geo.file = {"cn"}, !.global = FALSE]}
    \cup {[MCBase EXCEPT !.geo.enabled = TRUE, !.geo.forward = TRUE, !.geo.file = {"cn"},
                         !.geo.allowLan = TRUE, !.access = [mode |-> m, entries |-> e]] :
        m \in {"whitelist", "blacklist"}, e \in {{"lan"}, {"far", "far6"}}}
    \cup {[MCBase EXCEPT !.geo.enabled = TRUE, !.geo.forward = TRUE, !.geo.file = {"cn"},
                         !.access = [mode |-> "whitelist", entries |-> {"far6"}], !.dynamic = {}]}

MCConfigs ==
    LET plain == {[p EXCEPT !.cells = <<a, b>>] : p \in MCPolicies, a \in Cell, b \in Cell}
    IN {[cfg EXCEPT !.cache = MCCache(cfg)] : cfg \in plain}

MCPackets ==
    {Packet("ip", s, d, pr, po, "new") :
        s \in {"cn", "lan", "far"}, d \in {Self}, pr \in {"tcp", "udp"}, po \in 1..3}
    \cup {Packet("ip6", "far6", Self, pr, po, "new") : pr \in {"tcp", "udp"}, po \in 1..3}
    \cup {Packet("ip", "far", d, "tcp", 2, "est") : d \in {Self, "u4"}}
=============================================================================
