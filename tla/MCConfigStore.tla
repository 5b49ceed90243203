---------------------------- MODULE MCConfigStore ----------------------------
(* A small file and the operations asked of it: one of each kind, with the  *)
(* arguments at the limits of what its checks let through.                  *)
EXTENDS ConfigStore, TLC

MCV4 == {"a4", "b4"}
MCV6 == {"c6"}
MCNames == {"x", "y"}
MCIp(t) == IF t = "x" THEN "a4" ELSE "b4"

MCStart ==
    [global |-> TRUE,
     rules |-> <<[Single(1, 1, "x", "tcp", "ipv4") EXCEPT !.quota.enabled = TRUE],
                 RangeCell(2, 3, "y", "all", "ipv4")>>,
     access |-> [mode |-> "whitelist", entries |-> {"a4"}],
     dw |-> [enabled |-> TRUE, interval |-> 300, cidr |-> 32,
             domains |-> <<[name |-> "home", domain |-> "x", enabled |-> TRUE]>>],
     geo |-> [enabled |-> TRUE, forward |-> FALSE, ssh |-> TRUE, sshPort |-> 3, hours |-> 168],
     egress |-> [enabled |-> FALSE, allowed |-> {"a4"}],
     snat |-> [mode |-> "masquerade", fixed |-> NoText],
     mss |-> [enabled |-> FALSE, size |-> 1452],
     telegram |-> [enabled |-> FALSE, token |-> NoText, minutes |-> 60],
     traffic |-> "both", timezone |-> "Asia/Shanghai"]

\* One entry under a key, one of an older version without.
MCStartCache ==
    {[id |-> 0, key |-> RuleKey(MCStart.rules[1]), domain |-> "x", ip |-> "a4"],
     [id |-> 5, key |-> NoKey, domain |-> "y", ip |-> "b4"]}

\* Operations that get in each other's way, or follow others.
MCOps ==
    {[op |-> "rule.add.single", rule |-> Single(2, 1, "x", "tcp", "ipv4"),
      ss |-> {Listener("tcp", 2), Listener("udp", NoPort)}, yes |-> TRUE],
     [op |-> "rule.delete", n |-> 1],
     [op |-> "rule.edit", n |-> 1, ss |-> {}, yes |-> FALSE,
      patch |-> [NoPatch EXCEPT !.sport = <<2, 2>>, !.comment = <<"c">>]],
     [op |-> "rule.edit", n |-> 2, ss |-> {}, yes |-> FALSE,
      patch |-> [NoPatch EXCEPT !.target = "x"]],
     [op |-> "rule.toggle", n |-> 1, on |-> FALSE],
     [op |-> "dynamic_whitelist.domain.toggle", n |-> 1],
     [op |-> "snat.mode.update", mode |-> "fixed", address |-> "a4", yes |-> FALSE],
     [op |-> "snat.fixed_source_ip.update", address |-> NoText]}

\* One of each of the others, at the limits of what the checks let through.
MCAlone ==
    {[op |-> "rule.add.range", rule |-> RangeCell(1, 3, "y", "udp", "all"), ss |-> {}, yes |-> FALSE],
     [op |-> "quota.config.update", n |-> 1, field |-> "bytes", value |-> 1],
     [op |-> "access_control.ssh_source.add", entry |-> "b4", yes |-> TRUE],
     [op |-> "dynamic_whitelist.domain.add", domain |-> [name |-> "home", domain |-> "y", enabled |-> TRUE]],
     [op |-> "dynamic_whitelist.domain.delete", n |-> 1],
     [op |-> "dynamic_whitelist.interval.update", seconds |-> 9],
     [op |-> "dynamic_whitelist.interval.update", seconds |-> 10],
     [op |-> "dynamic_whitelist.cidr_expand.update", bits |-> 24, yes |-> TRUE],
     [op |-> "geoip.forward.update", yes |-> TRUE],
     [op |-> "geoip.ssh.update", yes |-> TRUE],
     [op |-> "geoip.ssh.port.update", port |-> 0],
     [op |-> "geoip.ssh.port.update", port |-> 2],
     [op |-> "geoip.update_interval.update", hours |-> 1],
     [op |-> "egress_control.update", yes |-> TRUE],
     [op |-> "egress.add", entry |-> "b4"],
     [op |-> "egress.delete", entry |-> "a4"],
     [op |-> "global.enabled.update", on |-> FALSE, yes |-> TRUE],
     [op |-> "snat.mode.update", mode |-> "fixed", address |-> "c6", yes |-> FALSE],
     [op |-> "mss_clamp.toggle", yes |-> TRUE],
     [op |-> "mss_clamp.size.update", size |-> 1461],
     [op |-> "mss_clamp.size.update", size |-> 536],
     [op |-> "telegram.config.update", token |-> "t", on |-> TRUE],
     [op |-> "telegram.toggle", on |-> TRUE],
     [op |-> "telegram.interval.update", minutes |-> 1],
     [op |-> "stats.mode.update", mode |-> "out"],
     [op |-> "ui.timezone.update", zone |-> "UTC"]}
MCPageOps == {[op |-> "mode", mode |-> "off", yes |-> FALSE]}

MCSymmetry == Permutations(Menus)
=============================================================================
