----------------------------- MODULE PolicyEdit -----------------------------
(***************************************************************************)
(* What the menu does to the rest of the configuration, and what           *)
(* TomlConfig::validate asks of the whole of it.  As in RuleEdit, an       *)
(* operation yields the set of configurations it would save; a page that   *)
(* edits in memory yields the set of those it goes on with.                *)
(*                                                                         *)
(* A source is one of the addresses, or "" or a name where the prompt took *)
(* something that is none; a DDNS domain is one of Names.                  *)
(***************************************************************************)
EXTENDS RuleEdit

MssMin == 536
MssMax == 1460
MinInterval == 10               \* seconds between two looks at the DDNS sources
SnatModes == {"masquerade", "fixed", "off"}

------------------------------------------------------------------------------
(* TomlConfig::validate, section by section.                                *)

AccessValid(access) == access.entries \subseteq Addresses
DomainValid(d) == d.name # NoText /\ d.domain \in Names
DynamicValid(dw) ==
    /\ dw.interval >= MinInterval
    /\ dw.cidr \in {24, 32}
    /\ \A n \in DOMAIN dw.domains : DomainValid(dw.domains[n])
GeoValid(geo) == geo.hours # 0 /\ geo.sshPort # 0
EgressValid(egress) == egress.allowed \subseteq Addresses
SnatValid(snat) == snat.mode = "fixed" => snat.fixed \in V4
MssValid(mss) == mss.size \in MssMin..MssMax

ConfigValid(c) ==
    /\ AccessValid(c.access) /\ DynamicValid(c.dw) /\ GeoValid(c.geo)
    /\ EgressValid(c.egress) /\ SnatValid(c.snat) /\ MssValid(c.mss)
    /\ \A n \in DOMAIN c.rules : Valid(c.rules[n])

When(test, c) == IF test THEN {c} ELSE {}

------------------------------------------------------------------------------
(* The page of the source lists: it works on the configuration it loaded.   *)

\* One confirmation, whichever of the two questions is asked.
AccessMode(c, mode, yes) == When(mode = "off" \/ yes, [c EXCEPT !.access.mode = mode])

AddEntry(c, e) == When(e \in Addresses, [c EXCEPT !.access.entries = @ \cup {e}])
DeleteEntry(c, e) == When(e \in c.access.entries, [c EXCEPT !.access.entries = @ \ {e}])
ClearEntries(c, yes) == When(yes, [c EXCEPT !.access.entries = {}])

\* add_ssh_source_entry: the address of the session itself, never into a blacklist.
AddSshSource(c, e, yes) ==
    When(yes /\ c.access.mode # "blacklist" /\ e \in Addresses \ c.access.entries,
         [c EXCEPT !.access.entries = @ \cup {e}])

------------------------------------------------------------------------------
(* The page of the DDNS sources.                                            *)

AddDomain(c, d) ==
    LET new == [c EXCEPT !.dw.domains = Append(@, d)]
    IN When(DomainValid(d) /\ DynamicValid(new.dw), new)
DeleteDomain(c, n) == When(n \in DOMAIN c.dw.domains, [c EXCEPT !.dw.domains = SE!RemoveAt(@, n)])
ToggleDomain(c, n) ==
    IF n \in DOMAIN c.dw.domains THEN {[c EXCEPT !.dw.domains[n].enabled = ~@]} ELSE {}
SetSourceInterval(c, seconds) ==
    LET new == [c EXCEPT !.dw.interval = seconds] IN When(DynamicValid(new.dw), new)
SetExpansion(c, bits, yes) ==
    LET new == [c EXCEPT !.dw.cidr = bits]
    IN When(bits \in {24, 32} \ {c.dw.cidr} /\ (bits = 24 => yes) /\ DynamicValid(new.dw), new)

------------------------------------------------------------------------------
(* The other pages.                                                         *)

\* Switching one restriction on switches the whole on; switching it off does
\* not switch the whole off.
ToggleGeoForward(c, yes) ==
    When(yes, [c EXCEPT !.geo.enabled = @ \/ ~c.geo.forward, !.geo.forward = ~@])
ToggleGeoSsh(c, yes) ==
    When(yes, [c EXCEPT !.geo.enabled = @ \/ ~c.geo.ssh, !.geo.ssh = ~@])
SetSshPort(c, port) == When(port \in Ports \ {0}, [c EXCEPT !.geo.sshPort = port])
SetGeoHours(c, hours) == When(hours # 0, [c EXCEPT !.geo.hours = hours])

ToggleEgress(c, yes) == When(yes, [c EXCEPT !.egress.enabled = ~@])
AddEgress(c, e) == When(e \in Addresses, [c EXCEPT !.egress.allowed = @ \cup {e}])
DeleteEgress(c, e) == When(e \in c.egress.allowed, [c EXCEPT !.egress.allowed = @ \ {e}])

SetGlobal(c, on, yes) == When(on # c.global /\ yes, [c EXCEPT !.global = on])

\* The address is asked for only when the mode needs one and there is none.
SetSnatMode(c, mode, address, yes) ==
    LET asked == mode = "fixed" /\ c.snat.fixed = NoText
        new == [c EXCEPT !.snat.mode = mode, !.snat.fixed = IF asked THEN address ELSE @]
    IN When((mode = "off" => yes) /\ (asked => address \in V4) /\ SnatValid(new.snat), new)

\* The fixed address cleared whatever the mode.
SetFixedSourceAlways(c, address) ==
    When(address = NoText \/ address \in V4, [c EXCEPT !.snat.fixed = address])

SetFixedSource(c, address) ==
    When(IF address = NoText THEN c.snat.mode # "fixed" ELSE address \in V4,
         [c EXCEPT !.snat.fixed = address])

ToggleMss(c, yes) == When(yes, [c EXCEPT !.mss.enabled = ~@])
SetMssSize(c, size) ==
    LET new == [c EXCEPT !.mss.size = size] IN When(MssValid(new.mss), new)

ConfigureTelegram(c, token, enable) ==
    When(token # NoText, [c EXCEPT !.telegram.token = token, !.telegram.enabled = @ \/ enable])
SwitchTelegram(c, on) == {[c EXCEPT !.telegram.enabled = on]}
SetTelegramMinutes(c, minutes) == When(minutes # 0, [c EXCEPT !.telegram.minutes = minutes])

SwitchTrafficMode(c, mode) == When(mode \in {"both", "out", "in"}, [c EXCEPT !.traffic = mode])
SetTimezone(c, zone, known) == When(zone \in known, [c EXCEPT !.timezone = zone])

\* run_quota_check: every rule found over its limit, in one write.
AutoDisable(c, over) ==
    LET off == {n \in over \cap DOMAIN c.rules : Enabled(c.rules[n])}
    IN When(off # {}, [c EXCEPT !.rules = [n \in DOMAIN @ |->
                          IF n \in off THEN SetEnabled(@[n], FALSE) ELSE @[n]]])
=============================================================================
