-------------------------------- MODULE Cells --------------------------------
(***************************************************************************)
(* The rules of the configuration (NftCell in nat-common/src/lib.rs): what *)
(* TomlConfig::validate accepts, what a line of the legacy file is parsed  *)
(* to and printed as, and which key a rule has in the last-good cache.     *)
(*                                                                         *)
(* Texts are members of small sets; a CIDR is one of the addresses.  A     *)
(* legacy line is the sequence of its comma-separated fields, each tagged  *)
(* with its shape: a word, a number, a range lo-hi, a pair key=value, or   *)
(* an address.                                                             *)
(***************************************************************************)
EXTENDS Integers, Sequences, FiniteSets

CONSTANTS
    V4, V6,     \* the IPv4 and the IPv6 addresses
    Names,      \* domain names, "localhost" among them
    MaxPort     \* the last port (65535: the range of u16)

ASSUME CellsAssumption ==
    /\ V4 \cap V6 = {} /\ Names \cap (V4 \cup V6) = {}
    /\ "" \notin V4 \cup V6 \cup Names
    /\ MaxPort \in Nat

Addresses == V4 \cup V6
Ports == 0..MaxPort
NoPort == -1                    \* Option<u16>::None
NoText == ""                    \* Option<String>::None, or an empty text

IpVersions == {"ipv4", "ipv6", "all"}
Protocols  == {"tcp", "udp", "all"}
Chains     == {"input", "forward"}

\* The `From<&str>` conversions: a word they do not know is the default.
AsVersion(w)  == IF w \in IpVersions THEN w ELSE "all"
AsProtocol(w) == IF w \in Protocols THEN w ELSE "all"
AsChain(w)    == IF w \in Chains THEN w ELSE "input"

\* The members of a list at some of its places, in their order.
Filtered(list, places) ==
    LET At(k) == CHOOSE n \in places : Cardinality({m \in places : m <= n}) = k
    IN [k \in 1..Cardinality(places) |-> list[At(k)]]

NoQuota == [enabled |-> FALSE, bytes |-> 0, period |-> "monthly"]

------------------------------------------------------------------------------
(* The four kinds of cell.                                                  *)

Forward(type, lo, hi, dport, target, protocol, version) ==
    [type |-> type, enabled |-> TRUE, lo |-> lo, hi |-> hi, dport |-> dport,
     target |-> target, protocol |-> protocol, version |-> version,
     snat |-> NoText, comment |-> NoText, quota |-> NoQuota]

Single(lo, dport, target, protocol, version) ==
    Forward("single", lo, NoPort, dport, target, protocol, version)
RangeCell(lo, hi, target, protocol, version) ==
    Forward("range", lo, hi, NoPort, target, protocol, version)
Redirect(lo, hi, dport, protocol, version) ==
    Forward("redirect", lo, hi, dport, "localhost", protocol, version)

Drop(chain, src, dst, slo, shi, dlo, dhi, protocol) ==
    [type |-> "drop", chain |-> chain, src |-> src, dst |-> dst,
     slo |-> slo, shi |-> shi, dlo |-> dlo, dhi |-> dhi,
     protocol |-> protocol, comment |-> NoText]

IsForward(c) == c.type # "drop"

\* Which cells there are, valid or not: the types of the fields of NftCell.
IsCell(c) ==
    LET ends == Ports \cup {NoPort}
    IN IF c.type = "drop"
       THEN /\ c = [Drop(c.chain, c.src, c.dst, c.slo, c.shi, c.dlo, c.dhi, c.protocol)
                        EXCEPT !.comment = c.comment]
            /\ c.chain \in Chains /\ c.protocol \in Protocols
            /\ {c.slo, c.shi, c.dlo, c.dhi} \subseteq ends
       ELSE /\ c = [Forward(c.type, c.lo, c.hi, c.dport, c.target, c.protocol, c.version)
                        EXCEPT !.enabled = c.enabled, !.snat = c.snat, !.comment = c.comment,
                               !.quota = c.quota]
            /\ c.lo \in Ports /\ c.protocol \in Protocols /\ c.version \in IpVersions
            /\ \/ c.type = "single" /\ c.hi = NoPort /\ c.dport \in Ports
               \/ c.type = "range" /\ c.hi \in Ports /\ c.dport = NoPort
               \/ c.type = "redirect" /\ c.hi \in ends /\ c.dport \in Ports /\ c.target = "localhost"

\* Drop rules cannot be switched off and have neither quota nor SNAT address.
Enabled(c) == IsForward(c) => c.enabled
SetEnabled(c, v) == IF IsForward(c) THEN [c EXCEPT !.enabled = v] ELSE c
QuotaOf(c) == IF IsForward(c) THEN c.quota ELSE NoQuota
SetQuota(c, q) == IF IsForward(c) THEN [c EXCEPT !.quota = q] ELSE c
SnatOf(c) == IF c.type \in {"single", "range"} THEN c.snat ELSE NoText

------------------------------------------------------------------------------
(* NftCell::validate                                                        *)

PortOk(p) == p # 0
PortRangeOk(lo, hi) == PortOk(lo) /\ (hi # NoPort => PortOk(hi) /\ lo < hi)
SnatOk(c) == c.snat = NoText \/ (c.snat \in V4 /\ c.version = "ipv4")
AddressOk(a) == a = NoText \/ a \in Addresses

DropValid(c) ==
    /\ <<c.src, c.dst>> # <<NoText, NoText>> \/ c.slo # NoPort \/ c.dlo # NoPort
    /\ c.slo # NoPort => PortRangeOk(c.slo, c.shi)
    /\ c.dlo # NoPort => PortRangeOk(c.dlo, c.dhi)
    /\ AddressOk(c.src) /\ AddressOk(c.dst)

Valid(c) ==
    CASE c.type = "single"   -> c.target # NoText /\ PortOk(c.lo) /\ PortOk(c.dport) /\ SnatOk(c)
      [] c.type = "range"    -> c.target # NoText /\ PortRangeOk(c.lo, c.hi) /\ SnatOk(c)
      [] c.type = "redirect" -> PortRangeOk(c.lo, c.hi) /\ PortOk(c.dport)
      [] c.type = "drop"     -> DropValid(c)

------------------------------------------------------------------------------
(* The legacy line: TryFrom<&str> and Display.                              *)

W(w)       == [k |-> "word", v |-> w]
N(n)       == [k |-> "number", v |-> n]
R(lo, hi)  == [k |-> "range", v |-> <<lo, hi>>]
A(a)       == [k |-> "address", v |-> a]
KV(key, f) == [k |-> "pair", v |-> <<key, f>>]

IsWord(f, words) == f.k = "word" /\ f.v \in words
AsText(f) == IF f.k \in {"word", "address"} THEN f.v ELSE NoText
IsPort(f) == f.k = "number" /\ f.v \in Ports
IsPortRange(f) == f.k = "range" /\ f.v[1] \in Ports /\ f.v[2] \in Ports
Field(line, n, default) == IF Len(line) >= n THEN AsText(line[n]) ELSE default

Invalid == [type |-> "invalid"]
Skip    == [type |-> "skip"]

Key(f) == IF f.k = "pair" THEN f.v[1] ELSE NoText
LastAt(S) == CHOOSE n \in S : \A m \in S : m <= n

\* A repeated parameter overwrites the one before it; a single port leaves
\* the end that an earlier range of the same key set.
ParseDrop(line) ==
    LET at == 3..Len(line)
        Of(key)  == {n \in at : Key(line[n]) = key}
        Ends(key) == {n \in Of(key) : line[n].v[2].k = "range"}
        Text(key) == IF Of(key) = {} THEN NoText ELSE AsText(line[LastAt(Of(key))].v[2])
        First(f) == IF f.k = "range" THEN f.v[1] ELSE f.v
        Lo(key) == IF Of(key) = {} THEN NoPort ELSE First(line[LastAt(Of(key))].v[2])
        Hi(key) == IF Ends(key) = {} THEN NoPort ELSE line[LastAt(Ends(key))].v[2].v[2]
        words == {n \in at : IsWord(line[n], Protocols)}
        wellFormed == \A n \in at : line[n].k = "pair" =>
                        /\ Key(line[n]) \in {"src_ip", "dst_ip", "src_port", "dst_port"}
                        /\ Key(line[n]) \in {"src_port", "dst_port"} =>
                              IsPort(line[n].v[2]) \/ IsPortRange(line[n].v[2])
    IN IF Len(line) < 3 \/ ~wellFormed THEN Invalid
       ELSE Drop(AsChain(AsText(line[2])), Text("src_ip"), Text("dst_ip"),
                 Lo("src_port"), Hi("src_port"), Lo("dst_port"), Hi("dst_port"),
                 IF words = {} THEN "all" ELSE line[LastAt(words)].v)

\* SINGLE,sport,dport,target[,protocol[,version]] and RANGE alike: IPv4 is the
\* default of a line, whereas a TOML rule without ip_version is "all".
ParseNat(line) ==
    IF Len(line) \notin 4..6 \/ ~IsPort(line[2]) \/ ~IsPort(line[3]) THEN Invalid
    ELSE LET protocol == AsProtocol(Field(line, 5, "all"))
             version  == AsVersion(Field(line, 6, "ipv4"))
         IN IF line[1].v = "SINGLE"
            THEN Single(line[2].v, line[3].v, AsText(line[4]), protocol, version)
            ELSE RangeCell(line[2].v, line[3].v, AsText(line[4]), protocol, version)

ParseRedirect(line) ==
    IF \/ Len(line) \notin 3..5
       \/ ~IsPort(line[2]) /\ ~IsPortRange(line[2])
       \/ ~IsPort(line[3])
    THEN Invalid
    ELSE LET ends == IF line[2].k = "range" THEN line[2].v ELSE <<line[2].v, NoPort>>
         IN Redirect(ends[1], ends[2], line[3].v,
                     AsProtocol(Field(line, 4, "all")), AsVersion(Field(line, 5, "ipv4")))

ParseLine(line) ==
    IF line = <<>> THEN Skip
    ELSE CASE IsWord(line[1], {"#"})               -> Skip
           [] IsWord(line[1], {"DROP"})            -> ParseDrop(line)
           [] IsWord(line[1], {"SINGLE", "RANGE"}) -> ParseNat(line)
           [] IsWord(line[1], {"REDIRECT"})        -> ParseRedirect(line)
           [] OTHER                                -> Invalid

PortField(lo, hi) == IF hi = NoPort THEN N(lo) ELSE R(lo, hi)
TargetField(t) == IF t \in Addresses THEN A(t) ELSE W(t)

\* The versions left out, as in the shortest lines.
DisplayShort(c) ==
    IF c.type \in {"single", "range"}
    THEN <<W(IF c.type = "single" THEN "SINGLE" ELSE "RANGE"), N(c.lo),
           N(IF c.type = "single" THEN c.dport ELSE c.hi), TargetField(c.target), W(c.protocol)>>
    ELSE <<W("#")>>

Display(c) ==
    LET If(test, field) == IF test THEN <<field>> ELSE <<>>
    IN CASE c.type = "single"   -> <<W("SINGLE"), N(c.lo), N(c.dport), TargetField(c.target),
                                     W(c.protocol), W(c.version)>>
         [] c.type = "range"    -> <<W("RANGE"), N(c.lo), N(c.hi), TargetField(c.target),
                                     W(c.protocol), W(c.version)>>
         [] c.type = "redirect" -> <<W("REDIRECT"), PortField(c.lo, c.hi), N(c.dport),
                                     W(c.protocol), W(c.version)>>
         [] c.type = "drop"     -> <<W("DROP"), W(c.chain)>>
                \o If(c.src # NoText, KV("src_ip", A(c.src)))
                \o If(c.dst # NoText, KV("dst_ip", A(c.dst)))
                \o If(c.slo # NoPort, KV("src_port", PortField(c.slo, c.shi)))
                \o If(c.dlo # NoPort, KV("dst_port", PortField(c.dlo, c.dhi)))
                \o <<W(c.protocol)>>

\* validate_legacy_config accepts the whole file or refuses it; read_config,
\* which the service uses, drops the lines it cannot parse and validates none.
LegacyValid(lines) ==
    \A n \in 1..Len(lines) : LET c == ParseLine(lines[n])
                             IN c.type = "skip" \/ (c.type # "invalid" /\ Valid(c))
ReadLegacy(lines) ==
    LET parsed == [n \in 1..Len(lines) |-> ParseLine(lines[n])]
    IN Filtered(parsed, {n \in DOMAIN parsed : parsed[n].type \notin {"skip", "invalid"}})

\* What a line can say of a cell: comment, switch, quota and SNAT address are
\* only in the TOML file, and so is the end of a port range that has no start.
InLine(c) ==
    IF IsForward(c)
    THEN [c EXCEPT !.enabled = TRUE, !.snat = NoText, !.comment = NoText, !.quota = NoQuota]
    ELSE Drop(c.chain, c.src, c.dst, c.slo, IF c.slo = NoPort THEN NoPort ELSE c.shi,
              c.dlo, IF c.dlo = NoPort THEN NoPort ELSE c.dhi, c.protocol)

------------------------------------------------------------------------------
(* Identity in the last-good cache (rule_key_for_cell).  The key is made of *)
(* the fields that decide where traffic goes, not of the position.          *)

NoKey == <<>>
RuleKey(c) ==
    IF c.type \in {"single", "range"} /\ c.target \notin Addresses
    THEN <<c.type, c.lo, IF c.type = "single" THEN c.dport ELSE c.hi,
           c.protocol, c.version, c.target>>
    ELSE NoKey

\* The enabled rules, in the order of the file.
EnabledRules(rules) == Filtered(rules, {n \in 1..Len(rules) : Enabled(rules[n])})

\* identities_from_rules: positions count the enabled rules only.
Identities(rules) ==
    LET live == EnabledRules(rules)
    IN {[id |-> n - 1, key |-> RuleKey(live[n]), domain |-> live[n].target] :
            n \in {m \in 1..Len(live) : RuleKey(live[m]) # NoKey}}
=============================================================================
