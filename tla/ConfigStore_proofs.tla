-------------------------- MODULE ConfigStore_proofs --------------------------
(***************************************************************************)
(* What several writers of one file do to it, for any menus, operations,   *)
(* configurations, failures and kills: the seven properties of ConfigStore. *)
(*                                                                         *)
(* First what each operation of RuleEdit and PolicyEdit does to a sound    *)
(* configuration: it changes one section, and leaves it sound.  Then the   *)
(* invariant, IInv: a process that is about to save holds a sound change   *)
(* of what it loaded (Prepared), where the file is no longer what it       *)
(* loaded someone else wrote (UpToDate), what it replaces is backed up     *)
(* (Secured), and its temporary file is its copy (Filled).                 *)
(***************************************************************************)
EXTENDS ConfigStore, TLAPS

Sound(c) == Shaped(c) /\ ConfigValid(c)

\* What it takes for one section.
RulesSound(rules) ==
    IsList(rules) /\ \A n \in DOMAIN rules : CellShaped(rules[n]) /\ Valid(rules[n])
DomainsShaped(domains) ==
    IsList(domains) /\ \A n \in DOMAIN domains : HasFields(domains[n], DomainFields)
PartSound(f, x) ==
    /\ f \in DOMAIN Fields => HasFields(x, Fields[f])
    /\ f = "rules" => RulesSound(x)
    /\ f = "access" => AccessValid(x)
    /\ f = "dw" => DynamicValid(x) /\ DomainsShaped(x.domains)
    /\ f = "geo" => GeoValid(x)
    /\ f = "egress" => EgressValid(x)
    /\ f = "snat" => SnatValid(x)
    /\ f = "mss" => MssValid(x)

\* The two differ in one section at most.
Only(f, c, new) == HasFields(new, Sections) /\ \A g \in Sections \ {f} : new[g] = c[g]

\* The sections and their fields, spelled out.
LEMMA SectionNames ==
    /\ DOMAIN Fields = {"access", "dw", "geo", "egress", "snat", "mss", "telegram"}
    /\ Sections = {"access", "dw", "geo", "egress", "snat", "mss", "telegram",
                   "global", "rules", "traffic", "timezone"}
    /\ Fields["access"] = {"mode", "entries"}
    /\ Fields["dw"] = {"enabled", "interval", "cidr", "domains"}
    /\ Fields["geo"] = {"enabled", "forward", "ssh", "sshPort", "hours"}
    /\ Fields["egress"] = {"enabled", "allowed"}
    /\ Fields["snat"] = {"mode", "fixed"}
    /\ Fields["mss"] = {"enabled", "size"}
    /\ Fields["telegram"] = {"enabled", "token", "minutes"}
BY DEF Sections, Fields

\* A configuration is sound when each of its sections is.
LEMMA SoundInParts ==
    ASSUME NEW c
    PROVE  Sound(c) <=> HasFields(c, Sections) /\ \A f \in Sections : PartSound(f, c[f])
<1>1. ASSUME Sound(c), NEW f \in Sections
      PROVE  PartSound(f, c[f])
  BY <1>1, SectionNames DEF Sound, Shaped, ConfigValid, PartSound, RulesSound, DomainsShaped
<1>2. ASSUME HasFields(c, Sections), \A f \in Sections : PartSound(f, c[f])
      PROVE  Sound(c)
  <2>1. \A f \in DOMAIN Fields : HasFields(c[f], Fields[f])
    BY <1>2, SectionNames DEF PartSound
  <2>2. IsList(c.rules) /\ \A n \in DOMAIN c.rules : CellShaped(c.rules[n]) /\ Valid(c.rules[n])
    BY <1>2, SectionNames DEF PartSound, RulesSound
  <2>3. AccessValid(c.access) /\ DynamicValid(c.dw) /\ DomainsShaped(c.dw.domains) /\ GeoValid(c.geo)
    BY <1>2, SectionNames DEF PartSound
  <2>4. EgressValid(c.egress) /\ SnatValid(c.snat) /\ MssValid(c.mss)
    BY <1>2, SectionNames DEF PartSound
  <2> QED BY <1>2, <2>1, <2>2, <2>3, <2>4 DEF Sound, Shaped, ConfigValid, DomainsShaped
<1> QED BY <1>1, <1>2 DEF Sound, Shaped

------------------------------------------------------------------------------
(* Lists and sections.                                                      *)

\* A function on 1..k is a sequence.
LEMMA SeqOfFunction ==
    ASSUME NEW S, NEW k \in Nat, NEW f, f = [n \in 1..k |-> f[n]], \A n \in 1..k : f[n] \in S
    PROVE  f \in Seq(S)
OBVIOUS

\* A sequence is a list whatever it is over.
LEMMA ListOf ==
    ASSUME NEW S, NEW s \in Seq(S)
    PROVE  IsList(s)
<1>1. s = [n \in 1..Len(s) |-> s[n]] /\ Len(s) \in Nat /\ DOMAIN s = 1..Len(s)
  OBVIOUS
<1> DEFINE items == {s[n] : n \in DOMAIN s}
<1>2. \A n \in 1..Len(s) : s[n] \in items
  BY <1>1
<1> HIDE DEF items
<1>3. s \in Seq(items)
  BY <1>1, <1>2, SeqOfFunction
<1> QED BY <1>3 DEF IsList, items

\* Lists: one item more,
LEMMA ListAppended ==
    ASSUME NEW s, IsList(s), NEW d
    PROVE  /\ IsList(Append(s, d))
           /\ \A n \in DOMAIN Append(s, d) :
                (n \in DOMAIN s /\ Append(s, d)[n] = s[n]) \/ Append(s, d)[n] = d
<1> DEFINE S == {s[n] : n \in DOMAIN s} \cup {d}
<1>1. s \in Seq(S)
  BY DEF IsList
<1> HIDE DEF S
<1>2. d \in S
  BY DEF S
<1>3. Append(s, d) \in Seq(S)
  BY <1>1, <1>2
<1>4. \A n \in DOMAIN Append(s, d) :
                (n \in DOMAIN s /\ Append(s, d)[n] = s[n]) \/ Append(s, d)[n] = d
  BY <1>1, <1>2
<1> QED BY <1>3, <1>4, ListOf

\* one less (Vec::remove),
LEMMA ListRemoved ==
    ASSUME NEW s, IsList(s), NEW i \in DOMAIN s
    PROVE  /\ IsList(SE!RemoveAt(s, i))
           /\ \A n \in DOMAIN SE!RemoveAt(s, i) :
                \E m \in DOMAIN s : SE!RemoveAt(s, i)[n] = s[m]
<1> DEFINE S == {s[n] : n \in DOMAIN s}
           a == SubSeq(s, 1, i - 1)
           b == SubSeq(s, i + 1, Len(s))
<1>0. s \in Seq(S)
  BY DEF IsList
<1> HIDE DEF S
<1>1. /\ a \in Seq(S) /\ Len(a) = i - 1
      /\ \A n \in 1..(i - 1) : a[n] = s[n]
  BY <1>0
<1>2. /\ b \in Seq(S) /\ Len(b) = Len(s) - i
      /\ \A n \in 1..(Len(s) - i) : b[n] = s[n + i]
  BY <1>0
<1>3. SE!RemoveAt(s, i) = a \o b
  BY DEF SE!RemoveAt
<1> HIDE DEF a, b
<1>4. /\ a \o b \in Seq(S) /\ DOMAIN (a \o b) = 1..(Len(a) + Len(b))
      /\ \A n \in 1..(Len(a) + Len(b)) :
           (a \o b)[n] = IF n <= Len(a) THEN a[n] ELSE b[n - Len(a)]
  <2>1. a \in Seq(S) /\ b \in Seq(S)
    BY <1>1, <1>2
  <2> QED BY <2>1
<1>5. ASSUME NEW n \in DOMAIN (a \o b)
      PROVE  \E m \in DOMAIN s : (a \o b)[n] = s[m]
  <2>1. CASE n <= Len(a)
    <3>1. n \in 1..(i - 1) /\ n \in DOMAIN s /\ (a \o b)[n] = a[n]
      BY <2>1, <1>0, <1>1, <1>2, <1>4
    <3> QED BY <3>1, <1>1
  <2>2. CASE ~(n <= Len(a))
    <3>1. /\ n - Len(a) \in 1..(Len(s) - i) /\ (n - Len(a)) + i \in DOMAIN s
          /\ (a \o b)[n] = b[n - Len(a)]
      BY <2>2, <1>0, <1>1, <1>2, <1>4
    <3> QED BY <3>1, <1>2
  <2> QED BY <2>1, <2>2
<1> QED BY <1>3, <1>4, <1>5, ListOf

\* one replaced,
LEMMA ListUpdated ==
    ASSUME NEW s, IsList(s), NEW i \in DOMAIN s, NEW x, NEW t, t = [s EXCEPT ![i] = x]
    PROVE  /\ IsList(t) /\ DOMAIN t = DOMAIN s /\ t[i] = x
           /\ \A n \in DOMAIN s \ {i} : t[n] = s[n]
<1> DEFINE S == {s[n] : n \in DOMAIN s} \cup {x}
<1>1. s \in Seq(S)
  BY DEF IsList
<1>2. x \in S
  OBVIOUS
<1> HIDE DEF S
<1>3. t \in Seq(S)
  BY <1>1, <1>2
<1>4. /\ DOMAIN t = DOMAIN s /\ t[i] = x
      /\ \A n \in DOMAIN s \ {i} : t[n] = s[n]
  BY <1>1
<1> QED BY <1>3, <1>4, ListOf

\* each replaced.
LEMMA ListMapped ==
    ASSUME NEW s, IsList(s), NEW t, t = [n \in DOMAIN s |-> t[n]]
    PROVE  IsList(t)
<1>1. DOMAIN s = 1..Len(s) /\ Len(s) \in Nat
  BY DEF IsList
<1> DEFINE S == {t[n] : n \in DOMAIN s}
<1>2. \A n \in 1..Len(s) : t[n] \in S
  BY <1>1
<1> HIDE DEF S
<1>3. t \in Seq(S)
  BY <1>1, <1>2, SeqOfFunction
<1> QED BY <1>3, ListOf

\* A change of one section that leaves it sound leaves the whole sound.
LEMMA ChangedSection ==
    ASSUME NEW c, Sound(c), NEW f \in Sections, NEW v, NEW new, new = [c EXCEPT ![f] = v]
    PROVE  Only(f, c, new) /\ (PartSound(f, v) => Sound(new))
<1>1. HasFields(c, Sections) /\ \A g \in Sections : PartSound(g, c[g])
  BY SoundInParts
<1>2. HasFields(new, Sections) /\ new[f] = v /\ \A g \in Sections \ {f} : new[g] = c[g]
  BY <1>1 DEF HasFields
<1> QED BY <1>1, <1>2, SoundInParts DEF Only

------------------------------------------------------------------------------
(* The operations on the policies, one section each.                        *)

Edits(f, c, new) == Only(f, c, new) /\ Sound(new)

\* The same for an edit that is only known by its sections.
LEMMA PartEdited ==
    ASSUME NEW c, Sound(c), NEW f \in Sections, NEW new, Only(f, c, new), PartSound(f, new[f])
    PROVE  Edits(f, c, new)
<1>1. HasFields(c, Sections) /\ \A g \in Sections : PartSound(g, c[g])
  BY SoundInParts
<1> QED BY <1>1, SoundInParts DEF Edits, Only

\* Each page changes its own section and leaves the configuration sound: GeoIP,
LEMMA GeoEdited ==
    ASSUME NEW c, Sound(c), NEW new,
           \/ \E yes : new \in ToggleGeoForward(c, yes)
           \/ \E yes : new \in ToggleGeoSsh(c, yes)
           \/ \E port : new \in SetSshPort(c, port)
           \/ \E hours : new \in SetGeoHours(c, hours)
    PROVE  Edits("geo", c, new)
<1>1. HasFields(c, Sections) /\ PartSound("geo", c.geo)
  BY SoundInParts, SectionNames
<1>2. Only("geo", c, new)
  BY <1>1 DEF ToggleGeoForward, ToggleGeoSsh, SetSshPort, SetGeoHours, When, Only, HasFields
<1>3. PartSound("geo", new.geo)
  <2>1. ASSUME NEW yes, new \in ToggleGeoForward(c, yes)
        PROVE  PartSound("geo", new.geo)
    <3>1. new.geo = [c.geo EXCEPT !.enabled = @ \/ ~c.geo.forward, !.forward = ~@]
      BY <1>1, <2>1, SectionNames DEF ToggleGeoForward, When, HasFields
    <3> QED BY <1>1, <3>1, SectionNames DEF PartSound, HasFields, GeoValid
  <2>2. ASSUME NEW yes, new \in ToggleGeoSsh(c, yes)
        PROVE  PartSound("geo", new.geo)
    <3>1. new.geo = [c.geo EXCEPT !.enabled = @ \/ ~c.geo.ssh, !.ssh = ~@]
      BY <1>1, <2>2, SectionNames DEF ToggleGeoSsh, When, HasFields
    <3> QED BY <1>1, <3>1, SectionNames DEF PartSound, HasFields, GeoValid
  <2>3. ASSUME NEW port, new \in SetSshPort(c, port)
        PROVE  PartSound("geo", new.geo)
    <3>1. new.geo = [c.geo EXCEPT !.sshPort = port] /\ port # 0
      BY <1>1, <2>3, SectionNames DEF SetSshPort, When, HasFields
    <3> QED BY <1>1, <3>1, SectionNames DEF PartSound, HasFields, GeoValid
  <2>4. ASSUME NEW hours, new \in SetGeoHours(c, hours)
        PROVE  PartSound("geo", new.geo)
    <3>1. new.geo = [c.geo EXCEPT !.hours = hours] /\ hours # 0
      BY <1>1, <2>4, SectionNames DEF SetGeoHours, When, HasFields
    <3> QED BY <1>1, <3>1, SectionNames DEF PartSound, HasFields, GeoValid
  <2> QED BY <2>1, <2>2, <2>3, <2>4
<1> QED BY <1>2, <1>3, PartEdited, SectionNames

\* the egress page,
LEMMA EgressEdited ==
    ASSUME NEW c, Sound(c), NEW new,
           \/ \E yes : new \in ToggleEgress(c, yes)
           \/ \E e : new \in AddEgress(c, e)
           \/ \E e : new \in DeleteEgress(c, e)
    PROVE  Edits("egress", c, new)
<1>1. HasFields(c, Sections) /\ PartSound("egress", c.egress)
  BY SoundInParts, SectionNames
<1>2. Only("egress", c, new)
  BY <1>1 DEF ToggleEgress, AddEgress, DeleteEgress, When, Only, HasFields
<1>3. PartSound("egress", new.egress)
  <2>1. ASSUME NEW yes, new \in ToggleEgress(c, yes)
        PROVE  PartSound("egress", new.egress)
    <3>1. new.egress = [c.egress EXCEPT !.enabled = ~@]
      BY <1>1, <2>1, SectionNames DEF ToggleEgress, When, HasFields
    <3> QED BY <1>1, <3>1, SectionNames DEF PartSound, HasFields, EgressValid
  <2>2. ASSUME NEW e, new \in AddEgress(c, e)
        PROVE  PartSound("egress", new.egress)
    <3>1. new.egress = [c.egress EXCEPT !.allowed = @ \cup {e}] /\ e \in Addresses
      BY <1>1, <2>2, SectionNames DEF AddEgress, When, HasFields
    <3> QED BY <1>1, <3>1, SectionNames DEF PartSound, HasFields, EgressValid
  <2>3. ASSUME NEW e, new \in DeleteEgress(c, e)
        PROVE  PartSound("egress", new.egress)
    <3>1. new.egress = [c.egress EXCEPT !.allowed = @ \ {e}]
      BY <1>1, <2>3, SectionNames DEF DeleteEgress, When, HasFields
    <3> QED BY <1>1, <3>1, SectionNames DEF PartSound, HasFields, EgressValid
  <2> QED BY <2>1, <2>2, <2>3
<1> QED BY <1>2, <1>3, PartEdited, SectionNames

\* the SNAT page, where "fixed" keeps an address,
LEMMA SnatEdited ==
    ASSUME NEW c, Sound(c), NEW new,
           \/ \E mode, address, yes : new \in SetSnatMode(c, mode, address, yes)
           \/ \E address : new \in SetFixedSource(c, address)
    PROVE  Edits("snat", c, new)
<1>1. HasFields(c, Sections) /\ PartSound("snat", c.snat)
  BY SoundInParts, SectionNames
<1>2. Only("snat", c, new)
  BY <1>1 DEF SetSnatMode, SetFixedSource, When, Only, HasFields
<1>3. PartSound("snat", new.snat)
  <2>1. ASSUME NEW mode, NEW address, NEW yes, new \in SetSnatMode(c, mode, address, yes)
        PROVE  PartSound("snat", new.snat)
    <3>1. /\ new.snat = [c.snat EXCEPT !.mode = mode,
                            !.fixed = IF mode = "fixed" /\ c.snat.fixed = NoText THEN address ELSE @]
          /\ SnatValid(new.snat)
      BY <1>1, <2>1, SectionNames DEF SetSnatMode, When, HasFields
    <3> QED BY <1>1, <3>1, SectionNames DEF PartSound, HasFields, SnatValid
  <2>2. ASSUME NEW address, new \in SetFixedSource(c, address)
        PROVE  PartSound("snat", new.snat)
    <3>1. /\ new.snat = [c.snat EXCEPT !.fixed = address]
          /\ IF address = NoText THEN c.snat.mode # "fixed" ELSE address \in V4
      BY <1>1, <2>2, SectionNames DEF SetFixedSource, When, HasFields
    <3> QED BY <1>1, <3>1, SectionNames DEF PartSound, HasFields, SnatValid
  <2> QED BY <2>1, <2>2
<1> QED BY <1>2, <1>3, PartEdited, SectionNames

\* the MSS page,
LEMMA MssEdited ==
    ASSUME NEW c, Sound(c), NEW new,
           \/ \E yes : new \in ToggleMss(c, yes)
           \/ \E size : new \in SetMssSize(c, size)
    PROVE  Edits("mss", c, new)
<1>1. HasFields(c, Sections) /\ PartSound("mss", c.mss)
  BY SoundInParts, SectionNames
<1>2. Only("mss", c, new)
  BY <1>1 DEF ToggleMss, SetMssSize, When, Only, HasFields
<1>3. PartSound("mss", new.mss)
  <2>1. ASSUME NEW yes, new \in ToggleMss(c, yes)
        PROVE  PartSound("mss", new.mss)
    <3>1. new.mss = [c.mss EXCEPT !.enabled = ~@]
      BY <1>1, <2>1, SectionNames DEF ToggleMss, When, HasFields
    <3> QED BY <1>1, <3>1, SectionNames DEF PartSound, HasFields, MssValid
  <2>2. ASSUME NEW size, new \in SetMssSize(c, size)
        PROVE  PartSound("mss", new.mss)
    <3>1. new.mss = [c.mss EXCEPT !.size = size] /\ MssValid(new.mss)
      BY <1>1, <2>2, SectionNames DEF SetMssSize, When, HasFields
    <3> QED BY <1>1, <3>1, SectionNames DEF PartSound, HasFields, MssValid
  <2> QED BY <2>1, <2>2
<1> QED BY <1>2, <1>3, PartEdited, SectionNames

\* the Telegram page,
LEMMA TelegramEdited ==
    ASSUME NEW c, Sound(c), NEW new,
           \/ \E token, enable : new \in ConfigureTelegram(c, token, enable)
           \/ \E on : new \in SwitchTelegram(c, on)
           \/ \E minutes : new \in SetTelegramMinutes(c, minutes)
    PROVE  Edits("telegram", c, new)
<1>1. HasFields(c, Sections) /\ PartSound("telegram", c.telegram)
  BY SoundInParts, SectionNames
<1>2. Only("telegram", c, new)
  BY <1>1 DEF ConfigureTelegram, SwitchTelegram, SetTelegramMinutes, When, Only, HasFields
<1>3. PartSound("telegram", new.telegram)
  <2>1. ASSUME NEW token, NEW enable, new \in ConfigureTelegram(c, token, enable)
        PROVE  PartSound("telegram", new.telegram)
    <3>1. new.telegram = [c.telegram EXCEPT !.token = token, !.enabled = @ \/ enable]
      BY <1>1, <2>1, SectionNames DEF ConfigureTelegram, When, HasFields
    <3> QED BY <1>1, <3>1, SectionNames DEF PartSound, HasFields, Fields
  <2>2. ASSUME NEW on, new \in SwitchTelegram(c, on)
        PROVE  PartSound("telegram", new.telegram)
    <3>1. new.telegram = [c.telegram EXCEPT !.enabled = on]
      BY <1>1, <2>2, SectionNames DEF SwitchTelegram, When, HasFields
    <3> QED BY <1>1, <3>1, SectionNames DEF PartSound, HasFields, Fields
  <2>3. ASSUME NEW minutes, new \in SetTelegramMinutes(c, minutes)
        PROVE  PartSound("telegram", new.telegram)
    <3>1. new.telegram = [c.telegram EXCEPT !.minutes = minutes]
      BY <1>1, <2>3, SectionNames DEF SetTelegramMinutes, When, HasFields
    <3> QED BY <1>1, <3>1, SectionNames DEF PartSound, HasFields, Fields
  <2> QED BY <2>1, <2>2, <2>3
<1> QED BY <1>2, <1>3, PartEdited, SectionNames

\* the SSH source taken into the list,
LEMMA AccessEdited ==
    ASSUME NEW c, Sound(c), NEW e, NEW yes, NEW new \in AddSshSource(c, e, yes)
    PROVE  Edits("access", c, new)
<1>1. HasFields(c, Sections) /\ PartSound("access", c.access)
  BY SoundInParts, SectionNames
<1>2. Only("access", c, new)
  BY <1>1 DEF AddSshSource, When, Only, HasFields
<1>3. new.access = [c.access EXCEPT !.entries = @ \cup {e}] /\ e \in Addresses
  BY <1>1, SectionNames DEF AddSshSource, When, HasFields
<1>4. PartSound("access", new.access)
  BY <1>1, <1>3, SectionNames DEF PartSound, HasFields, AccessValid
<1> QED BY <1>2, <1>4, PartEdited, SectionNames

\* One field of one item replaced.
LEMMA ListFieldUpdated ==
    ASSUME NEW s, IsList(s), NEW i \in DOMAIN s, NEW f, NEW v, NEW t, t = [s EXCEPT ![i][f] = v]
    PROVE  /\ IsList(t) /\ DOMAIN t = DOMAIN s
           /\ t[i] = [s[i] EXCEPT ![f] = v]
           /\ \A n \in DOMAIN s \ {i} : t[n] = s[n]
<1> DEFINE x == [s[i] EXCEPT ![f] = v]
<1>1. t = [s EXCEPT ![i] = x]
  OBVIOUS
<1> HIDE DEF x
<1>2. /\ IsList(t) /\ DOMAIN t = DOMAIN s /\ t[i] = x
      /\ \A n \in DOMAIN s \ {i} : t[n] = s[n]
  BY ONLY IsList(s), i \in DOMAIN s, <1>1, ListUpdated
<1> QED BY <1>2 DEF x

\* One field of a record replaced.
LEMMA ChangedField ==
    ASSUME NEW r, NEW fields, HasFields(r, fields), NEW f \in fields, NEW v, NEW new,
           new = [r EXCEPT ![f] = v]
    PROVE  HasFields(new, fields) /\ new[f] = v /\ \A g \in fields \ {f} : new[g] = r[g]
BY DEF HasFields

\* The DDNS page: a domain more,
LEMMA DomainAdded ==
    ASSUME NEW c, Sound(c), NEW d, HasFields(d, DomainFields), NEW new \in AddDomain(c, d)
    PROVE  Edits("dw", c, new)
<1>1. HasFields(c, Sections) /\ PartSound("dw", c.dw)
  BY SoundInParts, SectionNames
<1>2. Only("dw", c, new)
  BY <1>1 DEF AddDomain, When, Only, HasFields
<1>3. new.dw = [c.dw EXCEPT !.domains = Append(@, d)] /\ DynamicValid(new.dw)
  BY <1>1, SectionNames DEF AddDomain, When, HasFields
<1>4. HasFields(c.dw, Fields["dw"]) /\ DomainsShaped(c.dw.domains)
  BY <1>1, SectionNames DEF PartSound
<1>5. HasFields(new.dw, Fields["dw"]) /\ new.dw.domains = Append(c.dw.domains, d)
  BY <1>3, <1>4, SectionNames DEF HasFields
<1>6. PartSound("dw", new.dw)
  <2>1. DomainsShaped(new.dw.domains)
    BY <1>4, <1>5, ListAppended DEF DomainsShaped
  <2> QED BY <1>3, <1>5, <2>1, SectionNames DEF PartSound
<1> QED BY <1>2, <1>6, PartEdited, SectionNames

\* one less,
LEMMA DomainDeleted ==
    ASSUME NEW c, Sound(c), NEW n, NEW new \in DeleteDomain(c, n)
    PROVE  Edits("dw", c, new)
<1>1. HasFields(c, Sections) /\ PartSound("dw", c.dw)
  BY SoundInParts, SectionNames
<1>2. Only("dw", c, new)
  BY <1>1 DEF DeleteDomain, When, Only, HasFields
<1>3. new.dw = [c.dw EXCEPT !.domains = SE!RemoveAt(@, n)] /\ n \in DOMAIN c.dw.domains
  BY <1>1, SectionNames DEF DeleteDomain, When, HasFields
<1>4. HasFields(c.dw, Fields["dw"]) /\ DomainsShaped(c.dw.domains) /\ DynamicValid(c.dw)
  BY <1>1, SectionNames DEF PartSound
<1>5. /\ HasFields(new.dw, Fields["dw"]) /\ new.dw.domains = SE!RemoveAt(c.dw.domains, n)
      /\ new.dw.interval = c.dw.interval /\ new.dw.cidr = c.dw.cidr
  BY <1>3, <1>4, SectionNames DEF HasFields
<1>6. IsList(new.dw.domains) /\ \A k \in DOMAIN new.dw.domains :
        \E m \in DOMAIN c.dw.domains : new.dw.domains[k] = c.dw.domains[m]
  BY <1>3, <1>4, <1>5, ListRemoved DEF DomainsShaped
<1>7. DynamicValid(new.dw)
  BY <1>4, <1>5, <1>6 DEF DynamicValid
<1>8. PartSound("dw", new.dw)
  BY <1>4, <1>5, <1>6, <1>7, SectionNames DEF PartSound, DomainsShaped
<1> QED BY <1>2, <1>8, PartEdited, SectionNames

\* one switched,
LEMMA DomainToggled ==
    ASSUME NEW c, Sound(c), NEW n, NEW new \in ToggleDomain(c, n)
    PROVE  Edits("dw", c, new)
<1> DEFINE v == ~c.dw.domains[n].enabled
<1>1. HasFields(c, Sections) /\ PartSound("dw", c.dw)
  BY SoundInParts, SectionNames
<1>2. Only("dw", c, new)
  BY <1>1 DEF ToggleDomain, Only, HasFields
<1>3. new.dw = [c.dw EXCEPT !.domains[n].enabled = v] /\ n \in DOMAIN c.dw.domains
  BY <1>1, SectionNames DEF ToggleDomain, HasFields
<1>4. HasFields(c.dw, Fields["dw"]) /\ DomainsShaped(c.dw.domains) /\ DynamicValid(c.dw)
  BY <1>1, SectionNames DEF PartSound
<1> HIDE DEF v
<1>5. /\ HasFields(new.dw, Fields["dw"]) /\ new.dw.domains = [c.dw.domains EXCEPT ![n].enabled = v]
      /\ new.dw.interval = c.dw.interval /\ new.dw.cidr = c.dw.cidr
  BY <1>3, <1>4, SectionNames DEF HasFields
<1>6. /\ IsList(new.dw.domains) /\ DOMAIN new.dw.domains = DOMAIN c.dw.domains
      /\ new.dw.domains[n] = [c.dw.domains[n] EXCEPT !.enabled = v]
      /\ \A k \in DOMAIN c.dw.domains \ {n} : new.dw.domains[k] = c.dw.domains[k]
  BY <1>3, <1>4, <1>5, ListFieldUpdated DEF DomainsShaped
<1>7. \A k \in DOMAIN new.dw.domains :
        /\ HasFields(new.dw.domains[k], DomainFields)
        /\ new.dw.domains[k].name = c.dw.domains[k].name
        /\ new.dw.domains[k].domain = c.dw.domains[k].domain
  <2>1. HasFields(c.dw.domains[n], DomainFields)
    BY <1>3, <1>4 DEF DomainsShaped
  <2>2. /\ HasFields(new.dw.domains[n], DomainFields)
        /\ \A g \in DomainFields \ {"enabled"} : new.dw.domains[n][g] = c.dw.domains[n][g]
    BY <1>6, <2>1, ChangedField DEF DomainFields
  <2>3. /\ new.dw.domains[n].name = c.dw.domains[n].name
        /\ new.dw.domains[n].domain = c.dw.domains[n].domain
    BY <2>2 DEF DomainFields
  <2> QED BY <1>4, <1>6, <2>2, <2>3 DEF DomainsShaped
<1>8. DynamicValid(new.dw)
  BY <1>4, <1>5, <1>6, <1>7 DEF DynamicValid, DomainValid
<1>9. PartSound("dw", new.dw)
  BY <1>5, <1>6, <1>7, <1>8, SectionNames DEF PartSound, DomainsShaped
<1> QED BY <1>2, <1>9, PartEdited, SectionNames

\* the interval or the expansion set.
LEMMA DwFieldEdited ==
    ASSUME NEW c, Sound(c), NEW new,
           \/ \E seconds : new \in SetSourceInterval(c, seconds)
           \/ \E bits, yes : new \in SetExpansion(c, bits, yes)
    PROVE  Edits("dw", c, new)
<1>1. HasFields(c, Sections) /\ PartSound("dw", c.dw)
  BY SoundInParts, SectionNames
<1>2. Only("dw", c, new)
  BY <1>1 DEF SetSourceInterval, SetExpansion, When, Only, HasFields
<1>3. PartSound("dw", new.dw)
  <2>1. ASSUME NEW seconds, new \in SetSourceInterval(c, seconds)
        PROVE  PartSound("dw", new.dw)
    <3>1. new.dw = [c.dw EXCEPT !.interval = seconds] /\ DynamicValid(new.dw)
      BY <1>1, <2>1, SectionNames DEF SetSourceInterval, When, HasFields
    <3> QED BY <1>1, <3>1, SectionNames DEF PartSound, HasFields
  <2>2. ASSUME NEW bits, NEW yes, new \in SetExpansion(c, bits, yes)
        PROVE  PartSound("dw", new.dw)
    <3>1. new.dw = [c.dw EXCEPT !.cidr = bits] /\ DynamicValid(new.dw)
      BY <1>1, <2>2, SectionNames DEF SetExpansion, When, HasFields
    <3> QED BY <1>1, <3>1, SectionNames DEF PartSound, HasFields
  <2> QED BY <2>1, <2>2
<1> QED BY <1>2, <1>3, PartEdited, SectionNames

\* The sections that are one value.
LEMMA ScalarEdited ==
    ASSUME NEW c, Sound(c), NEW f \in {"global", "traffic", "timezone"}, NEW v, NEW new,
           new = [c EXCEPT ![f] = v]
    PROVE  Edits(f, c, new)
<1>1. PartSound(f, v)
  BY SectionNames DEF PartSound
<1> QED BY <1>1, ChangedSection, SectionNames DEF Edits

------------------------------------------------------------------------------
(* The operations on the rules.                                             *)

\* The fields of a forwarding rule.
LEMMA ForwardFields ==
    DOMAIN Single(1, 1, NoText, "all", "all") =
        {"type", "enabled", "lo", "hi", "dport", "target", "protocol", "version", "snat",
         "comment", "quota"}
BY DEF Single, Forward

\* The switch and the quota are no matter of validity.
LEMMA FlagKept ==
    ASSUME NEW c, CellShaped(c), Valid(c), IsForward(c), NEW f \in {"enabled", "quota"}, NEW v,
           NEW new, new = [c EXCEPT ![f] = v]
    PROVE  CellShaped(new) /\ Valid(new)
<1>1. /\ HasFields(new, DOMAIN Single(1, 1, NoText, "all", "all"))
      /\ \A g \in DOMAIN Single(1, 1, NoText, "all", "all") \ {f} : new[g] = c[g]
  <2>1. HasFields(c, DOMAIN Single(1, 1, NoText, "all", "all"))
    BY DEF CellShaped
  <2>2. f \in DOMAIN Single(1, 1, NoText, "all", "all")
    BY ForwardFields
  <2> QED BY <2>1, <2>2 DEF HasFields
<1>2. /\ new.type = c.type /\ new.lo = c.lo /\ new.hi = c.hi /\ new.dport = c.dport
      /\ new.target = c.target /\ new.snat = c.snat /\ new.version = c.version
  BY <1>1, ForwardFields
<1>3. CellShaped(new)
  BY <1>1, <1>2 DEF CellShaped, IsForward
<1>4. Valid(new)
  BY <1>2 DEF Valid, SnatOk, IsForward, CellShaped
<1> QED BY <1>3, <1>4

\* A rule switched is as valid as it was.
LEMMA SwitchKept ==
    ASSUME NEW c, CellShaped(c), Valid(c), NEW v
    PROVE  CellShaped(SetEnabled(c, v)) /\ Valid(SetEnabled(c, v))
BY FlagKept DEF SetEnabled

\* A valid rule in the place of another.
LEMMA RuleReplaced ==
    ASSUME NEW rules, RulesSound(rules), NEW n \in DOMAIN rules, NEW x, CellShaped(x), Valid(x),
           NEW new, new = [rules EXCEPT ![n] = x]
    PROVE  RulesSound(new)
BY ListUpdated DEF RulesSound

\* Each operation on the rules leaves them sound: a rule added,
LEMMA RuleAdded ==
    ASSUME NEW rules, RulesSound(rules), NEW c, CellShaped(c), NEW ss, NEW yes,
           NEW new \in AddRule(rules, c, ss, yes)
    PROVE  RulesSound(new)
<1>1. new = Append(rules, c) /\ Valid(c)
  BY DEF AddRule
<1> QED BY <1>1, ListAppended DEF RulesSound

\* one deleted,
LEMMA RuleDeleted ==
    ASSUME NEW rules, RulesSound(rules), NEW n, NEW new \in DeleteRule(rules, n)
    PROVE  RulesSound(new)
<1>1. new = SE!RemoveAt(rules, n) /\ n \in DOMAIN rules
  BY DEF DeleteRule
<1> QED BY <1>1, ListRemoved DEF RulesSound

\* one switched,
LEMMA RuleToggled ==
    ASSUME NEW rules, RulesSound(rules), NEW n, NEW on, NEW new \in ToggleRule(rules, n, on)
    PROVE  RulesSound(new)
<1> DEFINE x == SetEnabled(rules[n], on)
<1>1. new = [rules EXCEPT ![n] = x] /\ n \in DOMAIN rules
  BY DEF ToggleRule
<1>2. CellShaped(x) /\ Valid(x)
  BY <1>1, SwitchKept DEF RulesSound
<1> HIDE DEF x
<1> QED BY <1>1, <1>2, RuleReplaced

\* the quota of one set,
LEMMA QuotaSet ==
    ASSUME NEW rules, RulesSound(rules), NEW n, NEW field, NEW value,
           NEW new \in SetRuleQuota(rules, n, field, value)
    PROVE  RulesSound(new)
<1> DEFINE q == [rules[n].quota EXCEPT ![field] = value]
           x == [rules[n] EXCEPT !.quota = q]
<1>1. new = [rules EXCEPT ![n] = x] /\ n \in DOMAIN rules /\ IsForward(rules[n])
  BY DEF SetRuleQuota
<1> HIDE DEF q
<1>2. CellShaped(x) /\ Valid(x)
  BY <1>1, FlagKept DEF RulesSound
<1> HIDE DEF x
<1> QED BY <1>1, <1>2, RuleReplaced

\* those over their quota switched off by the service.
LEMMA Disabled ==
    ASSUME NEW c, Sound(c), NEW over, NEW new \in AutoDisable(c, over)
    PROVE  Edits("rules", c, new)
<1> DEFINE off == {n \in over \cap DOMAIN c.rules : Enabled(c.rules[n])}
           x == [n \in DOMAIN c.rules |-> IF n \in off THEN SetEnabled(c.rules[n], FALSE) ELSE c.rules[n]]
<1>1. new = [c EXCEPT !.rules = x]
  BY DEF AutoDisable, When
<1>2. RulesSound(c.rules)
  BY SoundInParts, SectionNames DEF PartSound
<1>3. \A n \in DOMAIN c.rules : CellShaped(x[n]) /\ Valid(x[n])
  BY <1>2, SwitchKept DEF RulesSound
<1>4. x = [n \in DOMAIN c.rules |-> x[n]]
  OBVIOUS
<1> HIDE DEF x
<1>5. RulesSound(x)
  BY <1>2, <1>3, <1>4, ListMapped DEF RulesSound
<1>6. PartSound("rules", x)
  BY <1>5, SectionNames DEF PartSound
<1> QED BY <1>1, <1>6, ChangedSection, SectionNames DEF Edits

\* What an edit lets through.
LEMMA EditOf ==
    ASSUME NEW rules, NEW n, NEW p, NEW ss, NEW yes, NEW new \in EditRule(rules, n, p, ss, yes)
    PROVE  /\ n \in DOMAIN rules /\ IsForward(rules[n]) /\ Answerable(rules[n], p)
           /\ new = [rules EXCEPT ![n] = Edited(rules[n], p)]
           /\ Valid(Edited(rules[n], p))
           /\ ChangedFields(rules[n], Edited(rules[n], p)) # {}
           /\ Conflicts(rules, n, Edited(rules[n], p)) = {}
BY Zenon DEF EditRule, Applied

\* The editor adds no field to a rule,
LEMMA EditedDomain ==
    ASSUME NEW c, NEW fields, HasFields(c, fields), NEW p
    PROVE  HasFields(Edited(c, p), fields)
<1> DEFINE enabled == IF p.flip THEN ~c.enabled ELSE c.enabled
           lo == IF p.sport = <<>> THEN c.lo ELSE p.sport[1]
           hi == IF p.sport = <<>> \/ OnePort(c) THEN c.hi ELSE p.sport[2]
           target == IF p.target = NoText THEN c.target ELSE p.target
           dport == IF p.dport = NoPort THEN c.dport ELSE p.dport
           protocol == IF p.protocol = "" THEN c.protocol ELSE p.protocol
           snat == IF p.snat = <<>> THEN c.snat ELSE p.snat[1]
           comment == IF p.comment = <<>> THEN c.comment ELSE p.comment[1]
           e == [c EXCEPT !.enabled = enabled, !.lo = lo, !.hi = hi, !.target = target,
                          !.dport = dport, !.protocol = protocol, !.snat = snat,
                          !.comment = comment]
<1>1. Edited(c, p) = e
  BY DEF Edited
<1> HIDE DEF enabled, lo, hi, target, dport, protocol, snat, comment
<1>2. DOMAIN e = DOMAIN c /\ e = [f \in DOMAIN e |-> e[f]]
  OBVIOUS
<1>3. DOMAIN c = fields
  BY DEF HasFields
<1> HIDE DEF e
<1> QED BY <1>1, <1>2, <1>3 DEF HasFields

\* Field by field.
LEMMA EditedFields ==
    ASSUME NEW c, HasFields(c, DOMAIN Single(1, 1, NoText, "all", "all")), NEW p
    PROVE  /\ Edited(c, p).type = c.type /\ Edited(c, p).version = c.version
           /\ Edited(c, p).quota = c.quota
           /\ Edited(c, p).enabled = IF p.flip THEN ~c.enabled ELSE c.enabled
           /\ Edited(c, p).lo = IF p.sport = <<>> THEN c.lo ELSE p.sport[1]
           /\ Edited(c, p).hi = IF p.sport = <<>> \/ OnePort(c) THEN c.hi ELSE p.sport[2]
           /\ Edited(c, p).target = IF p.target = NoText THEN c.target ELSE p.target
           /\ Edited(c, p).dport = IF p.dport = NoPort THEN c.dport ELSE p.dport
           /\ Edited(c, p).protocol = IF p.protocol = "" THEN c.protocol ELSE p.protocol
           /\ Edited(c, p).snat = IF p.snat = <<>> THEN c.snat ELSE p.snat[1]
           /\ Edited(c, p).comment = IF p.comment = <<>> THEN c.comment ELSE p.comment[1]
<1>1. DOMAIN c = {"type", "enabled", "lo", "hi", "dport", "target", "protocol", "version", "snat",
                  "comment", "quota"}
  BY ForwardFields DEF HasFields
<1> QED BY <1>1 DEF Edited

\* keeps it a rule of its kind,
LEMMA EditedShape ==
    ASSUME NEW c, CellShaped(c), IsForward(c), NEW p, Answerable(c, p),
           p.sport # <<>> => p.sport[1] \in Int /\ p.sport[2] \in Int
    PROVE  CellShaped(Edited(c, p))
<1>1. HasFields(c, DOMAIN Single(1, 1, NoText, "all", "all")) /\ c.lo \in Int /\ c.hi \in Int
  BY DEF CellShaped
<1>2. HasFields(Edited(c, p), DOMAIN Single(1, 1, NoText, "all", "all"))
  BY <1>1, EditedDomain
<1>3. /\ Edited(c, p).type = c.type
      /\ Edited(c, p).lo = IF p.sport = <<>> THEN c.lo ELSE p.sport[1]
      /\ Edited(c, p).hi = IF p.sport = <<>> \/ OnePort(c) THEN c.hi ELSE p.sport[2]
  BY <1>1, EditedFields
<1> QED BY <1>1, <1>2, <1>3 DEF CellShaped, IsForward

\* and leaves the rules sound.
LEMMA RuleEdited ==
    ASSUME NEW rules, RulesSound(rules), NEW n, NEW p, NEW ss, NEW yes,
           p.sport # <<>> => p.sport[1] \in Int /\ p.sport[2] \in Int,
           NEW new \in EditRule(rules, n, p, ss, yes)
    PROVE  RulesSound(new)
<1>1. n \in DOMAIN rules /\ IsForward(rules[n]) /\ Answerable(rules[n], p)
  BY EditOf
<1>2. CellShaped(Edited(rules[n], p))
  BY <1>1, EditedShape DEF RulesSound
<1> QED BY <1>1, <1>2, EditOf, RuleReplaced

------------------------------------------------------------------------------
(* All operations.                                                          *)

\* Which operation a change of the policies came from.
LEMMA WhichPolicy ==
    ASSUME NEW o, NEW c, NEW new \in OfPolicies(o, c)
    PROVE
      \/ o.op = "access_control.ssh_source.add" /\ new \in AddSshSource(c, o.entry, o.yes)
      \/ o.op = "dynamic_whitelist.domain.add" /\ new \in AddDomain(c, o.domain)
      \/ o.op = "dynamic_whitelist.domain.delete" /\ new \in DeleteDomain(c, o.n)
      \/ o.op = "dynamic_whitelist.domain.toggle" /\ new \in ToggleDomain(c, o.n)
      \/ o.op = "dynamic_whitelist.interval.update" /\ new \in SetSourceInterval(c, o.seconds)
      \/ o.op = "dynamic_whitelist.cidr_expand.update" /\ new \in SetExpansion(c, o.bits, o.yes)
      \/ o.op = "geoip.forward.update" /\ new \in ToggleGeoForward(c, o.yes)
      \/ o.op = "geoip.ssh.update" /\ new \in ToggleGeoSsh(c, o.yes)
      \/ o.op = "geoip.ssh.port.update" /\ new \in SetSshPort(c, o.port)
      \/ o.op = "geoip.update_interval.update" /\ new \in SetGeoHours(c, o.hours)
      \/ o.op = "egress_control.update" /\ new \in ToggleEgress(c, o.yes)
      \/ o.op = "egress.add" /\ new \in AddEgress(c, o.entry)
      \/ o.op = "egress.delete" /\ new \in DeleteEgress(c, o.entry)
      \/ o.op = "snat.mode.update" /\ new \in SetSnatMode(c, o.mode, o.address, o.yes)
      \/ o.op = "snat.fixed_source_ip.update" /\ new \in SetFixedSource(c, o.address)
      \/ o.op = "mss_clamp.toggle" /\ new \in ToggleMss(c, o.yes)
      \/ o.op = "mss_clamp.size.update" /\ new \in SetMssSize(c, o.size)
      \/ o.op = "telegram.config.update" /\ new \in ConfigureTelegram(c, o.token, o.on)
      \/ o.op = "telegram.toggle" /\ new \in SwitchTelegram(c, o.on)
      \/ o.op = "telegram.interval.update" /\ new \in SetTelegramMinutes(c, o.minutes)
      \/ o.op = "global.enabled.update" /\ new \in SetGlobal(c, o.on, o.yes)
      \/ o.op = "stats.mode.update" /\ new \in SwitchTrafficMode(c, o.mode)
      \/ o.op = "ui.timezone.update" /\ new \in SetTimezone(c, o.zone, Zones)
      \/ o.op = "quota.auto_disable" /\ new \in AutoDisable(c, Over)
<1> DEFINE named == {"access_control.ssh_source.add", "dynamic_whitelist.domain.add",
                     "dynamic_whitelist.domain.delete", "dynamic_whitelist.domain.toggle",
                     "dynamic_whitelist.interval.update",
                     "dynamic_whitelist.cidr_expand.update", "geoip.forward.update",
                     "geoip.ssh.update", "geoip.ssh.port.update",
                     "geoip.update_interval.update", "egress_control.update", "egress.add",
                     "egress.delete", "snat.mode.update", "snat.fixed_source_ip.update",
                     "mss_clamp.toggle", "mss_clamp.size.update", "telegram.config.update",
                     "telegram.toggle", "telegram.interval.update", "global.enabled.update",
                     "stats.mode.update", "ui.timezone.update", "quota.auto_disable"}
<1>1. CASE o.op \notin named
  BY <1>1 DEF OfPolicies
<1>2. CASE o.op \in named
  BY <1>2 DEF OfPolicies
<1> QED BY <1>1, <1>2

\* Every operation on the policies edits the section it is about.
LEMMA PoliciesEdited ==
    ASSUME NEW o, Answered(o), NEW c, Sound(c), NEW new \in OfPolicies(o, c)
    PROVE  Edits(SectionOf(o), c, new)
<1>1. CASE o.op \in {"access_control.ssh_source.add"}
  <2>1. SectionOf(o) = "access"
    BY <1>1 DEF SectionOf, FromPage, AddsRule
  <2> QED BY <1>1, <2>1, WhichPolicy, AccessEdited
<1>2. CASE o.op \in {"dynamic_whitelist.domain.add", "dynamic_whitelist.domain.delete",
                   "dynamic_whitelist.domain.toggle",
                   "dynamic_whitelist.interval.update",
                   "dynamic_whitelist.cidr_expand.update"}
  <2>1. SectionOf(o) = "dw"
    BY <1>2 DEF SectionOf, FromPage, AddsRule
  <2> QED BY <1>2, <2>1, WhichPolicy, DomainAdded, DomainDeleted, DomainToggled, DwFieldEdited
         DEF Answered
<1>3. CASE o.op \in {"geoip.forward.update", "geoip.ssh.update", "geoip.ssh.port.update",
                   "geoip.update_interval.update"}
  <2>1. SectionOf(o) = "geo"
    BY <1>3 DEF SectionOf, FromPage, AddsRule
  <2> QED BY <1>3, <2>1, WhichPolicy, GeoEdited
<1>4. CASE o.op \in {"egress_control.update", "egress.add", "egress.delete"}
  <2>1. SectionOf(o) = "egress"
    BY <1>4 DEF SectionOf, FromPage, AddsRule
  <2> QED BY <1>4, <2>1, WhichPolicy, EgressEdited
<1>5. CASE o.op \in {"snat.mode.update", "snat.fixed_source_ip.update"}
  <2>1. SectionOf(o) = "snat"
    BY <1>5 DEF SectionOf, FromPage, AddsRule
  <2> QED BY <1>5, <2>1, WhichPolicy, SnatEdited
<1>6. CASE o.op \in {"mss_clamp.toggle", "mss_clamp.size.update"}
  <2>1. SectionOf(o) = "mss"
    BY <1>6 DEF SectionOf, FromPage, AddsRule
  <2> QED BY <1>6, <2>1, WhichPolicy, MssEdited
<1>7. CASE o.op \in {"telegram.config.update", "telegram.toggle",
                   "telegram.interval.update"}
  <2>1. SectionOf(o) = "telegram"
    BY <1>7 DEF SectionOf, FromPage, AddsRule
  <2> QED BY <1>7, <2>1, WhichPolicy, TelegramEdited
<1>8. CASE o.op \in {"quota.auto_disable"}
  <2>1. SectionOf(o) = "rules"
    BY <1>8 DEF SectionOf, FromPage, AddsRule
  <2> QED BY <1>8, <2>1, WhichPolicy, Disabled
<1>9. CASE o.op = "global.enabled.update"
  <2>1. SectionOf(o) = "global"
    BY <1>9 DEF SectionOf, FromPage, AddsRule
  <2>2. new = [c EXCEPT !.global = o.on]
    BY <1>9, WhichPolicy DEF SetGlobal, When
  <2> QED BY <2>1, <2>2, ScalarEdited
<1>10. CASE o.op = "stats.mode.update"
  <2>1. SectionOf(o) = "traffic"
    BY <1>10 DEF SectionOf, FromPage, AddsRule
  <2>2. new = [c EXCEPT !.traffic = o.mode]
    BY <1>10, WhichPolicy DEF SwitchTrafficMode, When
  <2> QED BY <2>1, <2>2, ScalarEdited
<1>11. CASE o.op = "ui.timezone.update"
  <2>1. SectionOf(o) = "timezone"
    BY <1>11 DEF SectionOf, FromPage, AddsRule
  <2>2. new = [c EXCEPT !.timezone = o.zone]
    BY <1>11, WhichPolicy DEF SetTimezone, When
  <2> QED BY <2>1, <2>2, ScalarEdited
<1> QED BY WhichPolicy, <1>1, <1>2, <1>3, <1>4, <1>5, <1>6, <1>7, <1>8, <1>9, <1>10, <1>11

\* Every operation of the menus and of the service edits the section it is
\* about, and leaves a sound configuration sound.
LEMMA ResultsEdit ==
    ASSUME NEW o, Answered(o), NEW c, Sound(c), NEW new \in Results(o, c)
    PROVE  Edits(SectionOf(o), c, new)
<1>1. ASSUME NEW r \in OfRules(o, c.rules), new = [c EXCEPT !.rules = r]
      PROVE  Edits(SectionOf(o), c, new)
  <2>1. /\ AddsRule(o) \/ o.op \in {"rule.edit", "rule.delete", "rule.toggle", "quota.config.update"}
        /\ \/ AddsRule(o) /\ r \in AddRule(c.rules, o.rule, o.ss, o.yes)
           \/ o.op = "rule.edit" /\ r \in EditRule(c.rules, o.n, o.patch, o.ss, o.yes)
           \/ r \in DeleteRule(c.rules, o.n)
           \/ r \in ToggleRule(c.rules, o.n, o.on)
           \/ r \in SetRuleQuota(c.rules, o.n, o.field, o.value)
    BY <1>1 DEF OfRules
  <2>2. SectionOf(o) = "rules"
    BY <2>1 DEF SectionOf, FromPage, AddsRule
  <2>3. RulesSound(c.rules)
    BY SoundInParts, SectionNames DEF PartSound
  <2>4. RulesSound(r)
    BY <2>1, <2>3, RuleAdded, RuleEdited, RuleDeleted, RuleToggled, QuotaSet DEF Answered
  <2>5. PartSound("rules", r)
    BY <2>4, SectionNames DEF PartSound
  <2> QED BY <1>1, <2>2, <2>5, ChangedSection, SectionNames DEF Edits
<1> QED BY <1>1, PoliciesEdited DEF Results

\* What a save that does not touch the forwarding rules leaves as it was.
LEMMA QuietFields ==
    ASSUME NEW o, Answered(o), NEW c, Sound(c), NEW new \in Results(o, c), ~AffectsNft(o)
    PROVE  /\ \A f \in Sections \ {"dw", "telegram", "timezone"} : new[f] = c[f]
           /\ new.dw.enabled = c.dw.enabled /\ new.dw.domains = c.dw.domains
<1>1. Edits(SectionOf(o), c, new)
  BY ResultsEdit
<1>2. CASE o.op \in {"telegram.config.update", "telegram.toggle", "telegram.interval.update"}
  <2>1. SectionOf(o) = "telegram"
    BY <1>2 DEF SectionOf, FromPage, AddsRule
  <2> QED BY <1>1, <2>1, SectionNames DEF Edits, Only
<1>3. CASE o.op = "ui.timezone.update"
  <2>1. SectionOf(o) = "timezone"
    BY <1>3 DEF SectionOf, FromPage, AddsRule
  <2> QED BY <1>1, <2>1, SectionNames DEF Edits, Only
<1>4. CASE o.op = "dynamic_whitelist.interval.update"
  <2>1. SectionOf(o) = "dw"
    BY <1>4 DEF SectionOf, FromPage, AddsRule
  <2>2. OfRules(o, c.rules) = {}
    BY <1>4 DEF OfRules, AddsRule
  <2>3. new \in SetSourceInterval(c, o.seconds)
    BY <1>4, <2>2, WhichPolicy DEF Results
  <2>4. new = [c EXCEPT !.dw.interval = o.seconds]
    BY <2>3 DEF SetSourceInterval, When
  <2>5. HasFields(c, Sections) /\ HasFields(c.dw, Fields["dw"])
    BY SoundInParts, SectionNames DEF PartSound
  <2>6. new.dw.enabled = c.dw.enabled /\ new.dw.domains = c.dw.domains
    BY <2>4, <2>5, SectionNames DEF HasFields
  <2> QED BY <1>1, <2>1, <2>6, SectionNames DEF Edits, Only
<1> QED BY <1>2, <1>3, <1>4 DEF AffectsNft

\* The script is made of the other sections.
LEMMA SameScript ==
    ASSUME NEW c, NEW new,
           \A f \in Sections \ {"dw", "telegram", "timezone"} : new[f] = c[f],
           new.dw.enabled = c.dw.enabled, new.dw.domains = c.dw.domains
    PROVE  ScriptOf(new) = ScriptOf(c)
<1>1. /\ new.global = c.global /\ new.rules = c.rules /\ new.access = c.access
      /\ new.egress = c.egress /\ new.mss = c.mss /\ new.snat = c.snat /\ new.geo = c.geo
  BY SectionNames
<1> QED BY <1>1, Zenon DEF ScriptOf

\* Two rules that do not conflict take none of the same traffic.
LEMMA ApartTakes ==
    ASSUME NEW a, NEW b, a.lo \in Int, a.hi \in Int, b.lo \in Int, b.hi \in Int,
           ~Overlaps(Ingress(a), Ingress(b))
    PROVE  Takes(b) \cap Takes(a) = {}
<1> DEFINE top(r) == IF r.hi = NoPort THEN r.lo ELSE r.hi
           protos(r) == IF r.protocol = "all" THEN {"tcp", "udp"} ELSE {r.protocol}
           fams(r) == IF r.version = "all" THEN {"ipv4", "ipv6"} ELSE {r.version}
<1>1. /\ Takes(a) = (a.lo..top(a)) \X protos(a) \X fams(a)
      /\ Takes(b) = (b.lo..top(b)) \X protos(b) \X fams(b)
  BY DEF Takes, Ingress
<1>2. top(a) \in Int /\ top(b) \in Int
  OBVIOUS
<1>3. SUFFICES ASSUME NEW t \in Takes(a), t \in Takes(b) PROVE FALSE
  OBVIOUS
<1>4. a.lo <= top(b) /\ b.lo <= top(a)
  <2>1. t[1] \in a.lo..top(a) /\ t[1] \in b.lo..top(b)
    BY <1>1, <1>3
  <2> HIDE DEF top
  <2> QED BY <1>2, <2>1
<1>5. a.protocol = b.protocol \/ "all" \in {a.protocol, b.protocol}
  <2>1. t[2] \in protos(a) /\ t[2] \in protos(b)
    BY <1>1, <1>3
  <2> QED BY <2>1
<1>6. a.version = b.version \/ "all" \in {a.version, b.version}
  <2>1. t[3] \in fams(a) /\ t[3] \in fams(b)
    BY <1>1, <1>3
  <2> QED BY <2>1
<1> QED BY <1>4, <1>5, <1>6 DEF Overlaps, Ingress

\* An edited rule that is on is apart from all others that are.
LEMMA EditApart ==
    ASSUME NEW rules, RulesSound(rules), NEW n, NEW p, NEW ss, NEW yes,
           p.sport # <<>> => p.sport[1] \in Int /\ p.sport[2] \in Int,
           NEW new \in EditRule(rules, n, p, ss, yes), new[n].enabled,
           NEW m \in DOMAIN new \ {n}, IsForward(new[m]), new[m].enabled
    PROVE  Takes(new[m]) \cap Takes(new[n]) = {}
<1>1. n \in DOMAIN rules /\ IsForward(rules[n]) /\ Answerable(rules[n], p)
  BY EditOf
<1> DEFINE e == Edited(rules[n], p)
<1>2. CellShaped(e)
  BY <1>1, EditedShape DEF RulesSound
<1>3. IsForward(e)
  <2>1. HasFields(rules[n], DOMAIN Single(1, 1, NoText, "all", "all"))
    BY <1>1 DEF RulesSound, CellShaped
  <2>2. e.type = rules[n].type
    BY <2>1, EditedFields
  <2> QED BY <1>1, <2>2 DEF IsForward
<1> HIDE DEF e
<1>4. new = [rules EXCEPT ![n] = e] /\ Conflicts(rules, n, e) = {}
  <2>1. new = [rules EXCEPT ![n] = Edited(rules[n], p)]
    BY EditOf
  <2>2. Conflicts(rules, n, Edited(rules[n], p)) = {}
    BY EditOf
  <2> QED BY <2>1, <2>2 DEF e
<1>5. /\ new[n] = e /\ m \in DOMAIN rules /\ new[m] = rules[m] /\ DOMAIN rules = DOMAIN new
  BY <1>1, <1>4
<1>6. ~Overlaps(Ingress(e), Ingress(rules[m]))
  BY <1>4, <1>5 DEF Conflicts, Enabled
<1>7. e.lo \in Int /\ e.hi \in Int /\ rules[m].lo \in Int /\ rules[m].hi \in Int
  BY <1>2, <1>3, <1>5 DEF RulesSound, CellShaped
<1> QED BY <1>5, <1>6, <1>7, ApartTakes

\* The fields of a rule as the editor shows it.
LEMMA SnapshotFields ==
    ASSUME NEW c
    PROVE  /\ DOMAIN Snapshot(c) = {"sport", "target", "dport", "protocol", "enabled", "snat", "comment"}
           /\ Snapshot(c).sport = IF c.hi = NoPort THEN <<c.lo>> ELSE <<c.lo, c.hi>>
           /\ Snapshot(c).target = c.target /\ Snapshot(c).protocol = c.protocol
           /\ c.type # "range" => Snapshot(c).dport = <<c.dport>>
           /\ Snapshot(c).enabled = c.enabled /\ Snapshot(c).snat = SnatOf(c)
           /\ Snapshot(c).comment = c.comment
BY DEF Snapshot

\* The old values of the audit line make the rule what it was.
LEMMA PutBackRestores ==
    ASSUME NEW c, CellShaped(c), IsForward(c), NEW p, Answerable(c, p), NEW e, e = Edited(c, p),
           NEW was, was = [f \in ChangedFields(c, e) |-> Snapshot(c)[f]]
    PROVE  PutBack(e, was) = c
<1> DEFINE F == DOMAIN Single(1, 1, NoText, "all", "all")
           Old(f, now) == IF f \in DOMAIN was THEN was[f] ELSE now
<1>1. ASSUME NEW f \in DOMAIN Snapshot(c)
      PROVE  Old(f, Snapshot(e)[f]) = Snapshot(c)[f]
  <2>1. DOMAIN was = ChangedFields(c, e) /\ (f \in DOMAIN was => was[f] = Snapshot(c)[f])
    OBVIOUS
  <2>2. f \notin DOMAIN was => Snapshot(e)[f] = Snapshot(c)[f]
    BY <2>1 DEF ChangedFields
  <2> QED BY <2>1, <2>2
<1>2. HasFields(c, F) /\ HasFields(e, F)
  BY EditedDomain DEF CellShaped
<1>3. e.type = c.type /\ e.version = c.version /\ e.quota = c.quota
  BY <1>2, EditedFields
<1>4. c.type \in {"single", "range", "redirect"}
  BY DEF CellShaped, IsForward
<1> DEFINE sport == Old("sport", Snapshot(e).sport)
<1>5. /\ sport[1] = c.lo
      /\ (IF Len(sport) = 1 THEN NoPort ELSE sport[2]) = c.hi
  <2>1. sport = IF c.hi = NoPort THEN <<c.lo>> ELSE <<c.lo, c.hi>>
    BY <1>1, SnapshotFields
  <2> HIDE DEF sport
  <2> QED BY <2>1
<1>6. /\ Old("target", e.target) = c.target
      /\ Old("protocol", e.protocol) = c.protocol
      /\ Old("enabled", e.enabled) = c.enabled
      /\ Old("comment", e.comment) = c.comment
  BY <1>1, SnapshotFields
<1>7. (IF e.type = "range" THEN e.dport ELSE Old("dport", <<e.dport>>)[1]) = c.dport
  <2>1. CASE c.type = "range"
    <3>1. p.dport = NoPort
      BY <2>1 DEF Answerable, NewPort
    <3> QED BY <1>2, <1>3, <2>1, <3>1, EditedFields
  <2>2. CASE c.type # "range"
    <3>1. Old("dport", <<e.dport>>) = <<c.dport>>
      <4>1. Snapshot(c)["dport"] = <<c.dport>> /\ Snapshot(e)["dport"] = <<e.dport>>
        BY <1>3, <2>2, SnapshotFields
      <4>2. "dport" \in DOMAIN Snapshot(c)
        BY SnapshotFields
      <4>3. Old("dport", Snapshot(e)["dport"]) = Snapshot(c)["dport"]
        BY <1>1, <4>2
      <4> HIDE DEF Old
      <4> QED BY <4>1, <4>3
    <3> QED BY <1>3, <2>2, <3>1
  <2> QED BY <2>1, <2>2
<1>8. (IF e.type = "redirect" THEN e.snat ELSE Old("snat", e.snat)) = c.snat
  <2>1. CASE c.type = "redirect"
    <3>1. p.snat = <<>>
      BY <2>1 DEF Answerable, NewSnat
    <3> QED BY <1>2, <1>3, <2>1, <3>1, EditedFields
  <2>2. CASE c.type # "redirect"
    <3>1. SnatOf(c) = c.snat /\ SnatOf(e) = e.snat
      BY <1>3, <1>4, <2>2 DEF SnatOf
    <3>2. Old("snat", e.snat) = c.snat
      BY <1>1, <3>1, SnapshotFields
    <3> QED BY <1>3, <2>2, <3>2
  <2> QED BY <2>1, <2>2
<1>9. PutBack(e, was) =
        [e EXCEPT !.lo = sport[1], !.hi = IF Len(sport) = 1 THEN NoPort ELSE sport[2],
                  !.target = Old("target", e.target), !.protocol = Old("protocol", e.protocol),
                  !.dport = IF e.type = "range" THEN e.dport ELSE Old("dport", <<e.dport>>)[1],
                  !.enabled = Old("enabled", e.enabled), !.comment = Old("comment", e.comment),
                  !.snat = IF e.type = "redirect" THEN e.snat ELSE Old("snat", e.snat)]
  BY DEF PutBack
<1> HIDE DEF Old, sport, F
<1>10. PutBack(e, was) =
        [e EXCEPT !.lo = c.lo, !.hi = c.hi, !.target = c.target, !.protocol = c.protocol,
                  !.dport = c.dport, !.enabled = c.enabled, !.comment = c.comment, !.snat = c.snat]
  BY <1>5, <1>6, <1>7, <1>8, <1>9
<1>11. F = {"type", "enabled", "lo", "hi", "dport", "target", "protocol", "version", "snat",
            "comment", "quota"}
  BY ForwardFields DEF F
<1> QED BY <1>2, <1>3, <1>10, <1>11 DEF HasFields

\* An edit changes one rule, and its audit line says how.
LEMMA EditRecorded ==
    ASSUME NEW rules, RulesSound(rules), NEW n, NEW p, NEW ss, NEW yes,
           NEW new \in EditRule(rules, n, p, ss, yes),
           NEW line, line = AuditDetail(n, rules[n], new[n])
    PROVE  /\ DOMAIN line.old # {}
           /\ rules = [new EXCEPT ![line.index + 1] = PutBack(@, line.old)]
<1>1. n \in DOMAIN rules /\ IsForward(rules[n]) /\ Answerable(rules[n], p)
  BY EditOf
<1> DEFINE e == Edited(rules[n], p)
<1>2. CellShaped(rules[n])
  BY <1>1 DEF RulesSound
<1>3. new = [rules EXCEPT ![n] = Edited(rules[n], p)]
  BY EditOf
<1>4. ChangedFields(rules[n], Edited(rules[n], p)) # {}
  BY EditOf
<1>5. new[n] = Edited(rules[n], p)
  BY <1>1, <1>3
<1>6. line.index = n - 1 /\ line.old = [f \in ChangedFields(rules[n], new[n]) |-> Snapshot(rules[n])[f]]
  BY DEF AuditDetail
<1>7. n \in Int
  BY <1>1 DEF RulesSound, IsList
<1>8. PutBack(new[n], line.old) = rules[n]
  BY <1>1, <1>2, <1>5, <1>6, PutBackRestores
<1>9. DOMAIN line.old # {}
  BY <1>4, <1>5, <1>6
<1>10. rules = [new EXCEPT ![n] = PutBack(new[n], line.old)]
  <2> DEFINE was == line.old
  <2> HIDE DEF was
  <2>1. rules = [m \in DOMAIN rules |-> rules[m]]
    BY DEF RulesSound, IsList
  <2>2. PutBack(new[n], was) = rules[n]
    BY <1>8 DEF was
  <2>3. rules = [new EXCEPT ![n] = PutBack(new[n], was)]
    BY <1>1, <1>3, <2>1, <2>2
  <2> QED BY <2>3 DEF was
<1>11. line.index + 1 = n
  BY <1>6, <1>7
<1> QED BY <1>9, <1>10, <1>11

------------------------------------------------------------------------------
(* The invariant.                                                           *)

Known(x) == x = Broken \/ Shaped(x)
ProcFields == {"at", "op", "copy", "base", "page"}
Writing == {"backup", "create", "fill", "rename"}

Data ==
    /\ Known(file)
    /\ tmp = [n \in Processes \cup {"tmp"} |-> tmp[n]]
    /\ proc = [p \in Processes |-> proc[p]]
    /\ \A p \in Processes : HasFields(proc[p], ProcFields)
    /\ writer = [f \in Sections |-> writer[f]]
    /\ \A b \in DOMAIN backups : Known(backups[b])

OfPage(r) == r.at = "page" \/ r.op.op = "access_control.update"

\* Whether the copy of a process will be saved as a change of what it loaded.
Holds(r) ==
    \/ r.at = "asked" /\ ~LoadsLast(r.op) /\ ~IsRestore(r.op)
    \/ r.at \in Writing /\ ~IsRestore(r.op)
    \/ r.at = "page"
    \/ r.at = "after" /\ r.op.op = "access_control.update"

\* How the copy came from what was loaded.
Made(r) ==
    CASE r.at = "asked" -> r.copy = r.base
      [] r.at # "asked" /\ OfPage(r) -> /\ Shaped(r.copy) /\ Only("access", r.base, r.copy)
                                        /\ r.at # "page" => AccessValid(r.copy.access)
      [] r.at # "asked" /\ ~OfPage(r) -> Answered(r.op) /\ r.copy \in Results(r.op, r.base)

Prepared(p, r) ==
    /\ r.at \in {"idle", "asked", "page", "return", "after"} \cup Writing
    /\ r.at = "asked" => p \in Menus /\ Answered(r.op)
    /\ r.at \in Writing /\ IsRestore(r.op) => p \in Menus /\ Known(r.copy)
    /\ Holds(r) => Sound(r.base) /\ Made(r)

\* Where the file is no longer what p loaded, someone else wrote.
UpToDate(p, r, now, by) ==
    Holds(r) =>
      \A f \in Sections : Differ(f, now, r.base) /\ ~(OfPage(r) /\ f = "access")
                            => by[f] \notin {p, "nobody"}

\* What p is about to replace is backed up, or someone else wrote since.
Secured(p, r, now, by, kept) ==
    /\ r.at \in {"create", "fill", "rename"} /\ r.op.op # "rule.delete"
    /\ \A f \in Sections : by[f] \in {"nobody", p}
    => \E b \in DOMAIN kept : b[1] = r.op.op /\ kept[b] \in {now, Broken}

Filled == \A p \in Processes : At(p, "rename") => tmp[p] = proc[p].copy
CacheHolds == \A e \in cache : Cached(e)

IInv ==
    /\ Data /\ CacheHolds /\ Filled
    /\ \A p \in Processes : /\ Prepared(p, proc[p])
                            /\ UpToDate(p, proc[p], file, writer)
                            /\ Secured(p, proc[p], file, writer, backups)

------------------------------------------------------------------------------
(* The invariant holds of every step.                                       *)

\* Sound is what the service can load.
LEMMA SoundIsLoadable ==
    ASSUME NEW x
    PROVE  /\ Shaped(x) => x \notin {Broken, Absent}
           /\ Known(x) /\ Loadable(x) <=> Sound(x)
<1>1. ASSUME Shaped(x) PROVE x \notin {Broken, Absent}
  <2>1. DOMAIN x = Sections
    BY <1>1 DEF Shaped, HasFields
  <2>2. DOMAIN Broken = {"broken"} /\ DOMAIN Absent = {"absent"}
    BY DEF Broken, Absent
  <2> QED BY <2>1, <2>2, SectionNames
<1> QED BY <1>1 DEF Known, Loadable, Sound

\* A sound file does not differ from itself.
LEMMA SameFile ==
    ASSUME NEW x, Sound(x), NEW f
    PROVE  ~Differ(f, x, x)
BY SoundIsLoadable DEF Differ, Sound

\* A step of one process that leaves the file: what is to be shown of it.
LEMMA Step ==
    ASSUME IInv, NEW p \in Processes, NEW r, HasFields(r, ProcFields), Becomes(p, r),
           UNCHANGED <<file, writer>>, CacheHolds',
           tmp' = [n \in Processes \cup {"tmp"} |-> tmp'[n]],
           \A q \in Processes \ {p} : tmp'[q] = tmp[q],
           r.at = "rename" => tmp'[p] = r.copy,
           \A b \in DOMAIN backups' : Known(backups'[b]),
           \A q \in Processes \ {p} : Secured(q, proc[q], file, writer, backups'),
           Prepared(p, r), UpToDate(p, r, file, writer), Secured(p, r, file, writer, backups')
    PROVE  IInv'
<1>1. /\ proc' = [q \in Processes |-> proc'[q]] /\ proc'[p] = r
      /\ \A q \in Processes \ {p} : proc'[q] = proc[q]
  BY DEF Becomes, IInv, Data
<1>2. Data'
  BY <1>1 DEF IInv, Data
<1>3. Filled'
  BY <1>1 DEF IInv, Filled, At
<1>4. ASSUME NEW q \in Processes
      PROVE  /\ Prepared(q, proc'[q]) /\ UpToDate(q, proc'[q], file', writer')
             /\ Secured(q, proc'[q], file', writer', backups')
  BY <1>1 DEF IInv
<1> QED BY <1>2, <1>3, <1>4 DEF IInv

\* The steps that only move a process.
LEMMA Move ==
    ASSUME IInv, NEW p \in Processes, NEW r, HasFields(r, ProcFields), Becomes(p, r),
           UNCHANGED <<file, tmp, backups, writer>>, CacheHolds', r.at # "rename",
           Prepared(p, r), UpToDate(p, r, file, writer), Secured(p, r, file, writer, backups)
    PROVE  IInv'
BY Step DEF IInv, Data

\* A process that goes on keeps its operation and its copies.
LEMMA GoesTo ==
    ASSUME Data, NEW p \in Processes, NEW at, Goes(p, at)
    PROVE  \E r : /\ Becomes(p, r) /\ HasFields(r, ProcFields)
                  /\ r.at = at /\ r.op = proc[p].op /\ r.copy = proc[p].copy
                  /\ r.base = proc[p].base
<1> DEFINE r == [proc[p] EXCEPT !.at = at]
<1>1. Becomes(p, r)
  BY DEF Becomes, Goes
<1>2. HasFields(proc[p], ProcFields) /\ "at" \in ProcFields
  BY DEF Data, ProcFields
<1>3. HasFields(r, ProcFields) /\ r.at = at /\ \A f \in ProcFields \ {"at"} : r[f] = proc[p][f]
  BY <1>2, ChangedField
<1> HIDE DEF r
<1> QED BY <1>1, <1>3 DEF ProcFields

\* Nothing is asked of a process that is idle, or on its way back to the page.
LEMMA AtRest ==
    ASSUME NEW p, NEW r, r.at \in {"idle", "return"}, NEW now, NEW by, NEW kept
    PROVE  Prepared(p, r) /\ UpToDate(p, r, now, by) /\ Secured(p, r, now, by, kept)
BY DEF Prepared, UpToDate, Secured, Holds, Writing

\* An idle process is one of them.
LEMMA IdleAtRest ==
    HasFields(Idle, ProcFields) /\ Idle.at = "idle"
BY DEF Idle, HasFields, ProcFields

\* A process that is done, or on its way back to the page.
LEMMA Rests ==
    ASSUME IInv, NEW p \in Processes, NEW r, HasFields(r, ProcFields), r.at \in {"idle", "return"},
           Becomes(p, r), UNCHANGED <<file, tmp, backups, cache, writer>>
    PROVE  IInv'
<1>1. CacheHolds'
  BY DEF IInv, CacheHolds
<1>2. /\ Prepared(p, r) /\ UpToDate(p, r, file, writer)
      /\ Secured(p, r, file, writer, backups)
  BY AtRest
<1> QED BY <1>1, <1>2, Move

\* The same, back where the operation was asked for.
LEMMA EndsRests ==
    ASSUME IInv, NEW p \in Processes, Ends(p), UNCHANGED <<file, tmp, backups, cache, writer>>
    PROVE  IInv'
<1>1. PICK at \in {"idle", "return"} : Goes(p, at)
  BY DEF Ends
<1>2. PICK r : Becomes(p, r) /\ HasFields(r, ProcFields) /\ r.at = at
  BY <1>1, GoesTo DEF IInv
<1> QED BY <1>1, <1>2, Rests

\* An operation chosen: what it loads is the file.
LEMMA AskKeeps ==
    ASSUME IInv, NEW p \in Processes, NEW o \in Ops \cup Alone, Ask(p, o)
    PROVE  IInv'
<1> DEFINE page == At(p, "page")
<1> HIDE DEF page
<1> DEFINE r == [at |-> "asked", op |-> o, copy |-> file, base |-> file, page |-> page]
<1>1. Becomes(p, r) /\ UNCHANGED <<file, tmp, backups, cache, writer>>
  BY DEF Ask, page
<1>2. HasFields(r, ProcFields)
  BY DEF HasFields, ProcFields
<1>3. /\ r.at = "asked" /\ r.op = o /\ r.copy = file /\ r.base = file
  OBVIOUS
<1> HIDE DEF r
<1>4. Holds(r) => Sound(file)
  BY <1>3, SoundIsLoadable DEF Holds, Ask, IInv, Data, Writing
<1>5. Prepared(p, r)
  BY <1>3, <1>4, ConfigStoreAssumption DEF Prepared, Made, Ask, Writing
<1>6. UpToDate(p, r, file, writer)
  BY <1>3, <1>4, SameFile DEF UpToDate
<1>7. Secured(p, r, file, writer, backups)
  BY <1>3 DEF Secured
<1>8. CacheHolds'
  BY <1>1 DEF IInv, CacheHolds
<1> QED BY <1>1, <1>2, <1>3, <1>5, <1>6, <1>7, <1>8, Move

\* A page that was just loaded.
LEMMA PageLoads ==
    ASSUME IInv, NEW p \in Processes, Loadable(file),
           Becomes(p, [Idle EXCEPT !.at = "page", !.copy = file, !.base = file, !.page = TRUE]),
           UNCHANGED <<file, tmp, backups, cache, writer>>
    PROVE  IInv'
<1> DEFINE r == [Idle EXCEPT !.at = "page", !.copy = file, !.base = file, !.page = TRUE]
<1>1. HasFields(r, ProcFields) /\ r.at = "page" /\ r.copy = file /\ r.base = file
  BY DEF Idle, HasFields, ProcFields
<1>2. Becomes(p, r)
  OBVIOUS
<1> HIDE DEF r
<1>3. Sound(file)
  BY SoundIsLoadable DEF IInv, Data
<1>4. Only("access", file, file)
  BY <1>3, SoundInParts DEF Only
<1>5. Prepared(p, r)
  BY <1>1, <1>3, <1>4 DEF Prepared, Made, OfPage, Writing, Sound
<1>6. UpToDate(p, r, file, writer)
  BY <1>1, <1>3, SameFile DEF UpToDate
<1>7. Secured(p, r, file, writer, backups)
  BY <1>1 DEF Secured
<1>8. CacheHolds'
  BY DEF IInv, CacheHolds
<1> QED BY <1>1, <1>2, <1>5, <1>6, <1>7, <1>8, Move

\* The page edits its own section.
LEMMA OnPageOnly ==
    ASSUME NEW o \in PageOps, NEW base, Sound(base), NEW c, Shaped(c), Only("access", base, c),
           NEW new \in OnPage(o, c)
    PROVE  Shaped(new) /\ Only("access", base, new)
<1>1. HasFields(c, Sections) /\ HasFields(c.access, Fields["access"])
  BY SectionNames DEF Shaped
<1>2. o.op \in {"mode", "add", "delete", "clear"}
  BY ConfigStoreAssumption
<1>3. \/ new = [c EXCEPT !.access.mode = o.mode]
      \/ new = [c EXCEPT !.access.entries = @ \cup {o.entry}]
      \/ new = [c EXCEPT !.access.entries = @ \ {o.entry}]
      \/ new = [c EXCEPT !.access.entries = {}]
  <2>1. CASE o.op = "mode"
    BY <2>1 DEF OnPage, AccessMode, When
  <2>2. CASE o.op = "add"
    BY <2>2 DEF OnPage, AddEntry, When
  <2>3. CASE o.op = "delete"
    BY <2>3 DEF OnPage, DeleteEntry, When
  <2>4. CASE o.op = "clear"
    BY <2>4 DEF OnPage, ClearEntries, When
  <2> QED BY <1>2, <2>1, <2>2, <2>3, <2>4
<1>4. /\ HasFields(new, Sections) /\ HasFields(new.access, Fields["access"])
      /\ \A f \in Sections \ {"access"} : new[f] = c[f]
  BY <1>1, <1>3, SectionNames DEF HasFields
<1>5. Shaped(new)
  BY <1>4, SectionNames DEF Shaped
<1> QED BY <1>4, <1>5 DEF Only

\* No other operation saves under the name of the page.
LEMMA ResultsNotOf ==
    ASSUME NEW o, NEW c, NEW new \in Results(o, c)
    PROVE  o.op # "access_control.update"
<1>1. ASSUME NEW r \in OfRules(o, c.rules) PROVE o.op # "access_control.update"
  BY <1>1 DEF OfRules, AddsRule
<1>2. ASSUME new \in OfPolicies(o, c) PROVE o.op # "access_control.update"
  BY <1>2, WhichPolicy
<1> QED BY <1>1, <1>2 DEF Results

\* The prompts answered: the copy is a result of the operation.
LEMMA AnswerKeeps ==
    ASSUME IInv, NEW p \in Processes, Answer(p)
    PROVE  IInv'
<1> DEFINE o == proc[p].op
           c == IF LoadsLast(o) THEN file ELSE proc[p].copy
           at == IF o.op = "rule.delete" THEN "create" ELSE "backup"
<1>1. PICK new \in Results(o, c) :
        /\ Loadable(c)
        /\ Becomes(p, [proc[p] EXCEPT !.copy = new, !.base = c, !.at = at])
  BY DEF Answer
<1> DEFINE r == [proc[p] EXCEPT !.copy = new, !.base = c, !.at = at]
<1>2. HasFields(proc[p], ProcFields) /\ At(p, "asked") /\ ~IsRestore(o) /\ Prepared(p, proc[p])
  BY DEF Answer, IInv, Data
<1> HIDE DEF c, at
<1>3. /\ HasFields(r, ProcFields)
      /\ r.at = at /\ r.op = o /\ r.copy = new /\ r.base = c
  BY <1>2 DEF HasFields, ProcFields
<1>4. Becomes(p, r)
  BY <1>1
<1>5. at \in {"create", "backup"} /\ (at = "create" => o.op = "rule.delete")
  BY DEF at
<1> HIDE DEF o, r
<1>6. /\ p \in Menus /\ Answered(o)
      /\ ~LoadsLast(o) => Sound(proc[p].base) /\ c = proc[p].copy /\ proc[p].copy = proc[p].base
      /\ LoadsLast(o) => c = file
  BY <1>2 DEF Prepared, Holds, Made, At, c, o
<1>7. Sound(c)
  BY <1>1, <1>6, SoundIsLoadable DEF IInv, Data
<1>8. Prepared(p, r)
  BY <1>1, <1>2, <1>3, <1>5, <1>6, <1>7, ResultsNotOf DEF Prepared, Made, OfPage, Writing
<1>9. UpToDate(p, r, file, writer)
  <2>1. CASE LoadsLast(o)
    BY <2>1, <1>3, <1>6, <1>7, SameFile DEF UpToDate
  <2>2. CASE ~LoadsLast(o)
    <3>1. r.base = proc[p].base /\ Holds(proc[p]) /\ OfPage(r) = OfPage(proc[p])
      BY <2>2, <1>1, <1>2, <1>3, <1>5, <1>6 DEF Holds, OfPage, At, o
    <3> QED BY <3>1 DEF UpToDate, IInv
  <2> QED BY <2>1, <2>2
<1>10. Secured(p, r, file, writer, backups)
  BY <1>3, <1>5 DEF Secured
<1>11. CacheHolds'
  BY DEF IInv, CacheHolds, Answer
<1>12. UNCHANGED <<file, tmp, backups, writer>> /\ r.at # "rename"
  BY <1>3, <1>5 DEF Answer
<1> QED BY <1>3, <1>4, <1>8, <1>9, <1>10, <1>11, <1>12, Move

\* A restore chosen: nothing is asked of what it will write,
LEMMA RestoreAskKeeps ==
    ASSUME IInv, NEW p \in Processes, AskRestore(p)
    PROVE  IInv'
<1> DEFINE r == [Idle EXCEPT !.at = "asked", !.op = [op |-> "backup.restore"]]
<1>1. HasFields(r, ProcFields) /\ r.at = "asked" /\ r.op = [op |-> "backup.restore"]
  BY DEF Idle, HasFields, ProcFields
<1>2. Becomes(p, r) /\ p \in Menus /\ UNCHANGED <<file, tmp, backups, cache, writer>>
  BY DEF AskRestore
<1> HIDE DEF r
<1>3. IsRestore(r.op) /\ Answered(r.op)
  BY <1>1 DEF IsRestore, Answered, AddsRule
<1>4. Prepared(p, r) /\ UpToDate(p, r, file, writer) /\ Secured(p, r, file, writer, backups)
  BY <1>1, <1>2, <1>3 DEF Prepared, UpToDate, Secured, Holds, Writing
<1>5. CacheHolds'
  BY <1>2 DEF IInv, CacheHolds
<1> QED BY <1>1, <1>2, <1>4, <1>5, Move

\* but that it was in the backup directory.
LEMMA RestoreAnswerKeeps ==
    ASSUME IInv, NEW p \in Processes, AnswerRestore(p)
    PROVE  IInv'
<1>1. PICK b \in DOMAIN backups :
        Becomes(p, [proc[p] EXCEPT !.at = "backup", !.copy = backups[b], !.base = file])
  BY DEF AnswerRestore
<1> DEFINE r == [proc[p] EXCEPT !.at = "backup", !.copy = backups[b], !.base = file]
<1>2. HasFields(proc[p], ProcFields) /\ At(p, "asked") /\ IsRestore(proc[p].op) /\ Prepared(p, proc[p])
  BY DEF AnswerRestore, IInv, Data
<1>3. /\ HasFields(r, ProcFields)
      /\ r.at = "backup" /\ r.op = proc[p].op /\ r.copy = backups[b]
  BY <1>2 DEF HasFields, ProcFields
<1>4. Becomes(p, r) /\ UNCHANGED <<file, tmp, backups, cache, writer>>
  BY <1>1 DEF AnswerRestore
<1> HIDE DEF r
<1>5. p \in Menus /\ Known(r.copy)
  BY <1>2, <1>3 DEF Prepared, At, IInv, Data
<1>6. Prepared(p, r) /\ UpToDate(p, r, file, writer) /\ Secured(p, r, file, writer, backups)
  BY <1>2, <1>3, <1>5 DEF Prepared, UpToDate, Secured, Holds, Writing
<1>7. CacheHolds'
  BY <1>4 DEF IInv, CacheHolds
<1> QED BY <1>3, <1>4, <1>6, <1>7, Move

\* The page edited,
LEMMA EditPageKeeps ==
    ASSUME IInv, NEW p \in Processes, NEW o \in PageOps, EditPage(p, o)
    PROVE  IInv'
<1>1. PICK new \in OnPage(o, proc[p].copy) : Becomes(p, [proc[p] EXCEPT !.copy = new])
  BY DEF EditPage
<1> DEFINE r == [proc[p] EXCEPT !.copy = new]
<1>2. HasFields(proc[p], ProcFields) /\ At(p, "page") /\ Prepared(p, proc[p])
  BY DEF EditPage, IInv, Data
<1>3. /\ HasFields(r, ProcFields)
      /\ r.at = "page" /\ r.op = proc[p].op /\ r.copy = new /\ r.base = proc[p].base
  BY <1>2 DEF HasFields, ProcFields, At
<1>4. Becomes(p, r) /\ UNCHANGED <<file, tmp, backups, cache, writer>>
  BY <1>1 DEF EditPage
<1> HIDE DEF r
<1>5. Sound(r.base) /\ Shaped(proc[p].copy) /\ Only("access", r.base, proc[p].copy)
  BY <1>2, <1>3 DEF Prepared, Holds, Made, OfPage, At
<1>6. Shaped(new) /\ Only("access", r.base, new)
  BY <1>1, <1>5, OnPageOnly
<1>7. Prepared(p, r)
  BY <1>3, <1>5, <1>6 DEF Prepared, Made, OfPage, Writing
<1>8. UpToDate(p, r, file, writer)
  BY <1>2, <1>3 DEF UpToDate, IInv, Holds, OfPage, At
<1>9. Secured(p, r, file, writer, backups) /\ CacheHolds'
  BY <1>3, <1>4 DEF Secured, IInv, CacheHolds
<1> QED BY <1>3, <1>4, <1>7, <1>8, <1>9, Move

\* and saved, which looks at the one section it edits.
LEMMA SavePageKeeps ==
    ASSUME IInv, NEW p \in Processes, SavePage(p)
    PROVE  IInv'
<1> DEFINE op == [op |-> "access_control.update"]
           r == [proc[p] EXCEPT !.at = "backup", !.op = op]
<1>1. /\ HasFields(proc[p], ProcFields) /\ At(p, "page") /\ Prepared(p, proc[p])
      /\ AccessValid(proc[p].copy.access)
  BY DEF SavePage, IInv, Data
<1>2. op.op = "access_control.update"
  OBVIOUS
<1>3. Becomes(p, r) /\ UNCHANGED <<file, tmp, backups, cache, writer>>
  BY DEF SavePage
<1> HIDE DEF op
<1>4. /\ HasFields(r, ProcFields)
      /\ r.at = "backup" /\ r.op = op /\ r.copy = proc[p].copy /\ r.base = proc[p].base
  BY <1>1 DEF HasFields, ProcFields, At
<1> HIDE DEF r
<1>5. Sound(r.base) /\ Shaped(r.copy) /\ Only("access", r.base, r.copy)
  BY <1>1, <1>4 DEF Prepared, Holds, Made, OfPage, At
<1>6. Prepared(p, r)
  BY <1>1, <1>2, <1>4, <1>5 DEF Prepared, Made, OfPage, Writing, IsRestore
<1>7. UpToDate(p, r, file, writer)
  BY <1>1, <1>2, <1>4 DEF UpToDate, IInv, Holds, OfPage, At
<1>8. Secured(p, r, file, writer, backups) /\ CacheHolds'
  BY <1>3, <1>4 DEF Secured, IInv, CacheHolds
<1> QED BY <1>3, <1>4, <1>6, <1>7, <1>8, Move

\* The quota check of the service.
LEMMA QuotaKeeps ==
    ASSUME IInv, CheckQuota
    PROVE  IInv'
<1> DEFINE op == [op |-> "quota.auto_disable"]
           p == "service"
<1>1. PICK new \in AutoDisable(file, Over) :
        Becomes(p, [Idle EXCEPT !.at = "backup", !.op = op, !.copy = new, !.base = file])
  BY DEF CheckQuota
<1> DEFINE r == [Idle EXCEPT !.at = "backup", !.op = op, !.copy = new, !.base = file]
<1>2. op.op = "quota.auto_disable"
  OBVIOUS
<1>3. /\ HasFields(r, ProcFields)
      /\ r.at = "backup" /\ r.op = op /\ r.copy = new /\ r.base = file
  BY DEF Idle, HasFields, ProcFields
<1>4. Becomes(p, r) /\ UNCHANGED <<file, tmp, backups, cache, writer>> /\ Loadable(file)
  BY <1>1 DEF CheckQuota
<1>5. p \in Processes
  BY DEF Processes
<1> HIDE DEF op, r, p
<1>6. Sound(file)
  BY <1>4, SoundIsLoadable DEF IInv, Data
<1>7. Answered(op)
  BY <1>2 DEF Answered, AddsRule
<1>8. new \in Results(op, file)
  BY <1>1, <1>2 DEF Results, OfPolicies
<1>9. Prepared(p, r)
  BY <1>2, <1>3, <1>6, <1>7, <1>8 DEF Prepared, Made, OfPage, Writing, IsRestore
<1>10. UpToDate(p, r, file, writer)
  BY <1>3, <1>6, SameFile DEF UpToDate
<1>11. Secured(p, r, file, writer, backups) /\ CacheHolds'
  BY <1>3, <1>4 DEF Secured, IInv, CacheHolds
<1> QED BY <1>3, <1>4, <1>5, <1>9, <1>10, <1>11, Move

------------------------------------------------------------------------------
(* The save.                                                                *)

\* A backup more, whole or torn, takes nothing from what others rely on.
LEMMA BackedUp ==
    ASSUME IInv, NEW reason, NEW x \in {file, Broken}, backups' = With(reason, x)
    PROVE  /\ \A b \in DOMAIN backups' : Known(backups'[b])
           /\ <<reason, clock>> \in DOMAIN backups' /\ backups'[<<reason, clock>>] = x
           /\ \A q \in Processes : Secured(q, proc[q], file, writer, backups')
<1> DEFINE name == <<reason, clock>>
<1>1. /\ DOMAIN backups' = DOMAIN backups \cup {name} /\ backups'[name] = x
      /\ \A b \in DOMAIN backups \ {name} : backups'[b] = backups[b]
  BY DEF With
<1> HIDE DEF name
<1>2. Known(x)
  BY DEF IInv, Data, Known
<1>3. \A b \in DOMAIN backups' : Known(backups'[b])
  BY <1>1, <1>2 DEF IInv, Data
<1>4. \A q \in Processes : Secured(q, proc[q], file, writer, backups')
  BY <1>1 DEF Secured, IInv
<1> QED BY <1>1, <1>3, <1>4 DEF name

\* A backup asked for.
LEMMA BackUpKeeps ==
    ASSUME IInv, NEW p \in Processes, BackUp(p)
    PROVE  IInv'
<1>1. backups' = With("nat-config", file) /\ UNCHANGED <<file, tmp, cache, proc, writer>>
  BY DEF BackUp
<1>2. \A b \in DOMAIN backups' : Known(backups'[b])
  BY <1>1, BackedUp
<1>3. \A q \in Processes : Secured(q, proc[q], file, writer, backups')
  BY <1>1, BackedUp
<1>4. Data' /\ CacheHolds' /\ Filled'
  BY <1>1, <1>2 DEF IInv, Data, CacheHolds, Filled, At
<1>5. \A q \in Processes : /\ Prepared(q, proc'[q]) /\ UpToDate(q, proc'[q], file', writer')
                           /\ Secured(q, proc'[q], file', writer', backups')
  BY <1>1, <1>3 DEF IInv
<1> QED BY <1>4, <1>5 DEF IInv

\* The backup of a save: from now on what it replaces is kept.
LEMMA CopyKeeps ==
    ASSUME IInv, NEW p \in Processes, CopyToBackup(p)
    PROVE  IInv'
<1>1. /\ backups' = With(proc[p].op.op, file) /\ At(p, "backup") /\ Goes(p, "create")
      /\ UNCHANGED <<file, tmp, cache, writer>>
  BY DEF CopyToBackup
<1>2. PICK r : /\ Becomes(p, r) /\ HasFields(r, ProcFields) /\ r.at = "create"
               /\ r.op = proc[p].op /\ r.copy = proc[p].copy /\ r.base = proc[p].base
  BY <1>1, GoesTo DEF IInv
<1>3. Prepared(p, r)
  BY <1>1, <1>2 DEF IInv, Prepared, Holds, Made, OfPage, Writing, At
<1>4. UpToDate(p, r, file, writer)
  BY <1>1, <1>2 DEF IInv, UpToDate, Holds, OfPage, Writing, At
<1>5. /\ \A b \in DOMAIN backups' : Known(backups'[b])
      /\ \A q \in Processes : Secured(q, proc[q], file, writer, backups')
  BY <1>1, BackedUp
<1>6. <<proc[p].op.op, clock>> \in DOMAIN backups' /\ backups'[<<proc[p].op.op, clock>>] = file
  BY <1>1, BackedUp
<1>7. Secured(p, r, file, writer, backups')
  BY <1>2, <1>6 DEF Secured
<1>8. CacheHolds'
  BY <1>1 DEF IInv, CacheHolds
<1> QED BY <1>1, <1>2, <1>3, <1>4, <1>5, <1>7, <1>8, Step DEF IInv, Data

\* An error, or a kill: the process is idle again.
LEMMA GivesUp ==
    ASSUME IInv, NEW p \in Processes, Becomes(p, Idle), UNCHANGED <<file, cache, writer>>,
           tmp' = [n \in Processes \cup {"tmp"} |-> tmp'[n]],
           \A q \in Processes \ {p} : tmp'[q] = tmp[q],
           backups' = backups \/ \E reason : backups' = With(reason, Broken)
    PROVE  IInv'
<1>1. /\ \A b \in DOMAIN backups' : Known(backups'[b])
      /\ \A q \in Processes : Secured(q, proc[q], file, writer, backups')
  BY BackedUp DEF IInv, Data
<1>2. /\ Prepared(p, Idle) /\ UpToDate(p, Idle, file, writer)
      /\ Secured(p, Idle, file, writer, backups')
  BY IdleAtRest DEF Prepared, UpToDate, Secured, Holds, Writing
<1>3. CacheHolds'
  BY DEF IInv, CacheHolds
<1> QED BY <1>1, <1>2, <1>3, IdleAtRest, Step

\* Failures and kills.
LEMMA FailureKeeps ==
    ASSUME IInv, NEW p \in Processes, BackupFails(p) \/ WriteFails(p) \/ Kill(p)
    PROVE  IInv'
<1>1. Becomes(p, Idle) /\ UNCHANGED <<file, cache, writer>>
  BY DEF BackupFails, WriteFails, Kill
<1>2. /\ tmp' = [n \in Processes \cup {"tmp"} |-> tmp'[n]]
      /\ \A q \in Processes \ {p} : tmp'[q] = tmp[q]
  BY DEF BackupFails, WriteFails, Kill, TmpOf, IInv, Data
<1>3. backups' = backups \/ \E reason : backups' = With(reason, Broken)
  BY DEF BackupFails, WriteFails, Kill
<1> QED BY <1>1, <1>2, <1>3, GivesUp

\* The temporary file, which is no one else's.
LEMMA TmpKeeps ==
    ASSUME IInv, NEW p \in Processes, CreateTmp(p) \/ FillTmp(p)
    PROVE  IInv'
<1>1. PICK at \in {"fill", "rename"} :
        /\ Goes(p, at) /\ proc[p].at \in {"create", "fill"}
        /\ tmp' = [tmp EXCEPT ![p] = IF at = "fill" THEN Broken ELSE proc[p].copy]
        /\ UNCHANGED <<file, backups, cache, writer>>
  BY DEF CreateTmp, FillTmp, TmpOf, At
<1>2. PICK r : /\ Becomes(p, r) /\ HasFields(r, ProcFields) /\ r.at = at
               /\ r.op = proc[p].op /\ r.copy = proc[p].copy /\ r.base = proc[p].base
  BY <1>1, GoesTo DEF IInv
<1>3. Prepared(p, r)
  BY <1>1, <1>2 DEF IInv, Prepared, Holds, Made, OfPage, Writing
<1>4. UpToDate(p, r, file, writer)
  BY <1>1, <1>2 DEF IInv, UpToDate, Holds, OfPage, Writing
<1>5. Secured(p, r, file, writer, backups')
  BY <1>1, <1>2 DEF IInv, Secured
<1>6. CacheHolds'
  BY <1>1 DEF IInv, CacheHolds
<1>7. /\ tmp' = [n \in Processes \cup {"tmp"} |-> tmp'[n]]
      /\ \A q \in Processes \ {p} : tmp'[q] = tmp[q]
      /\ r.at = "rename" => tmp'[p] = r.copy
  BY <1>1, <1>2 DEF IInv, Data
<1> QED BY <1>1, <1>2, <1>3, <1>4, <1>5, <1>6, <1>7, Step DEF IInv, Data

\* Over the rename: what others loaded is older now, and this process wrote it.
LEMMA RenameKeeps ==
    ASSUME IInv, NEW p \in Processes, Rename(p)
    PROVE  IInv'
<1>1. /\ At(p, "rename") /\ Goes(p, "after") /\ UNCHANGED <<backups, cache>>
      /\ tmp' = [tmp EXCEPT ![p] = Absent] /\ file' = tmp[p]
      /\ writer' = [f \in Sections |-> IF Differ(f, file, file') THEN p ELSE writer[f]]
  BY DEF Rename, TmpOf
<1>2. PICK r : /\ Becomes(p, r) /\ HasFields(r, ProcFields) /\ r.at = "after"
               /\ r.op = proc[p].op /\ r.copy = proc[p].copy /\ r.base = proc[p].base
  BY <1>1, GoesTo DEF IInv
<1>3. /\ proc' = [q \in Processes |-> proc'[q]] /\ proc'[p] = r
      /\ \A q \in Processes \ {p} : proc'[q] = proc[q]
  BY <1>2 DEF Becomes, IInv, Data
<1>4. file' = proc[p].copy
  BY <1>1 DEF IInv, Filled
<1>5. Prepared(p, proc[p]) /\ proc[p].at = "rename"
  BY <1>1 DEF IInv, At
<1>6. Known(file')
  <2>1. CASE IsRestore(proc[p].op)
    BY <2>1, <1>4, <1>5 DEF Prepared, Writing
  <2>2. CASE ~IsRestore(proc[p].op)
    <3>1. Sound(proc[p].base) /\ Made(proc[p])
      BY <2>2, <1>5 DEF Prepared, Holds, Writing
    <3>2. CASE OfPage(proc[p])
      BY <3>1, <3>2, <1>4, <1>5 DEF Made, Known
    <3>3. CASE ~OfPage(proc[p])
      <4>1. Answered(proc[p].op) /\ proc[p].copy \in Results(proc[p].op, proc[p].base)
        BY <3>1, <3>3, <1>5 DEF Made
      <4>2. Sound(proc[p].copy)
        BY <3>1, <4>1, ResultsEdit DEF Edits
      <4> QED BY <4>2, <1>4 DEF Known, Sound
    <3> QED BY <3>2, <3>3
  <2> QED BY <2>1, <2>2
<1>7. Data' /\ CacheHolds' /\ Filled'
  <2>1. Data'
    BY <1>1, <1>2, <1>3, <1>6 DEF IInv, Data
  <2>2. Filled'
    BY <1>1, <1>2, <1>3 DEF IInv, Data, Filled, At
  <2> QED BY <2>1, <2>2, <1>1 DEF IInv, CacheHolds
<1>8. Prepared(p, r)
  BY <1>2, <1>5 DEF Prepared, Holds, Made, OfPage, Writing, IsRestore
<1>9. UpToDate(p, r, file', writer')
  <2> SUFFICES ASSUME Holds(r), NEW f \in Sections, Differ(f, file', r.base),
                      ~(OfPage(r) /\ f = "access")
               PROVE  writer'[f] \notin {p, "nobody"}
    BY DEF UpToDate
  <2>1. r.op.op = "access_control.update" /\ Holds(proc[p])
    BY <1>2, <1>5 DEF Holds, Writing, IsRestore
  <2>2. Sound(proc[p].base) /\ Only("access", proc[p].base, proc[p].copy) /\ Shaped(proc[p].copy)
    BY <2>1, <1>2, <1>5 DEF Prepared, Made, OfPage
  <2>3. f # "access"
    BY <2>1 DEF OfPage
  <2>4. proc[p].copy[f] = r.base[f] /\ r.base = proc[p].base
    BY <2>2, <2>3, <1>2 DEF Only
  <2> QED BY <2>2, <2>4, <1>4, SoundIsLoadable DEF Differ, Sound
<1>10. Secured(p, r, file', writer', backups')
  BY <1>2 DEF Secured
<1>11. ASSUME NEW q \in Processes \ {p}
       PROVE  UpToDate(q, proc[q], file', writer')
  <2> SUFFICES ASSUME Holds(proc[q]), NEW f \in Sections, Differ(f, file', proc[q].base),
                      ~(OfPage(proc[q]) /\ f = "access")
               PROVE  writer'[f] \notin {q, "nobody"}
    BY DEF UpToDate
  <2>1. p # "nobody"
    BY ConfigStoreAssumption DEF Processes
  <2>2. CASE Differ(f, file, file')
    BY <2>1, <2>2, <1>1
  <2>3. CASE ~Differ(f, file, file')
    <3>1. Differ(f, file, proc[q].base)
      BY <2>3 DEF Differ
    <3>2. writer[f] \notin {q, "nobody"}
      BY <3>1 DEF UpToDate, IInv
    <3> QED BY <2>3, <3>2, <1>1
  <2> QED BY <2>2, <2>3
<1>12. ASSUME NEW q \in Processes \ {p}
       PROVE  Secured(q, proc[q], file', writer', backups')
  <2> SUFFICES ASSUME proc[q].at \in {"create", "fill", "rename"}, proc[q].op.op # "rule.delete",
                      \A f \in Sections : writer'[f] \in {"nobody", q}
               PROVE  \E b \in DOMAIN backups' : b[1] = proc[q].op.op /\ backups'[b] \in {file', Broken}
    BY DEF Secured
  <2>1. p # "nobody"
    BY ConfigStoreAssumption DEF Processes
  <2>2. \A f \in Sections : ~Differ(f, file, file') /\ writer[f] \in {"nobody", q}
    BY <2>1, <1>1
  <2>3. file' = file
    <3>1. file \notin {Broken, Absent} /\ file' \notin {Broken, Absent}
      BY <2>2, SectionNames DEF Differ
    <3>2. Shaped(file) /\ Shaped(file')
      BY <3>1, <1>6 DEF Known, IInv, Data
    <3>3. \A f \in Sections : file[f] = file'[f]
      BY <2>2 DEF Differ
    <3> QED BY <3>2, <3>3 DEF Shaped, HasFields
  <2>4. Secured(q, proc[q], file, writer, backups)
    BY DEF IInv
  <2> QED BY <2>2, <2>3, <2>4, <1>1 DEF Secured
<1>13. ASSUME NEW q \in Processes
       PROVE  /\ Prepared(q, proc'[q]) /\ UpToDate(q, proc'[q], file', writer')
              /\ Secured(q, proc'[q], file', writer', backups')
  BY <1>3, <1>8, <1>9, <1>10, <1>11, <1>12 DEF IInv
<1> QED BY <1>7, <1>13 DEF IInv

------------------------------------------------------------------------------
(* The cache.                                                               *)

\* The identity of a rule ends with its domain.
LEMMA IdentityKeys ==
    ASSUME NEW rules, NEW r \in Identities(rules)
    PROVE  r.key # NoKey /\ r.key[6] = r.domain
<1> DEFINE live == EnabledRules(rules)
<1>1. PICK n \in 1..Len(live) :
        r = [id |-> n - 1, key |-> RuleKey(live[n]), domain |-> live[n].target]
        /\ RuleKey(live[n]) # NoKey
  BY DEF Identities
<1> HIDE DEF live
<1>2. RuleKey(live[n])[6] = live[n].target
  BY <1>1 DEF RuleKey
<1> QED BY <1>1, <1>2

\* A pruned entry takes over the key of a rule for its own domain.
LEMMA PruneKeeps ==
    ASSUME CacheHolds, NEW rules, NEW e \in PruneStale(cache, Identities(rules))
    PROVE  Cached(e) /\ e.key # NoKey
<1> DEFINE live == Identities(rules)
<1>1. \A r \in live : r.key # NoKey /\ r.key[6] = r.domain
  BY IdentityKeys
<1> HIDE DEF live
<1>2. PICK d \in cache : \E heir \in Heirs(cache, d, live) :
        e = [d EXCEPT !.id = heir.id, !.key = heir.key, !.domain = heir.domain]
  BY DEF PruneStale, live
<1>3. PICK heir \in Heirs(cache, d, live) :
        e = [d EXCEPT !.id = heir.id, !.key = heir.key, !.domain = heir.domain]
  BY <1>2
<1>10. Cached(d)
  BY DEF CacheHolds
<1>4. heir \in live /\ IF d.key # NoKey THEN heir.key = d.key ELSE heir.domain = d.domain
  BY <1>3 DEF Heirs
<1>5. /\ HasFields(e, {"id", "key", "domain", "ip"})
      /\ e.key = heir.key /\ e.domain = heir.domain /\ e.ip = d.ip
  BY <1>3, <1>10 DEF Cached, HasFields
<1> QED BY <1>1, <1>10, <1>4, <1>5 DEF Cached

\* A round of the service.
LEMMA LearnKeeps ==
    ASSUME IInv, Learn
    PROVE  IInv'
<1>1. CacheHolds'
  <2> DEFINE live == Identities(file.rules)
             kept == PruneStale(cache, live)
  <2>1. ASSUME NEW e \in cache' PROVE Cached(e)
    <3>1. CASE e \in kept
      BY <3>1, PruneKeeps DEF IInv
    <3>2. CASE e \notin kept
      <4>1. PICK r \in live : e = [id |-> r.id, key |-> r.key, domain |-> r.domain, ip |-> Ip(r.domain)]
        BY <3>2 DEF Learn
      <4>2. r.key # NoKey /\ r.key[6] = r.domain
        BY <4>1, IdentityKeys
      <4>3. e.key = r.key /\ e.ip = Ip(r.domain)
        BY <4>1
      <4>4. HasFields(e, {"id", "key", "domain", "ip"})
        BY <4>1 DEF HasFields
      <4> QED BY <4>2, <4>3, <4>4 DEF Cached
    <3> QED BY <3>1, <3>2
  <2> QED BY <2>1 DEF CacheHolds
<1>2. UNCHANGED <<file, tmp, backups, proc, writer>>
  BY DEF Learn
<1>3. Data' /\ Filled'
  BY <1>2 DEF IInv, Data, Filled, At
<1> QED BY <1>1, <1>2, <1>3 DEF IInv

\* What follows a save.
LEMMA AfterKeeps ==
    ASSUME IInv, NEW p \in Processes, After(p)
    PROVE  IInv'
<1>1. At(p, "after") /\ UNCHANGED <<file, tmp, backups, writer>>
  BY DEF After
<1>2. CacheHolds'
  BY PruneKeeps DEF After, IInv, CacheHolds
<1>3. PICK at \in {"idle", "return", "page"} :
        Goes(p, at) /\ (at = "page" => proc[p].op.op = "access_control.update")
  BY DEF After, Ends
<1>4. PICK r : /\ Becomes(p, r) /\ HasFields(r, ProcFields) /\ r.at = at
               /\ r.op = proc[p].op /\ r.copy = proc[p].copy /\ r.base = proc[p].base
  BY <1>3, GoesTo DEF IInv
<1>5. Prepared(p, r)
  BY <1>1, <1>3, <1>4 DEF IInv, Prepared, Holds, Made, OfPage, Writing, At
<1>6. UpToDate(p, r, file, writer)
  BY <1>1, <1>3, <1>4 DEF IInv, UpToDate, Holds, OfPage, Writing, At
<1>7. Secured(p, r, file, writer, backups)
  BY <1>3, <1>4 DEF Secured
<1> QED BY <1>1, <1>2, <1>3, <1>4, <1>5, <1>6, <1>7, Move

------------------------------------------------------------------------------
(* Together.                                                                *)

\* Who the processes are.
LEMMA MenusAre == Menus \subseteq Processes /\ "service" \in Processes
BY DEF Processes

\* Every step keeps the invariant.
LEMMA StepKeeps == IInv /\ [Next]_vars => IInv'
<1> SUFFICES ASSUME IInv, [Next]_vars PROVE IInv'
  OBVIOUS
<1> USE MenusAre
<1>1. ASSUME NEW p \in Menus, NEW o \in Ops \cup Alone, Ask(p, o) PROVE IInv'
  BY <1>1, AskKeeps
<1>2. ASSUME NEW p \in Menus, Answer(p) PROVE IInv'
  BY <1>2, AnswerKeeps
<1>3. ASSUME NEW p \in Menus, Cancel(p) PROVE IInv'
  BY <1>3, EndsRests DEF Cancel
<1>4. ASSUME NEW p \in Menus, Refused(p) \/ LeavePage(p) PROVE IInv'
  BY <1>4, Rests, IdleAtRest DEF Refused, LeavePage
<1>5. ASSUME NEW p \in Menus, AskRestore(p) PROVE IInv'
  BY <1>5, RestoreAskKeeps
<1>6. ASSUME NEW p \in Menus, AnswerRestore(p) PROVE IInv'
  BY <1>6, RestoreAnswerKeeps
<1>7. ASSUME NEW p \in Menus, BackUp(p) PROVE IInv'
  BY <1>7, BackUpKeeps
<1>8. ASSUME NEW p \in Menus, OpenPage(p) PROVE IInv'
  BY <1>8, PageLoads DEF OpenPage
<1>9. ASSUME NEW p \in Menus, SavePage(p) PROVE IInv'
  BY <1>9, SavePageKeeps
<1>10. ASSUME NEW p \in Menus, Return(p) PROVE IInv'
  <2>1. CASE Loadable(file)
    BY <1>10, <2>1, PageLoads DEF Return
  <2>2. CASE ~Loadable(file)
    BY <1>10, <2>2, Rests, IdleAtRest DEF Return
  <2> QED BY <2>1, <2>2
<1>11. ASSUME NEW p \in Menus, NEW o \in PageOps, EditPage(p, o) PROVE IInv'
  BY <1>11, EditPageKeeps
<1>12. CASE CheckQuota
  BY <1>12, QuotaKeeps
<1>13. ASSUME NEW p \in Processes, Write(p) PROVE IInv'
  BY <1>13, CopyKeeps, FailureKeeps, TmpKeeps, RenameKeeps, AfterKeeps DEF Write
<1>14. ASSUME NEW p \in Processes, Kill(p) PROVE IInv'
  BY <1>14, FailureKeeps
<1>15. CASE Learn
  BY <1>15, LearnKeeps
<1>16. CASE Tick \/ UNCHANGED vars
  <2>1. UNCHANGED <<file, tmp, backups, cache, proc, writer>>
    BY <1>16 DEF Tick, vars
  <2> QED BY <2>1 DEF IInv, Data, CacheHolds, Filled, At
<1> QED BY <1>1, <1>2, <1>3, <1>4, <1>5, <1>6, <1>7, <1>8, <1>9, <1>10, <1>11, <1>12, <1>13,
           <1>14, <1>15, <1>16 DEF Next

\* It holds at first.
LEMMA InitInv == Init => IInv
<1> SUFFICES ASSUME Init PROVE IInv
  OBVIOUS
<1>1. ASSUME NEW p \in Processes PROVE HasFields(proc[p], ProcFields) /\ proc[p].at = "idle"
  BY IdleAtRest DEF Init
<1>2. DOMAIN backups = {}
  BY DEF Init
<1>3. Data
  BY <1>1, <1>2, ConfigStoreAssumption DEF Init, Data, Known
<1>4. CacheHolds
  BY ConfigStoreAssumption DEF Init, CacheHolds
<1>5. Filled
  BY <1>1 DEF Filled, At
<1>6. ASSUME NEW p \in Processes
      PROVE  /\ Prepared(p, proc[p]) /\ UpToDate(p, proc[p], file, writer)
             /\ Secured(p, proc[p], file, writer, backups)
  BY <1>1, AtRest
<1> QED BY <1>3, <1>4, <1>5, <1>6 DEF IInv

\* The invariant: whoever is about to save holds a sound change of what it
\* loaded, whole in its own temporary file, and what it replaces is backed up.
THEOREM Inductive == Spec => []IInv
BY InitInv, StepKeeps, PTL DEF Spec

------------------------------------------------------------------------------
(* The properties.                                                          *)

\* Whatever edits, deletions, prunes and rounds there were, a cached address is
\* kept under the key of a rule for the domain it was resolved from.
THEOREM CacheSafe == Spec => []CacheKeepsToItsDomain
<1>1. IInv => CacheKeepsToItsDomain
  BY DEF IInv, CacheHolds, Cached, CacheKeepsToItsDomain
<1> QED BY Inductive, <1>1, PTL

\* Only the rename takes a process from "rename" to "after".
LEMMA Renaming ==
    ASSUME IInv, [Next]_vars, NEW p \in Processes, Renames(p)
    PROVE  Rename(p)
<1>1. proc[p].at = "rename" /\ proc'[p].at = "after" /\ proc = [q \in Processes |-> proc[q]]
  BY DEF Renames, At, IInv, Data
<1> USE MenusAre
<1>2. ASSUME NEW q \in Processes, NEW r, Becomes(q, r), r.at # "after" PROVE FALSE
  BY <1>1, <1>2 DEF Becomes
<1>3. ASSUME NEW q \in Processes, NEW at, Goes(q, at), at # "after" \/ proc[q].at # "rename" PROVE FALSE
  <2>1. HasFields(proc[q], ProcFields) /\ "at" \in ProcFields
    BY DEF IInv, Data, ProcFields
  <2>2. [proc[q] EXCEPT !.at = at].at = at
    BY <2>1 DEF HasFields
  <2>3. Becomes(q, [proc[q] EXCEPT !.at = at])
    BY <1>3 DEF Goes, Becomes
  <2>4. CASE q = p
    BY <2>2, <2>3, <2>4, <1>1, <1>2, <1>3
  <2>5. CASE q # p
    BY <2>5, <1>1, <1>3 DEF Goes
  <2> QED BY <2>4, <2>5
<1>4. Idle.at # "after"
  BY IdleAtRest
<1>5. ASSUME NEW q \in Processes, Becomes(q, Idle) PROVE FALSE
  BY <1>2, <1>4, <1>5
<1>6. ASSUME NEW q \in Processes, UNCHANGED proc PROVE FALSE
  BY <1>1, <1>6
<1>7. ASSUME NEW q \in Menus, NEW o \in Ops \cup Alone, Ask(q, o) PROVE FALSE
  BY <1>2, <1>7 DEF Ask
<1>8. ASSUME NEW q \in Menus, Answer(q) \/ AnswerRestore(q) \/ SavePage(q) PROVE FALSE
  <2>1. HasFields(proc[q], ProcFields)
    BY DEF IInv, Data
  <2>2. ASSUME NEW at \in {"create", "backup"}, NEW op, NEW copy, NEW base,
               \/ Becomes(q, [proc[q] EXCEPT !.copy = copy, !.base = base, !.at = at])
               \/ Becomes(q, [proc[q] EXCEPT !.at = at, !.copy = copy, !.base = base])
               \/ Becomes(q, [proc[q] EXCEPT !.at = at, !.op = op])
        PROVE  FALSE
    <3>1. /\ [proc[q] EXCEPT !.copy = copy, !.base = base, !.at = at].at = at
          /\ [proc[q] EXCEPT !.at = at, !.copy = copy, !.base = base].at = at
          /\ [proc[q] EXCEPT !.at = at, !.op = op].at = at
      BY <2>1 DEF HasFields, ProcFields
    <3> QED BY <2>2, <3>1, <1>2
  <2>3. CASE Answer(q)
    BY <2>2, <2>3 DEF Answer
  <2>4. CASE AnswerRestore(q)
    BY <2>2, <2>4 DEF AnswerRestore
  <2>5. CASE SavePage(q)
    BY <2>2, <2>5 DEF SavePage
  <2> QED BY <1>8, <2>3, <2>4, <2>5
<1>9. ASSUME NEW q \in Menus, NEW o \in PageOps, EditPage(q, o) PROVE FALSE
  <2>1. PICK new : Becomes(q, [proc[q] EXCEPT !.copy = new])
    BY <1>9 DEF EditPage
  <2>2. HasFields(proc[q], ProcFields) /\ proc[q].at = "page"
    BY <1>9 DEF IInv, Data, EditPage, At
  <2>3. [proc[q] EXCEPT !.copy = new].at = "page"
    BY <2>2 DEF HasFields, ProcFields
  <2> QED BY <2>1, <2>3, <1>2
<1>10. ASSUME NEW q \in Menus, AskRestore(q) \/ OpenPage(q) PROVE FALSE
  BY <1>2, <1>10 DEF AskRestore, OpenPage, Idle
<1>11. ASSUME NEW q \in Menus, Return(q) PROVE FALSE
  <2>1. CASE Loadable(file)
    BY <1>2, <1>11, <2>1 DEF Return, Idle
  <2>2. CASE ~Loadable(file)
    BY <1>5, <1>11, <2>2 DEF Return
  <2> QED BY <2>1, <2>2
<1>12. ASSUME NEW q \in Menus, Cancel(q) PROVE FALSE
  BY <1>3, <1>12 DEF Cancel, Ends
<1>13. ASSUME NEW q \in Menus, Refused(q) \/ LeavePage(q) PROVE FALSE
  BY <1>5, <1>13 DEF Refused, LeavePage
<1>14. ASSUME NEW q \in Menus, BackUp(q) PROVE FALSE
  BY <1>6, <1>14 DEF BackUp
<1>15. ASSUME CheckQuota PROVE FALSE
  BY <1>2, <1>15 DEF CheckQuota, Idle
<1>16. ASSUME NEW q \in Processes, BackupFails(q) \/ WriteFails(q) \/ Kill(q) PROVE FALSE
  BY <1>5, <1>16 DEF BackupFails, WriteFails, Kill
<1>17. ASSUME NEW q \in Processes, CopyToBackup(q) \/ CreateTmp(q) \/ FillTmp(q) PROVE FALSE
  BY <1>3, <1>17 DEF CopyToBackup, CreateTmp, FillTmp
<1>18. ASSUME NEW q \in Processes, After(q) PROVE FALSE
  BY <1>3, <1>18 DEF After, Ends, At
<1>19. ASSUME NEW q \in Processes, Rename(q) PROVE q = p
  BY <1>1, <1>19 DEF Rename, Goes
<1>20. ASSUME Learn \/ Tick \/ UNCHANGED vars PROVE FALSE
  BY <1>6, <1>20 DEF Learn, Tick, vars
<1> QED BY <1>7, <1>8, <1>9, <1>10, <1>11, <1>12, <1>13, <1>14, <1>15, <1>16, <1>17, <1>18, <1>19,
           <1>20 DEF Next, Write

\* What is put in place is the copy; but for a restore it is sound, and differs
\* from what was loaded in one section.
LEMMA Saved ==
    ASSUME IInv, NEW p \in Processes, Rename(p)
    PROVE  /\ file' = proc[p].copy /\ proc[p].at = "rename" /\ Prepared(p, proc[p])
           /\ IsRestore(Saving(p)) => p \in Menus
<1>1. At(p, "rename") /\ file' = tmp[p] /\ Prepared(p, proc[p])
  BY DEF Rename, TmpOf, IInv
<1>2. file' = proc[p].copy
  BY <1>1 DEF IInv, Filled
<1> QED BY <1>1, <1>2 DEF Prepared, Writing, At, Saving

\* Any other save is sound, a change of what was loaded in the section it is
\* about.
LEMMA SavedSound ==
    ASSUME IInv, NEW p \in Processes, Rename(p), ~IsRestore(Saving(p))
    PROVE  /\ Holds(proc[p]) /\ Sound(proc[p].base) /\ Sound(proc[p].copy)
           /\ Only(SectionOf(Saving(p)), proc[p].base, proc[p].copy)
           /\ OfPage(proc[p]) => SectionOf(Saving(p)) = "access"
<1> DEFINE r == proc[p]
<1>1. r.at = "rename" /\ Holds(r) /\ Sound(r.base) /\ Made(r)
  BY Saved DEF Saving, Prepared, Holds, Writing
<1>2. CASE OfPage(r)
  <2>1. Saving(p).op = "access_control.update"
    BY <1>1, <1>2 DEF OfPage, Saving
  <2>2. SectionOf(Saving(p)) = "access"
    BY <2>1 DEF SectionOf, AddsRule, FromPage
  <2>3. Shaped(r.copy) /\ Only("access", r.base, r.copy) /\ AccessValid(r.copy.access)
    BY <1>1, <1>2 DEF Made
  <2>4. HasFields(r.base, Sections) /\ \A f \in Sections : PartSound(f, r.base[f])
    BY <1>1, SoundInParts
  <2>5. HasFields(r.copy.access, Fields["access"])
    BY <2>3, SectionNames DEF Shaped
  <2>6. PartSound("access", r.copy["access"])
    BY <2>3, <2>5 DEF PartSound
  <2>7. Sound(r.copy)
    BY <2>3, <2>4, <2>6, SoundInParts DEF Only
  <2> QED BY <1>1, <2>2, <2>3, <2>7
<1>3. CASE ~OfPage(r)
  <2>1. Answered(r.op) /\ r.copy \in Results(r.op, r.base)
    BY <1>1, <1>3 DEF Made
  <2> QED BY <1>1, <1>3, <2>1, ResultsEdit DEF Edits, Saving
<1> QED BY <1>2, <1>3

\* What a process puts in place is the whole of what it meant to write.
THEOREM RenameWhole == Spec => NeverTorn
<1>1. IInv /\ [Next]_vars => [\A p \in Processes : Renames(p) => file' = proc[p].copy]_vars
  BY Renaming, Saved
<1> QED BY Inductive, <1>1, PTL DEF Spec, NeverTorn

\* The file changes in no other step.
LEMMA OnlyRenames == [Next]_vars => file' = file \/ \E p \in Processes : Rename(p)
BY DEF Next, Write, vars, Ask, Answer, Cancel, Refused, AskRestore, AnswerRestore, BackUp, OpenPage,
       SavePage, LeavePage, Return, EditPage, CheckQuota, CopyToBackup, BackupFails, CreateTmp,
       FillTmp, WriteFails, After, Kill, Learn, Tick

\* Only the restoring of a backup leads from a file the service can load to one
\* it cannot.
THEOREM LoadableStays == Spec => StaysLoadable
<1>1. IInv /\ [Next]_vars
        => [Loadable(file) /\ ~Loadable(file') =>
              \E p \in Menus : Renames(p) /\ IsRestore(Saving(p))]_vars
  <2> SUFFICES ASSUME IInv, [Next]_vars, Loadable(file), ~Loadable(file')
               PROVE  \E p \in Menus : Renames(p) /\ IsRestore(Saving(p))
    OBVIOUS
  <2>1. file' # file
    BY DEF Loadable
  <2>2. PICK p \in Processes : Rename(p)
    BY <2>1, OnlyRenames
  <2>3. Renames(p)
    <3>1. proc = [q \in Processes |-> proc[q]] /\ HasFields(proc[p], ProcFields)
      BY DEF IInv, Data
    <3>2. proc'[p] = [proc[p] EXCEPT !.at = "after"]
      BY <2>2, <3>1 DEF Rename, Goes
    <3>3. proc'[p].at = "after"
      BY <3>1, <3>2 DEF HasFields, ProcFields
    <3> QED BY <2>2, <3>3 DEF Renames, Rename
  <2>4. CASE IsRestore(Saving(p))
    BY <2>2, <2>3, <2>4, Saved
  <2>5. CASE ~IsRestore(Saving(p))
    <3>1. Sound(file')
      BY <2>2, <2>5, Saved, SavedSound
    <3>2. Loadable(file')
      BY <3>1, SoundIsLoadable DEF Known, Sound
    <3> QED BY <3>2
  <2> QED BY <2>4, <2>5
<1> QED BY Inductive, <1>1, PTL DEF Spec, StaysLoadable

\* The edit that is saved is one the editor lets through.
LEMMA SavedEdit ==
    ASSUME IInv, NEW p \in Processes, Rename(p), Saving(p).op = "rule.edit"
    PROVE  LET o == Saving(p)
           IN /\ Answered(o) /\ RulesSound(proc[p].base.rules)
              /\ proc[p].copy.rules \in EditRule(proc[p].base.rules, o.n, o.patch, o.ss, o.yes)
<1> DEFINE o == Saving(p)
           base == proc[p].base
           copy == proc[p].copy
<1>1. ~IsRestore(o)
  BY DEF IsRestore
<1>2. Sound(base) /\ Holds(proc[p])
  BY <1>1, SavedSound
<1>3. proc[p].at = "rename" /\ Made(proc[p])
  BY <1>2, Saved DEF Prepared
<1>4. ~OfPage(proc[p])
  BY <1>3 DEF OfPage, Saving
<1>5. Answered(o) /\ copy \in Results(o, base)
  BY <1>3, <1>4 DEF Made, Saving
<1>6. copy \notin OfPolicies(o, base)
  BY WhichPolicy
<1>7. PICK r \in OfRules(o, base.rules) : copy = [base EXCEPT !.rules = r]
  BY <1>5, <1>6 DEF Results
<1>8. HasFields(base, Sections) /\ PartSound("rules", base["rules"])
  BY <1>2, SoundInParts, SectionNames
<1>9. copy.rules = r
  BY <1>7, <1>8, SectionNames DEF HasFields
<1>10. r \in EditRule(base.rules, o.n, o.patch, o.ss, o.yes)
  BY <1>7 DEF OfRules, AddsRule
<1> QED BY <1>5, <1>8, <1>9, <1>10 DEF PartSound

\* An edit is not saved while a rule that is on takes some of the same traffic.
THEOREM EditsSafe == Spec => EditsStayApart
<1>1. ASSUME IInv, [Next]_vars, NEW p \in Menus, Renames(p), Saving(p).op = "rule.edit",
             NEW rules, rules = proc[p].copy.rules, NEW n, n = Saving(p).n, rules[n].enabled,
             NEW m \in DOMAIN rules \ {n}, IsForward(rules[m]), rules[m].enabled
      PROVE  Takes(rules[m]) \cap Takes(rules[n]) = {}
  <2>1. Rename(p)
    BY <1>1, Renaming, MenusAre
  <2>2. /\ Answered(Saving(p)) /\ RulesSound(proc[p].base.rules)
        /\ rules \in EditRule(proc[p].base.rules, n, Saving(p).patch, Saving(p).ss, Saving(p).yes)
    BY <1>1, <2>1, SavedEdit, MenusAre
  <2>3. Saving(p).patch.sport # <<>> =>
            Saving(p).patch.sport[1] \in Int /\ Saving(p).patch.sport[2] \in Int
    BY <1>1, <2>2 DEF Answered
  <2> QED BY <1>1, <2>2, <2>3, EditApart
<1>2. IInv /\ [Next]_vars
        => [\A p \in Menus : Renames(p) /\ Saving(p).op = "rule.edit" =>
             LET rules == proc[p].copy.rules
                 n == Saving(p).n
             IN rules[n].enabled =>
                  \A m \in DOMAIN rules \ {n} :
                     IsForward(rules[m]) /\ rules[m].enabled
                       => Takes(rules[m]) \cap Takes(rules[n]) = {}]_vars
  BY <1>1
<1> QED BY Inductive, <1>2, PTL DEF Spec, EditsStayApart

\* A save never undoes what the same menu saved before.
THEOREM OwnSavesKept == Spec => KeepsItsOwnSaves
<1>1. ASSUME IInv, [Next]_vars, NEW p \in Processes, Renames(p), ~IsRestore(Saving(p)),
             NEW f \in Sections \ {SectionOf(Saving(p))}, Differ(f, file, file')
      PROVE  writer[f] # p
  <2>1. Rename(p)
    BY <1>1, Renaming
  <2>2. /\ file' = proc[p].copy /\ Holds(proc[p]) /\ Sound(proc[p].base) /\ Sound(proc[p].copy)
        /\ Only(SectionOf(Saving(p)), proc[p].base, proc[p].copy)
        /\ OfPage(proc[p]) => SectionOf(Saving(p)) = "access"
    BY <1>1, <2>1, Saved, SavedSound
  <2>3. Differ(f, file, proc[p].base)
    BY <1>1, <2>2, SoundIsLoadable DEF Differ, Only, Sound
  <2>4. UpToDate(p, proc[p], file, writer)
    BY <1>1 DEF IInv
  <2> QED BY <1>1, <2>2, <2>3, <2>4 DEF UpToDate
<1>2. IInv /\ [Next]_vars
        => [\A p \in Processes : Renames(p) /\ ~IsRestore(Saving(p)) =>
             \A f \in Sections \ {SectionOf(Saving(p))} :
               Differ(f, file, file') => writer[f] # p]_vars
  BY <1>1
<1> QED BY Inductive, <1>2, PTL DEF Spec, KeepsItsOwnSaves

\* A save that says it leaves the nft script alone does.
LEMMA HintTrue ==
    ASSUME IInv, [Next]_vars
    PROVE  HintIsTrue
<1> SUFFICES ASSUME NEW p \in Processes, Renames(p), ~AffectsNft(Saving(p))
             PROVE  ScriptOf(proc[p].copy) = ScriptOf(proc[p].base)
  BY DEF HintIsTrue
<1>1. Rename(p)
  BY Renaming
<1>2. ~IsRestore(Saving(p)) /\ Saving(p).op # "access_control.update"
  BY DEF AffectsNft, IsRestore
<1>3. Sound(proc[p].base) /\ Made(proc[p]) /\ proc[p].at = "rename"
  BY <1>1, <1>2, Saved, SavedSound DEF Prepared
<1>4. Answered(proc[p].op) /\ proc[p].copy \in Results(proc[p].op, proc[p].base)
  BY <1>2, <1>3 DEF Made, OfPage, Saving
<1>5. /\ \A f \in Sections \ {"dw", "telegram", "timezone"} : proc[p].copy[f] = proc[p].base[f]
      /\ proc[p].copy.dw.enabled = proc[p].base.dw.enabled
      /\ proc[p].copy.dw.domains = proc[p].base.dw.domains
  BY <1>3, <1>4, QuietFields DEF Saving
<1> QED BY <1>5, SameScript

\* What the audit log says of an edit gives back the rule that was.
LEMMA RecordTrue ==
    ASSUME IInv, [Next]_vars
    PROVE  EditIsOnRecord
<1>1. ASSUME NEW p \in Menus, Renames(p), Saving(p).op = "rule.edit", writer["rules"] \in {"nobody", p},
             NEW n, n = Saving(p).n, NEW new, new = proc[p].copy.rules,
             NEW line, line = AuditDetail(n, proc[p].base.rules[n], new[n])
      PROVE  /\ DOMAIN line.old # {}
             /\ file'.rules = new
             /\ file.rules = [new EXCEPT ![line.index + 1] = PutBack(@, line.old)]
  <2>1. Rename(p)
    BY <1>1, Renaming, MenusAre
  <2>2. /\ Answered(Saving(p)) /\ RulesSound(proc[p].base.rules)
        /\ new \in EditRule(proc[p].base.rules, n, Saving(p).patch, Saving(p).ss, Saving(p).yes)
    BY <1>1, <2>1, SavedEdit, MenusAre
  <2>3. Saving(p).patch.sport # <<>> =>
            Saving(p).patch.sport[1] \in Int /\ Saving(p).patch.sport[2] \in Int
    BY <1>1, <2>2 DEF Answered
  <2>4. /\ DOMAIN line.old # {}
        /\ proc[p].base.rules = [new EXCEPT ![line.index + 1] = PutBack(@, line.old)]
    <3> DEFINE o == Saving(p)
               was == proc[p].base.rules
    <3>1. RulesSound(was) /\ new \in EditRule(was, n, o.patch, o.ss, o.yes)
      BY <2>2
    <3>2. line = AuditDetail(n, was[n], new[n])
      BY <1>1
    <3>3. o.patch.sport # <<>> => o.patch.sport[1] \in Int /\ o.patch.sport[2] \in Int
      BY <2>3
    <3> HIDE DEF o, was
    <3>4. /\ DOMAIN line.old # {}
          /\ was = [new EXCEPT ![line.index + 1] = PutBack(@, line.old)]
      BY ONLY <3>1, <3>2, <3>3, EditRecorded
    <3> QED BY <3>4 DEF was
  <2>5. file'.rules = new
    BY <1>1, <2>1, Saved, MenusAre
  <2>6. file.rules = proc[p].base.rules
    <3>1. ~IsRestore(Saving(p)) /\ Saving(p).op # "access_control.update"
      BY <1>1 DEF IsRestore
    <3>2. Holds(proc[p]) /\ UpToDate(p, proc[p], file, writer)
      BY <2>1, <3>1, SavedSound, MenusAre DEF IInv
    <3>3. ~Differ("rules", file, proc[p].base)
      BY <1>1, <3>2, SectionNames DEF UpToDate
    <3> QED BY <3>3 DEF Differ
  <2> QED BY <2>4, <2>5, <2>6
<1> QED BY <1>1 DEF EditIsOnRecord

\* What a save says of itself, on the screen and in the log, is so.
THEOREM SavesTellTheTruth == Spec => SaysTrue
<1>1. IInv /\ [Next]_vars => [HintIsTrue /\ EditIsOnRecord]_vars
  BY HintTrue, RecordTrue
<1> QED BY Inductive, <1>1, PTL DEF Spec, SaysTrue

\* As long as nobody else writes, what a save replaces is backed up.
THEOREM BackupKept == Spec => ReplacedIsKept
<1>1. ASSUME IInv, [Next]_vars, NEW p \in Processes, Renames(p), Saving(p).op # "rule.delete",
             \A f \in Sections : writer[f] \in {"nobody", p}
      PROVE  \E b \in DOMAIN backups : backups[b] = file \/ (b[1] = Saving(p).op /\ backups[b] = Broken)
  <2>1. Secured(p, proc[p], file, writer, backups) /\ proc[p].at = "rename"
    BY <1>1 DEF IInv, Renames, At
  <2> QED BY <1>1, <2>1 DEF Secured, Saving
<1>2. IInv /\ [Next]_vars
        => [\A p \in Processes :
             /\ Renames(p) /\ Saving(p).op # "rule.delete"
             /\ \A f \in Sections : writer[f] \in {"nobody", p}
             => \E b \in DOMAIN backups :
                  backups[b] = file \/ (b[1] = Saving(p).op /\ backups[b] = Broken)]_vars
  BY <1>1
<1> QED BY Inductive, <1>2, PTL DEF Spec, ReplacedIsKept
===============================================================================
