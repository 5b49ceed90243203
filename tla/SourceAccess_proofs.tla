------------------------ MODULE SourceAccess_proofs ------------------------
(***************************************************************************)
(* What is in the list in force, for any domains, answers, files, edits    *)
(* and faults: only what was resolved or written down (SourcesAreResolved, *)
(* WidthFollows), all that was there before an outage                      *)
(* (OutageKeepsSources), and somebody after a switch that raised no        *)
(* warning (LockCheckTrue).                                                *)
(*                                                                         *)
(* The three parts of the invariant are one on the data (IInv), which the  *)
(* other two (Kept, Assured) are inductive relative to.                    *)
(***************************************************************************)
EXTENDS SourceAccess, TLAPS, WellFoundedInduction

Awake == service.at # "sleep"

\* The entry of a domain: what is in use was good, what was good was heard.
EntryOk(s, h) ==
    /\ s.domain \in Names
    /\ s.good \subseteq h[s.domain] /\ s.good \subseteq Addresses
    /\ OfFamily(Start.dw, s.good) = s.good
    /\ s.current \subseteq s.good
    /\ s.effective = Expand(s.current, s.cidr)
StateOk(state, h) ==
    /\ DOMAIN state \subseteq Nat
    /\ \A n \in DOMAIN state : EntryOk(state[n], h)

\* A configuration that the edits can have led to.
ConfOk(c) ==
    /\ c \in Policies /\ DynamicValid(c.dw)
    /\ c.dw.v4 = Start.dw.v4 /\ c.dw.v6 = Start.dw.v6

Heard == heard \in [Names -> SUBSET Addresses]
Around == dns \in [Names -> SUBSET Addresses] /\ disk \in Files \cup {FileOf({})}
ServiceOk ==
    /\ service.at \in {"sleep", "resolve", "save", "read"}
    /\ service.dyn \in BOOLEAN
    /\ service.at \in {"resolve", "save"} => service.dyn /\ service.conf.dw.enabled
    /\ service = [at |-> service.at, conf |-> service.conf,
                  state |-> service.state, dyn |-> service.dyn]
    /\ ConfOk(service.conf) /\ StateOk(service.state, heard)
MenuOk ==
    /\ menu.at \in {"idle", "resolve", "save", "prune", "pruned", "page"}
    /\ menu = [at |-> menu.at, state |-> menu.state, conf |-> menu.conf, vetted |-> menu.vetted]
    /\ StateOk(menu.state, heard) /\ ConfOk(menu.conf)

\* What the kernel has, by the configuration it was made from.
ResolvedOf(c) == UNION {Expand(heard[d.domain], c.dw.cidr) : d \in EnabledDomains(c.dw)}
InForce ==
    /\ ConfOk(basis.conf)
    /\ kernel.mode \in Modes \cup {"none"} /\ kernel.entries \subseteq Sources
    /\ SourcesAreResolved /\ WidthFollows

IInv ==
    /\ Heard /\ Around /\ ConfOk(conf) /\ StateOk(stored, heard)
    /\ ServiceOk /\ MenuOk /\ InForce

------------------------------------------------------------------------------
(* The operators on states.                                                 *)

\* A non-empty set of naturals has a least element.
LEMMA LeastOf ==
    ASSUME NEW S \in SUBSET Nat, S # {}
    PROVE  \E n \in S : \A m \in S : n <= m
<1>1. PICK n \in S : \A m \in S : <<m, n>> \notin OpToRel(<, Nat)
  BY WFMin, NatLessThanWellFounded, Zenon
<1>2. \A m \in S : <<m, n>> \in Nat \X Nat
  OBVIOUS
<1>3. \A m \in S : ~(<<m, n>>[1] < <<m, n>>[2])
  BY <1>1, <1>2, Zenon DEF OpToRel
<1>4. \A m \in S : n <= m
  BY <1>3
<1> QED BY <1>4

\* The first of some positions is one of them.
LEMMA FirstIsOne ==
    ASSUME NEW state, NEW at \in SUBSET Nat, at # {}
    PROVE  \E n \in at : FirstOf(state, at) = state[n] /\ \A m \in at : n <= m
<1> DEFINE n == CHOOSE k \in at : \A m \in at : k <= m
<1>1. n \in at /\ \A m \in at : n <= m
  BY LeastOf
<1>2. FirstOf(state, at) = state[n]
  BY DEF FirstOf
<1> QED BY <1>1, <1>2

\* What Find finds is of that name and domain; it finds the first there is.
LEMMA FindFinds ==
    ASSUME NEW state, DOMAIN state \subseteq Nat, NEW d,
           \E n \in DOMAIN state : state[n].name = d.name /\ state[n].domain = d.domain
    PROVE  \E n \in DOMAIN state :
              /\ Find(state, d) = state[n]
              /\ state[n].name = d.name /\ state[n].domain = d.domain
<1> DEFINE at == {n \in DOMAIN state : state[n].name = d.name /\ state[n].domain = d.domain}
<1>1. at \in SUBSET Nat /\ at # {}
  OBVIOUS
<1>2. PICK n \in at : FirstOf(state, at) = state[n]
  <2> HIDE DEF at
  <2> QED BY <1>1, FirstIsOne
<1> QED BY <1>2 DEF Find

LEMMA FindFindsNot ==
    ASSUME NEW state, NEW d,
           ~ \E n \in DOMAIN state : state[n].name = d.name /\ state[n].domain = d.domain
    PROVE  Find(state, d) = NoEntry
<1>1. {n \in DOMAIN state : state[n].name = d.name /\ state[n].domain = d.domain} = {}
  OBVIOUS
<1> QED BY <1>1 DEF Find, FirstOf

LEMMA ExpandFacts ==
    /\ \A c : Expand({}, c) = {}
    /\ \A S, T, c : S \subseteq T => Expand(S, c) \subseteq Expand(T, c)
    /\ \A S, c : S # {} => Expand(S, c) # {}
    /\ \A S : Expand(S, 32) = S
    /\ \A S, c : S \subseteq Addresses => Expand(S, c) \subseteq Sources
BY DEF Expand, Sources, Addresses

LEMMA FamilyFacts ==
    ASSUME NEW dw
    PROVE  /\ OfFamily(dw, {}) = {}
           /\ \A S : OfFamily(dw, S) \subseteq S
           /\ \A S : OfFamily(dw, OfFamily(dw, S)) = OfFamily(dw, S)
           /\ \A S, T : S \subseteq T /\ OfFamily(dw, T) = T => OfFamily(dw, S) = S
BY DEF OfFamily

\* The families a configuration asks for are those of the first one.
LEMMA SameFamily ==
    ASSUME NEW c, ConfOk(c)
    PROVE  \A S : OfFamily(c.dw, S) = OfFamily(Start.dw, S)
BY DEF OfFamily, ConfOk

\* What Find finds, an entry or none, as far as its addresses go.
LEMMA FindOk ==
    ASSUME NEW state, NEW h, StateOk(state, h), NEW d, d.domain \in Names
    PROVE  LET s == Find(state, d)
           IN  /\ s.good \subseteq h[d.domain] /\ s.good \subseteq Addresses
               /\ OfFamily(Start.dw, s.good) = s.good
               /\ s.current \subseteq s.good
               /\ s.effective = Expand(s.current, s.cidr)
<1>1. CASE \E n \in DOMAIN state : state[n].name = d.name /\ state[n].domain = d.domain
  BY <1>1, FindFinds DEF StateOk, EntryOk
<1>2. CASE ~ \E n \in DOMAIN state : state[n].name = d.name /\ state[n].domain = d.domain
  <2>1. Find(state, d) = NoEntry
    BY <1>2, FindFindsNot
  <2>2. NoEntry.good = {} /\ NoEntry.current = {} /\ NoEntry.effective = {}
    BY DEF NoEntry
  <2> QED BY <2>1, <2>2, ExpandFacts, FamilyFacts
<1> QED BY <1>1, <1>2

\* The view of an entry is its addresses at the width asked for.
LEMMA ViewIs ==
    ASSUME NEW s, s.effective = Expand(s.current, s.cidr), NEW c
    PROVE  View(s, c) = Expand(s.current, c)
BY DEF View

------------------------------------------------------------------------------
(* Refreshes.                                                               *)

\* The domain that the configuration has for a state's entry, once refreshed.
LEMMA RefreshedFields ==
    ASSUME NEW dw, NEW d, NEW was, NEW answer, d.enabled \in BOOLEAN
    PROVE  LET new == Refreshed(dw, d, was, answer)
               ips == OfFamily(dw, answer)
           IN  /\ new.name = d.name /\ new.domain = d.domain
               /\ new.effective = Expand(new.current, new.cidr)
               /\ ~d.enabled => new.good = was.good /\ new.current = {}
               /\ d.enabled /\ ips # {} => new.good = ips /\ new.current = ips
               /\ d.enabled /\ ips = {} =>
                    /\ new.good = OfFamily(dw, was.good)
                    /\ new.current = IF dw.lastGood THEN new.good ELSE {}
<1> DEFINE ips  == OfFamily(dw, answer)
           good == OfFamily(dw, was.good)
           kept == IF dw.lastGood THEN good ELSE {}
           new  == Refreshed(dw, d, was, answer)
<1>1. ~d.enabled => new = Entry(dw, d, was.good, {}, FALSE)
  BY Zenon DEF Refreshed
<1>2. d.enabled /\ ips # {} => new = Entry(dw, d, ips, ips, FALSE)
  BY Zenon DEF Refreshed
<1>3. d.enabled /\ ips = {} => new = Entry(dw, d, good, kept, kept # {})
  BY Zenon DEF Refreshed
<1> HIDE DEF ips, good, kept, new
<1>4. new.name = d.name /\ new.domain = d.domain /\ new.effective = Expand(new.current, new.cidr)
  BY <1>1, <1>2, <1>3 DEF Entry
<1>5. ~d.enabled => new.good = was.good /\ new.current = {}
  BY <1>1 DEF Entry
<1>6. d.enabled /\ ips # {} => new.good = ips /\ new.current = ips
  BY <1>2 DEF Entry
<1>7. d.enabled /\ ips = {} => new.good = good /\ new.current = kept
  BY <1>3 DEF Entry
<1> QED BY <1>4, <1>5, <1>6, <1>7 DEF ips, good, kept, new

LEMMA DomainsOf ==
    ASSUME NEW c \in Policies
    PROVE  /\ DOMAIN c.dw.domains \subseteq Nat
           /\ \A n \in DOMAIN c.dw.domains : /\ c.dw.domains[n].domain \in Names
                                             /\ c.dw.domains[n].enabled \in BOOLEAN
<1>1. c.dw.domains \in Seq(Domains)
  BY DEF Policies
<1>2. DOMAIN c.dw.domains = 1..Len(c.dw.domains) /\ Len(c.dw.domains) \in Nat
      /\ \A n \in DOMAIN c.dw.domains : c.dw.domains[n] \in Domains
  BY <1>1
<1> QED BY <1>2 DEF Domains

\* A refresh keeps the entries to what was heard.
LEMMA RefreshOk ==
    ASSUME NEW c, ConfOk(c), NEW state, NEW h, StateOk(state, h),
           NEW answers \in [Names -> SUBSET Addresses], NEW k,
           \A d \in Names : h[d] \subseteq k[d],
           \A d \in EnabledDomains(c.dw) : answers[d.domain] \subseteq k[d.domain]
    PROVE  StateOk(Refresh(c.dw, state, answers), k)
<1> DEFINE ds == c.dw.domains
<1>0. StateOk(state, k)
  BY DEF StateOk, EntryOk
<1>1. CASE ~c.dw.enabled
  BY <1>0, <1>1 DEF Refresh
<1>2. CASE c.dw.enabled
  <2>1. Refresh(c.dw, state, answers) =
          [n \in DOMAIN ds |-> Refreshed(c.dw, ds[n], Find(state, ds[n]), answers[ds[n].domain])]
    BY <1>2, Zenon DEF Refresh
  <2>2. SUFFICES ASSUME NEW n \in DOMAIN ds
                 PROVE  EntryOk(Refreshed(c.dw, ds[n], Find(state, ds[n]), answers[ds[n].domain]), k)
    BY <2>1, DomainsOf DEF StateOk, ConfOk
  <2> DEFINE d    == ds[n]
             was  == Find(state, d)
             ips  == OfFamily(c.dw, answers[d.domain])
             new  == Refreshed(c.dw, d, was, answers[d.domain])
  <2>3. d.domain \in Names /\ d.enabled \in BOOLEAN
    BY DomainsOf DEF ConfOk
  <2>4. /\ was.good \subseteq k[d.domain] /\ was.good \subseteq Addresses
        /\ OfFamily(Start.dw, was.good) = was.good
    BY <1>0, <2>3, FindOk
  <2>5. d.enabled => answers[d.domain] \subseteq k[d.domain]
    BY DEF EnabledDomains
  <2>6. answers[d.domain] \subseteq Addresses
    BY <2>3
  <2>7. \A S : OfFamily(c.dw, S) = OfFamily(Start.dw, S)
    BY SameFamily
  <2>8. /\ new.domain = d.domain /\ new.effective = Expand(new.current, new.cidr)
        /\ ~d.enabled => new.good = was.good /\ new.current = {}
        /\ d.enabled /\ ips # {} => new.good = ips /\ new.current = ips
        /\ d.enabled /\ ips = {} =>
             /\ new.good = OfFamily(c.dw, was.good)
             /\ new.current = IF c.dw.lastGood THEN new.good ELSE {}
    <3> HIDE DEF ds, d, was
    <3> QED BY ONLY <2>3, RefreshedFields DEF new, ips
  <2> HIDE DEF d, was, ips, new
  <2>9. /\ new.good \subseteq k[d.domain] /\ new.good \subseteq Addresses
        /\ new.current \subseteq new.good
    <3>1. ips \subseteq answers[d.domain] /\ OfFamily(c.dw, was.good) \subseteq was.good
      BY FamilyFacts DEF ips
    <3> QED BY <3>1, <2>3, <2>4, <2>5, <2>6, <2>8
  <2>10. OfFamily(Start.dw, new.good) = new.good
    BY <2>3, <2>4, <2>7, <2>8, FamilyFacts DEF ips
  <2> QED BY <2>3, <2>8, <2>9, <2>10 DEF EntryOk, d, was, ips, new
<1> QED BY <1>1, <1>2 DEF ConfOk, Policies

LEMMA PruneOk ==
    ASSUME NEW dw, NEW state, NEW h, StateOk(state, h)
    PROVE  StateOk(PruneState(dw, state), h)
BY DEF StateOk, PruneState

\* What was heard stays heard.
LEMMA HeardGrows ==
    ASSUME NEW state, NEW h, NEW k, StateOk(state, h), \A d \in Names : h[d] \subseteq k[d]
    PROVE  StateOk(state, k)
BY DEF StateOk, EntryOk

\* With one switch for each domain, what is found of an enabled one after a
\* refresh is what the refresh made of what was found before.
LEMMA FindRefreshed ==
    ASSUME NEW c, ConfOk(c), c.dw.enabled, OneSwitchEach(c.dw), NEW state,
           NEW answers, NEW d \in EnabledDomains(c.dw)
    PROVE  /\ OfFamily(c.dw, answers[d.domain]) # {} =>
                /\ Find(Refresh(c.dw, state, answers), d).good = OfFamily(c.dw, answers[d.domain])
                /\ Find(Refresh(c.dw, state, answers), d).current = OfFamily(c.dw, answers[d.domain])
           /\ OfFamily(c.dw, answers[d.domain]) = {} =>
                /\ Find(Refresh(c.dw, state, answers), d).good = OfFamily(c.dw, Find(state, d).good)
                /\ Find(Refresh(c.dw, state, answers), d).current =
                     IF c.dw.lastGood THEN OfFamily(c.dw, Find(state, d).good) ELSE {}
<1> DEFINE ds == c.dw.domains
           ref == Refresh(c.dw, state, answers)
<1>1. ref = [n \in DOMAIN ds |-> Refreshed(c.dw, ds[n], Find(state, ds[n]), answers[ds[n].domain])]
  BY Zenon DEF Refresh
<1>2. \A n \in DOMAIN ds : /\ ds[n].enabled \in BOOLEAN
                           /\ ref[n].name = ds[n].name /\ ref[n].domain = ds[n].domain
  BY <1>1, DomainsOf, RefreshedFields DEF ConfOk
<1>3. PICK m \in DOMAIN ds : d = ds[m] /\ ds[m].enabled
  BY DEF EnabledDomains
<1>4. PICK n \in DOMAIN ref : /\ Find(ref, d) = ref[n]
                              /\ ref[n].name = d.name /\ ref[n].domain = d.domain
  <2>1. DOMAIN ref \subseteq Nat /\ DOMAIN ref = DOMAIN ds
    BY <1>1, DomainsOf DEF ConfOk
  <2> QED BY <2>1, <1>2, <1>3, FindFinds
<1>5. n \in DOMAIN ds /\ ds[n].name = d.name /\ ds[n].domain = d.domain
  BY <1>1, <1>2, <1>4
<1>6. ds[n].enabled
  BY <1>3, <1>5 DEF OneSwitchEach
<1>7. Find(state, ds[n]) = Find(state, d)
  BY <1>5 DEF Find
<1>8. Find(ref, d) = Refreshed(c.dw, ds[n], Find(state, d), answers[d.domain])
  BY <1>1, <1>4, <1>5, <1>7
<1> QED BY <1>2, <1>5, <1>6, <1>8, RefreshedFields

------------------------------------------------------------------------------
(* The operations of the menu.                                              *)

LEMMA SetMode ==
    ASSUME NEW c, ConfOk(c), NEW mode \in Modes
    PROVE  ConfOk([c EXCEPT !.access.mode = mode])
BY DEF ConfOk, Policies, DynamicValid

LEMMA SetEntries ==
    ASSUME NEW c, ConfOk(c), NEW entries \in SUBSET Addresses
    PROVE  ConfOk([c EXCEPT !.access.entries = entries])
BY DEF ConfOk, Policies, DynamicValid

LEMMA SetDomains ==
    ASSUME NEW c, ConfOk(c), NEW ds \in Seq(Domains), NEW new,
           new = [c EXCEPT !.dw.domains = ds],
           \A n \in DOMAIN ds : DomainValid(ds[n])
    PROVE  ConfOk(new)
BY DEF ConfOk, Policies, DynamicValid

LEMMA SetWidth ==
    ASSUME NEW c, ConfOk(c), NEW bits \in {24, 32}
    PROVE  ConfOk([c EXCEPT !.dw.cidr = bits])
BY DEF ConfOk, Policies, DynamicValid

LEMMA SeqOfFunction ==
    ASSUME NEW S, NEW k \in Nat, NEW f, f = [n \in DOMAIN f |-> f[n]], DOMAIN f = 1..k,
           \A n \in DOMAIN f : f[n] \in S
    PROVE  f \in Seq(S)
OBVIOUS

LEMMA RemoveAtOf ==
    ASSUME NEW S, NEW s \in Seq(S), NEW i \in DOMAIN s
    PROVE  /\ SE!RemoveAt(s, i) \in Seq(S)
           /\ \A n \in DOMAIN SE!RemoveAt(s, i) : \E m \in DOMAIN s : SE!RemoveAt(s, i)[n] = s[m]
<1> DEFINE a == SubSeq(s, 1, i - 1)
           b == SubSeq(s, i + 1, Len(s))
<1>1. /\ a \in Seq(S) /\ Len(a) = i - 1
      /\ \A n \in 1..(i - 1) : a[n] = s[n]
  OBVIOUS
<1>2. /\ b \in Seq(S) /\ Len(b) = Len(s) - i
      /\ \A n \in 1..(Len(s) - i) : b[n] = s[n + i]
  OBVIOUS
<1>3. SE!RemoveAt(s, i) = a \o b
  BY DEF SE!RemoveAt
<1> HIDE DEF a, b
<1>4. /\ a \o b \in Seq(S) /\ DOMAIN (a \o b) = 1..(Len(a) + Len(b))
      /\ \A n \in 1..(Len(a) + Len(b)) :
           (a \o b)[n] = IF n <= Len(a) THEN a[n] ELSE b[n - Len(a)]
  BY <1>1, <1>2
<1>5. ASSUME NEW n \in DOMAIN (a \o b)
      PROVE  \E m \in DOMAIN s : (a \o b)[n] = s[m]
  <2>1. CASE n <= Len(a)
    <3>1. n \in 1..(i - 1) /\ n \in DOMAIN s /\ (a \o b)[n] = a[n]
      BY <2>1, <1>1, <1>2, <1>4
    <3> QED BY <3>1, <1>1
  <2>2. CASE ~(n <= Len(a))
    <3> DEFINE m == n - Len(a)
    <3>1. m \in 1..(Len(s) - i) /\ m + i \in DOMAIN s
      BY <2>2, <1>1, <1>2, <1>4
    <3>2. (a \o b)[n] = b[m]
      BY <2>2, <1>4
    <3> HIDE DEF m
    <3>3. b[m] = s[m + i]
      BY <3>1, <1>2
    <3> QED BY <3>1, <3>2, <3>3
  <2> QED BY <2>1, <2>2
<1> QED BY <1>3, <1>4, <1>5

LEMMA EditOk ==
    ASSUME ConfOk(conf), NEW o \in Edits, o.op \notin ListOps, NEW new \in Results(o, conf)
    PROVE  ConfOk(new)
<1> DEFINE ds == conf.dw.domains
<1>0. /\ conf \in Policies /\ ds \in Seq(Domains)
      /\ \A n \in DOMAIN ds : DomainValid(ds[n])
  BY DEF ConfOk, Policies, DynamicValid
<1>2. CASE o.op = "add"
  <2>1. new \in AddDomain(conf, o.domain)
    BY <1>2, Zenon DEF Results
  <2>2. /\ DomainValid(o.domain)
        /\ new = [conf EXCEPT !.dw.domains = Append(@, o.domain)]
    BY <2>1 DEF AddDomain, When
  <2>3. o.domain \in Domains
    BY <1>2, SourceAccessAssumption
  <2>4. /\ Append(ds, o.domain) \in Seq(Domains)
        /\ \A n \in DOMAIN Append(ds, o.domain) : DomainValid(Append(ds, o.domain)[n])
    BY <1>0, <2>2, <2>3
  <2>5. new = [conf EXCEPT !.dw.domains = Append(ds, o.domain)]
    BY <2>2, <1>0 DEF Policies
  <2> QED BY <2>4, <2>5, SetDomains
<1>3. CASE o.op = "delete"
  <2>1. new \in DeleteDomain(conf, o.n)
    BY <1>3 DEF Results
  <2>2. /\ o.n \in DOMAIN ds
        /\ new = [conf EXCEPT !.dw.domains = SE!RemoveAt(ds, o.n)]
    BY <2>1, <1>0 DEF DeleteDomain, When, Policies
  <2>3. /\ SE!RemoveAt(ds, o.n) \in Seq(Domains)
        /\ \A n \in DOMAIN SE!RemoveAt(ds, o.n) : DomainValid(SE!RemoveAt(ds, o.n)[n])
    BY <1>0, <2>2, RemoveAtOf
  <2> QED BY <2>2, <2>3, SetDomains
<1>4. CASE o.op = "toggle"
  <2>1. new \in ToggleDomain(conf, o.n)
    BY <1>4 DEF Results
  <2>2. /\ o.n \in DOMAIN ds
        /\ new = [conf EXCEPT !.dw.domains = [ds EXCEPT ![o.n].enabled = ~@]]
    BY <2>1, <1>0 DEF ToggleDomain, Policies
  <2> DEFINE ts == [ds EXCEPT ![o.n].enabled = ~@]
  <2>3. DOMAIN ts = DOMAIN ds /\ DOMAIN ds = 1..Len(ds) /\ Len(ds) \in Nat
    BY <1>0
  <2>4. ASSUME NEW n \in DOMAIN ds
        PROVE  ts[n] \in Domains /\ DomainValid(ts[n])
    <3>1. ds[n] \in Domains /\ DomainValid(ds[n])
      BY <1>0
    <3>2. ts[n] = IF n = o.n THEN [ds[n] EXCEPT !.enabled = ~ds[n].enabled] ELSE ds[n]
      BY <2>2
    <3> QED BY <3>1, <3>2 DEF Domains, DomainValid
  <2>5. ts \in Seq(Domains)
    <3>1. ts = [n \in DOMAIN ts |-> ts[n]]
      OBVIOUS
    <3> HIDE DEF ts
    <3> QED BY <3>1, <2>3, <2>4, SeqOfFunction
  <2> QED BY <2>2, <2>3, <2>4, <2>5, SetDomains
<1>5. CASE o.op = "expand"
  <2>1. new \in SetExpansion(conf, o.bits, TRUE)
    BY <1>5 DEF Results
  <2>2. o.bits \in {24, 32} /\ new = [conf EXCEPT !.dw.cidr = o.bits]
    BY <2>1 DEF SetExpansion, When
  <2> QED BY <2>2, SetWidth
<1> QED BY <1>2, <1>3, <1>4, <1>5, SourceAccessAssumption

\* The page of the lists leaves the domains alone.
LEMMA PageEditOk ==
    ASSUME NEW c, ConfOk(c), NEW o \in Edits, o.op \in ListOps, NEW new \in PageResults(o, c)
    PROVE  /\ ConfOk(new) /\ new.dw = c.dw
           /\ o.op = "mode" => new.access.mode = o.mode /\ new.access.entries = c.access.entries
           /\ o.op = "enter" => new.access.mode = c.access.mode /\ new.access.entries # {}
<1>0. /\ c = [c EXCEPT !.access = c.access] /\ c.access.entries \in SUBSET Addresses
      /\ c = [access |-> c.access, dw |-> c.dw]
      /\ c.access = [mode |-> c.access.mode, entries |-> c.access.entries]
  BY DEF ConfOk, Policies
<1>1. CASE o.op = "mode"
  <2>1. new \in AccessMode(c, o.mode, o.mode = "whitelist" /\ WarnsOfLock(c) => o.yes)
    BY <1>1, Zenon DEF PageResults
  <2>2. new = [c EXCEPT !.access.mode = o.mode]
    BY <2>1 DEF AccessMode, When
  <2>3. o.mode \in Modes
    BY <1>1, SourceAccessAssumption
  <2> QED BY <1>0, <1>1, <2>2, <2>3, SetMode
<1>2. CASE o.op = "enter"
  <2>1. new \in AddEntry(c, o.entry)
    BY <1>2, Zenon DEF PageResults
  <2>2. o.entry \in Addresses /\ new = [c EXCEPT !.access.entries = c.access.entries \cup {o.entry}]
    BY <1>0, <2>1 DEF AddEntry, When
  <2> QED BY <1>0, <1>2, <2>2, SetEntries
<1>3. CASE o.op = "remove"
  <2>1. new \in DeleteEntry(c, o.entry)
    BY <1>3, Zenon DEF PageResults
  <2>2. new = [c EXCEPT !.access.entries = c.access.entries \ {o.entry}]
    BY <1>0, <2>1 DEF DeleteEntry, When
  <2> QED BY <1>0, <1>3, <2>2, SetEntries
<1>4. CASE o.op = "clear"
  <2>1. new \in ClearEntries(c, TRUE)
    BY <1>4, Zenon DEF PageResults
  <2>2. new = [c EXCEPT !.access.entries = {}]
    BY <1>0, <2>1 DEF ClearEntries, When
  <2> QED BY <1>0, <1>4, <2>2, SetEntries
<1> QED BY <1>1, <1>2, <1>3, <1>4 DEF ListOps

------------------------------------------------------------------------------
(* The list of a round.                                                     *)

LEMMA DynamicIs ==
    ASSUME NEW c, ConfOk(c), NEW state, NEW h, StateOk(state, h)
    PROVE  DynamicSources(c.dw, state) =
             IF c.dw.enabled
             THEN UNION {Expand(Find(state, d).current, c.dw.cidr) : d \in EnabledDomains(c.dw)}
             ELSE {}
<1>1. \A d \in EnabledDomains(c.dw) : d.domain \in Names
  BY DomainsOf DEF EnabledDomains, ConfOk
<1>2. \A d \in EnabledDomains(c.dw) :
        View(Find(state, d), c.dw.cidr) = Expand(Find(state, d).current, c.dw.cidr)
  BY <1>1, FindOk, ViewIs
<1> QED BY <1>2 DEF DynamicSources

LEMMA ListIsResolved ==
    ASSUME NEW c, ConfOk(c), NEW state, StateOk(state, heard), Around
    PROVE  LET list == ListOf(c, state)
           IN  /\ list.mode = c.access.mode /\ list.entries \subseteq Sources
               /\ list.entries \subseteq c.access.entries \cup FileEntries
                                           \cup ResolvedOf(c)
               /\ c.dw.cidr = 32 => list.entries \subseteq Addresses
<1> DEFINE dyn == DynamicSources(c.dw, state)
           file == FileSources(c.dw)
<1>1. \A d \in EnabledDomains(c.dw) :
        Find(state, d).current \subseteq heard[d.domain] /\ Find(state, d).current \subseteq Addresses
  BY DomainsOf, FindOk DEF EnabledDomains, ConfOk
<1>2. dyn \subseteq UNION {Expand(Find(state, d).current, c.dw.cidr) : d \in EnabledDomains(c.dw)}
  BY DynamicIs
<1>3. dyn \subseteq ResolvedOf(c) /\ dyn \subseteq Sources
  <2>1. \A d \in EnabledDomains(c.dw) :
          /\ Expand(Find(state, d).current, c.dw.cidr) \subseteq Expand(heard[d.domain], c.dw.cidr)
          /\ Expand(Find(state, d).current, c.dw.cidr) \subseteq Sources
    BY <1>1, ExpandFacts
  <2> QED BY <1>2, <2>1 DEF ResolvedOf
<1>4. c.dw.cidr = 32 => dyn \subseteq Addresses
  BY <1>1, <1>2, ExpandFacts
<1>5. file \subseteq FileEntries /\ file \subseteq Addresses
  BY SourceAccessAssumption DEF FileSources, FileEntries, Around, FileOf
<1>6. c.access.entries \subseteq Addresses /\ Addresses \subseteq Sources
  BY DEF ConfOk, Policies, Sources
<1>7. /\ ListOf(c, state).mode = c.access.mode
      /\ ListOf(c, state).entries \subseteq c.access.entries \cup dyn \cup file
  BY DEF ListOf, Merged
<1> HIDE DEF dyn, file
<1>8. ListOf(c, state).entries \subseteq Sources
  BY <1>3, <1>5, <1>6, <1>7
<1>9. ListOf(c, state).entries \subseteq c.access.entries \cup FileEntries
                                            \cup ResolvedOf(c)
  BY <1>3, <1>5, <1>7
<1>10. c.dw.cidr = 32 => ListOf(c, state).entries \subseteq Addresses
  BY <1>4, <1>5, <1>6, <1>7
<1> QED BY <1>7, <1>8, <1>9, <1>10

------------------------------------------------------------------------------
(* The invariant on the data.                                               *)

LEMMA InitIInv == Init => IInv
<1> SUFFICES ASSUME Init PROVE IInv
  OBVIOUS
<1> USE DEF Init
<1>1. Heard /\ Around
  BY SourceAccessAssumption DEF Heard, Around
<1>2. ConfOk(Start)
  BY SourceAccessAssumption DEF ConfOk
<1>3. \A h : StateOk(<<>>, h)
  BY DEF StateOk
<1>4. ServiceOk /\ MenuOk
  BY <1>2, <1>3 DEF ServiceOk, MenuOk, Asleep, MenuIdle
<1>5. InForce
  BY <1>2 DEF InForce, NoRules, SourcesAreResolved, WidthFollows
<1> QED BY <1>1, <1>2, <1>3, <1>4, <1>5 DEF IInv

\* What look-ups add to `heard`.
LEMMA HearOk ==
    ASSUME Heard, Around, NEW dw, Hear(dw)
    PROVE  /\ Heard'
           /\ \A d \in Names : heard[d] \subseteq heard'[d]
           /\ \A d \in EnabledDomains(dw) : d.domain \in Names => dns[d.domain] \subseteq heard'[d.domain]
BY DEF Heard, Around, Hear

\* Steps that neither apply nor look anything up leave what is in force as it was.
LEMMA InForceStays ==
    ASSUME InForce, UNCHANGED <<kernel, basis>>, \A d \in Names : heard[d] \subseteq heard'[d]
    PROVE  InForce'
<1> DEFINE used == basis.conf
<1>1. \A d \in EnabledDomains(used.dw) :
        Expand(heard[d.domain], used.dw.cidr) \subseteq Expand(heard'[d.domain], used.dw.cidr)
  <2>1. \A d \in EnabledDomains(used.dw) : d.domain \in Names
    BY DomainsOf DEF InForce, ConfOk, EnabledDomains
  <2> QED BY <2>1, ExpandFacts
<1>2. UNION {Expand(heard[d.domain], used.dw.cidr) : d \in EnabledDomains(used.dw)}
        \subseteq UNION {Expand(heard'[d.domain], used.dw.cidr) : d \in EnabledDomains(used.dw)}
  BY <1>1
<1>3. SourcesAreResolved'
  BY <1>2 DEF InForce, SourcesAreResolved, EnabledDomains
<1> QED BY <1>3 DEF InForce, WidthFollows, ConfOk, DynamicValid, DomainValid, Sources, Addresses

\* What a step does not touch stays as it should be.
LEMMA Untouched ==
    ASSUME IInv
    PROVE  /\ UNCHANGED conf => ConfOk(conf')
           /\ UNCHANGED heard => Heard' /\ (UNCHANGED <<kernel, basis>> => InForce')
           /\ UNCHANGED <<dns, disk>> => Around'
           /\ UNCHANGED <<stored, heard>> => StateOk(stored', heard')
           /\ UNCHANGED <<service, heard>> => ServiceOk'
           /\ UNCHANGED <<menu, heard>> => MenuOk'
<1>1. UNCHANGED heard => (UNCHANGED <<kernel, basis>> => InForce')
  BY InForceStays DEF IInv
<1>2. UNCHANGED <<service, heard>> => ServiceOk'
  BY DEF IInv, ServiceOk
<1>3. UNCHANGED <<menu, heard>> => MenuOk'
  BY DEF IInv, MenuOk
<1> QED BY <1>1, <1>2, <1>3 DEF IInv, Heard, Around

LEMMA ServiceMoves ==
    ASSUME NEW at, NEW c, NEW state, NEW dyn,
           service' = [at |-> at, conf |-> c, state |-> state, dyn |-> dyn],
           at \in {"sleep", "resolve", "save", "read"}, dyn \in BOOLEAN,
           at \in {"resolve", "save"} => dyn /\ c.dw.enabled,
           ConfOk(c), StateOk(state, heard')
    PROVE  ServiceOk'
BY DEF ServiceOk

LEMMA MenuMoves ==
    ASSUME NEW at, NEW state, NEW c, NEW vetted,
           menu' = [at |-> at, state |-> state, conf |-> c, vetted |-> vetted],
           at \in {"idle", "resolve", "save", "prune", "pruned", "page"},
           StateOk(state, heard'), ConfOk(c)
    PROVE  MenuOk'
BY DEF MenuOk

LEMMA NextIInv == IInv /\ [Next]_vars => IInv'
<1> SUFFICES ASSUME IInv, [Next]_vars PROVE IInv'
  OBVIOUS
<1>0. /\ Heard /\ Around /\ ConfOk(conf) /\ StateOk(stored, heard)
      /\ ServiceOk /\ MenuOk /\ InForce
  BY DEF IInv
<1>a. /\ ConfOk(service.conf) /\ StateOk(service.state, heard) /\ service.dyn \in BOOLEAN
      /\ service = [at |-> service.at, conf |-> service.conf,
                    state |-> service.state, dyn |-> service.dyn]
      /\ StateOk(menu.state, heard) /\ ConfOk(menu.conf)
      /\ menu = [at |-> menu.at, state |-> menu.state, conf |-> menu.conf, vetted |-> menu.vetted]
  BY <1>0 DEF ServiceOk, MenuOk
<1>b. ConfOk(Start) /\ StateOk(<<>>, heard)
  BY SourceAccessAssumption DEF ConfOk, StateOk
<1>1. CASE Wake
  <2>1. UNCHANGED <<conf, dns, disk, stored, menu, kernel, basis, heard>>
    BY <1>1 DEF Wake, env, history
  <2>2. ServiceOk'
    <3>1. PICK dyn \in BOOLEAN :
            /\ dyn = (conf.dw.enabled /\ due.dyn)
            /\ service' = [at |-> IF dyn THEN "resolve" ELSE "read",
                           conf |-> conf, state |-> stored, dyn |-> dyn]
      BY <1>1 DEF Wake
    <3> QED BY <3>1, <2>1, <1>0, ServiceMoves
  <2> QED BY <2>1, <2>2, Untouched DEF IInv
<1>2. CASE Resolve
  <2>1. UNCHANGED <<conf, dns, disk, stored, menu, kernel, basis>>
    BY <1>2 DEF Resolve, env
  <2>2. /\ Heard' /\ \A d \in Names : heard[d] \subseteq heard'[d]
        /\ \A d \in EnabledDomains(service.conf.dw) : dns[d.domain] \subseteq heard'[d.domain]
    <3>1. \A d \in EnabledDomains(service.conf.dw) : d.domain \in Names
      BY <1>a, DomainsOf DEF EnabledDomains, ConfOk
    <3> QED BY <3>1, <1>0, <1>2, HearOk DEF Resolve
  <2>3. StateOk(Refresh(service.conf.dw, service.state, dns), heard')
    BY <1>0, <1>a, <2>2, RefreshOk DEF Around
  <2>4. ServiceOk'
    <3>1. service' = [at |-> "save", conf |-> service.conf,
                      state |-> Refresh(service.conf.dw, service.state, dns), dyn |-> service.dyn]
      BY <1>2, <1>a DEF Resolve
    <3>2. service.dyn /\ service.conf.dw.enabled
      BY <1>2, <1>0 DEF Resolve, ServiceOk
    <3> QED BY <3>1, <3>2, <2>3, <1>a, ServiceMoves
  <2>5. StateOk(stored', heard') /\ StateOk(menu.state, heard')
    BY <1>0, <1>a, <2>1, <2>2, HeardGrows
  <2>6. MenuOk'
    BY <1>0, <2>1, <2>5 DEF MenuOk
  <2>7. InForce'
    BY <1>0, <2>1, <2>2, InForceStays
  <2> QED BY <2>1, <2>2, <2>4, <2>5, <2>6, <2>7, Untouched DEF IInv
<1>3. CASE Save
  <2>1. /\ UNCHANGED <<conf, dns, disk, kernel, basis, heard>>
        /\ stored' \in {stored, service.state}
        /\ \E vetted : menu' = [menu EXCEPT !.vetted = vetted]
        /\ service' = [at |-> "read", conf |-> service.conf,
                       state |-> service.state, dyn |-> service.dyn]
    <3>1. /\ UNCHANGED <<conf, dns, disk, kernel, basis, heard>>
          /\ stored' \in {stored, service.state}
          /\ service' = [at |-> "read", conf |-> service.conf,
                         state |-> service.state, dyn |-> service.dyn]
      BY <1>3, <1>a DEF Save, env
    <3>2. CASE UNCHANGED menu
      <4>1. menu' = [menu EXCEPT !.vetted = menu.vetted]
        BY <3>2, <1>a
      <4> QED BY <3>1, <4>1
    <3>3. CASE menu' = [menu EXCEPT !.vetted = @ /\ service.conf.dw = menu.conf.dw]
      BY <3>1, <3>3
    <3> QED BY <1>3, <3>2, <3>3 DEF Save
  <2>2. StateOk(stored', heard')
    BY <2>1, <1>0, <1>a
  <2>3. ServiceOk'
    BY <2>1, <1>a, ServiceMoves
  <2>4. MenuOk'
    <3>1. PICK vetted : menu' = [menu EXCEPT !.vetted = vetted]
      BY <2>1
    <3>2. menu' = [at |-> menu.at, state |-> menu.state, conf |-> menu.conf, vetted |-> vetted]
      BY <3>1, <1>a
    <3> QED BY <2>1, <3>2, <1>a, <1>0, MenuMoves DEF MenuOk
  <2> QED BY <2>1, <2>2, <2>3, <2>4, Untouched DEF IInv
<1>4. CASE GiveUp
  <2>1. UNCHANGED <<conf, dns, disk, stored, menu, kernel, basis, heard>> /\ service' = Asleep
    BY <1>4 DEF GiveUp, env, history
  <2>2. ServiceOk'
    BY <2>1, <1>b, ServiceMoves DEF Asleep
  <2> QED BY <2>1, <2>2, Untouched DEF IInv
<1>5. CASE Apply
  <2>1. /\ UNCHANGED <<conf, dns, disk, stored, menu, heard>> /\ service' = Asleep
        /\ kernel' = ListOf(service.conf, service.state)
        /\ basis'.conf = service.conf
    BY <1>5 DEF Apply, env
  <2>2. ServiceOk'
    BY <2>1, <1>b, ServiceMoves DEF Asleep
  <2>3. InForce'
    <3> DEFINE c == service.conf
    <3>1. /\ kernel'.mode = c.access.mode /\ kernel'.entries \subseteq Sources
          /\ kernel'.entries \subseteq c.access.entries \cup FileEntries
                                         \cup ResolvedOf(c)
          /\ c.dw.cidr = 32 => kernel'.entries \subseteq Addresses
      BY <2>1, <1>0, <1>a, ListIsResolved
    <3>2. c.access.mode \in Modes
      BY <1>a DEF ConfOk, Policies
    <3>3. basis'.conf = c /\ heard' = heard
      BY <2>1
    <3> HIDE DEF c
    <3>4. ConfOk(c)
      BY <1>a DEF c
    <3>5. SourcesAreResolved'
      BY <3>1, <3>3 DEF SourcesAreResolved, ResolvedOf, EnabledDomains
    <3>6. WidthFollows'
      BY <3>1, <3>3 DEF WidthFollows
    <3> QED BY <3>1, <3>2, <3>3, <3>4, <3>5, <3>6 DEF InForce
  <2> QED BY <2>1, <2>2, <2>3, Untouched DEF IInv
<1>6. CASE DynTimer \/ DdnsTimer
  <2>1. UNCHANGED <<conf, dns, disk, stored, service, menu, kernel, basis, heard>>
    BY <1>6 DEF DynTimer, DdnsTimer, env, history
  <2> QED BY <2>1, Untouched DEF IInv
<1>7. CASE Restart
  <2>1. /\ UNCHANGED <<conf, dns, disk, stored, menu, basis, heard>> /\ service' = Asleep
        /\ kernel' = NoRules
    BY <1>7 DEF Restart, env, history
  <2>2. ServiceOk'
    BY <2>1, <1>b, ServiceMoves DEF Asleep
  <2>3. InForce'
    BY <2>1, <1>0 DEF InForce, NoRules, SourcesAreResolved, WidthFollows
  <2> QED BY <2>1, <2>2, <2>3, Untouched DEF IInv
<1>8. ASSUME NEW o \in Edits, Edit(o) PROVE IInv'
  <2>1. /\ UNCHANGED <<dns, disk, stored, service, kernel, basis, heard>>
        /\ conf' \in Results(o, conf)
        /\ o.op \notin ListOps
        /\ \E at \in {menu.at, "prune"} :
             menu' = [at |-> at, state |-> menu.state, conf |-> menu.conf, vetted |-> menu.vetted]
    BY <1>8, <1>a DEF Edit
  <2>2. ConfOk(conf')
    BY <2>1, <1>0, EditOk
  <2>3. MenuOk'
    BY <2>1, <1>a, <1>0, MenuMoves DEF MenuOk
  <2> QED BY <2>1, <2>2, <2>3, Untouched DEF IInv
<1>9. CASE MenuRefresh
  <2>1. /\ UNCHANGED <<conf, dns, disk, stored, service, kernel, basis, heard>>
        /\ menu' = [at |-> "resolve", state |-> stored, conf |-> Start, vetted |-> FALSE]
    BY <1>9 DEF MenuRefresh, MenuIdle, env, history
  <2>2. MenuOk'
    BY <2>1, <1>0, <1>b, MenuMoves
  <2> QED BY <2>1, <2>2, Untouched DEF IInv
<1>10. CASE MenuResolve
  <2>1. /\ UNCHANGED <<conf, dns, disk, stored, service, kernel, basis>>
        /\ menu' = [at |-> "save", state |-> Refresh(conf.dw, menu.state, dns),
                    conf |-> menu.conf, vetted |-> menu.vetted]
    BY <1>10, <1>a DEF MenuResolve, env
  <2>2. /\ Heard' /\ \A d \in Names : heard[d] \subseteq heard'[d]
        /\ \A d \in EnabledDomains(conf.dw) : dns[d.domain] \subseteq heard'[d.domain]
    <3>1. \A d \in EnabledDomains(conf.dw) : d.domain \in Names
      BY <1>0, DomainsOf DEF EnabledDomains, ConfOk
    <3> QED BY <3>1, <1>0, <1>10, HearOk DEF MenuResolve
  <2>3. StateOk(Refresh(conf.dw, menu.state, dns), heard')
    BY <1>0, <1>a, <2>2, RefreshOk DEF Around
  <2>4. MenuOk'
    BY <2>1, <2>3, <1>a, MenuMoves
  <2>5. StateOk(stored', heard') /\ StateOk(service.state, heard')
    BY <1>0, <1>a, <2>1, <2>2, HeardGrows
  <2>6. ServiceOk'
    BY <1>0, <2>1, <2>5 DEF ServiceOk
  <2>7. InForce'
    BY <1>0, <2>1, <2>2, InForceStays
  <2> QED BY <2>1, <2>2, <2>4, <2>5, <2>6, <2>7, Untouched DEF IInv
<1>11. CASE MenuLoadsToPrune
  <2>1. /\ UNCHANGED <<conf, dns, disk, stored, service, kernel, basis, heard>>
        /\ menu' = [at |-> "pruned", state |-> PruneState(conf.dw, stored),
                    conf |-> menu.conf, vetted |-> menu.vetted]
    BY <1>11, <1>a DEF MenuLoadsToPrune, env, history
  <2>2. MenuOk'
    BY <2>1, <1>0, <1>a, PruneOk, MenuMoves
  <2> QED BY <2>1, <2>2, Untouched DEF IInv
<1>12. CASE MenuSave
  <2>1. /\ UNCHANGED <<conf, dns, disk, service, kernel, basis, heard>>
        /\ stored' = menu.state
        /\ menu' = [at |-> "idle", state |-> <<>>, conf |-> Start, vetted |-> FALSE]
    BY <1>12 DEF MenuSave, MenuIdle, env
  <2>2. MenuOk' /\ StateOk(stored', heard')
    BY <2>1, <1>a, <1>b, MenuMoves
  <2> QED BY <2>1, <2>2, Untouched DEF IInv
<1>13. ASSUME NEW d \in Names, NEW a \in Answers, SetDns(d, a) PROVE IInv'
  <2>1. /\ UNCHANGED <<conf, disk, stored, service, menu, kernel, basis, heard>>
        /\ dns' = [dns EXCEPT ![d] = a]
    BY <1>13 DEF SetDns
  <2>2. Around'
    BY <2>1, <1>0, SourceAccessAssumption DEF Around
  <2> QED BY <2>1, <2>2, Untouched DEF IInv
<1>14. ASSUME NEW f \in Files, SetFile(f) PROVE IInv'
  <2>1. /\ UNCHANGED <<conf, dns, stored, service, menu, kernel, basis, heard>>
        /\ disk' = f
    BY <1>14 DEF SetFile
  <2>2. Around'
    BY <2>1, <1>0 DEF Around
  <2> QED BY <2>1, <2>2, Untouched DEF IInv
<1>15. CASE LoseState
  <2>1. /\ UNCHANGED <<conf, dns, disk, service, kernel, basis, heard>> /\ stored' = <<>>
        /\ menu' = [at |-> menu.at, state |-> menu.state, conf |-> menu.conf, vetted |-> FALSE]
    BY <1>15, <1>a DEF LoseState, env
  <2>2. StateOk(stored', heard')
    BY <2>1, <1>b
  <2>3. MenuOk'
    BY <2>1, <1>a, <1>0, MenuMoves DEF MenuOk
  <2> QED BY <2>1, <2>2, <2>3, Untouched DEF IInv
<1>16. CASE UNCHANGED vars
  BY <1>16, Untouched DEF vars, env, history, IInv
<1>17. ASSUME NEW o \in Edits, PageEdit(o) PROVE IInv'
  <2>1. /\ UNCHANGED <<conf, dns, disk, stored, service, kernel, basis, heard>>
        /\ o.op \in ListOps
    BY <1>17 DEF PageEdit, env, history
  <2>2. PICK c \in PageResults(o, menu.conf) :
          menu' = [at |-> menu.at, state |-> menu.state, conf |-> c, vetted |-> Vetted(o)]
    BY <1>17, <1>a DEF PageEdit
  <2>3. ConfOk(c)
    BY <2>1, <1>a, PageEditOk
  <2>4. MenuOk'
    BY <2>1, <2>2, <2>3, <1>a, <1>0, MenuMoves DEF MenuOk
  <2> QED BY <2>1, <2>4, Untouched DEF IInv
<1>18. CASE OpenPage \/ LeavePage
  <2>1. /\ UNCHANGED <<conf, dns, disk, stored, service, kernel, basis, heard>>
        /\ \E at \in {"page", "idle"}, c \in {conf, Start} : \E vetted :
             menu' = [at |-> at, state |-> <<>>, conf |-> c, vetted |-> vetted]
    BY <1>18 DEF OpenPage, LeavePage, MenuIdle, env, history
  <2>2. MenuOk'
    BY <2>1, <1>0, <1>b, MenuMoves
  <2> QED BY <2>1, <2>2, Untouched DEF IInv
<1>19. CASE SavePage
  <2>1. /\ UNCHANGED <<dns, disk, stored, service, menu, kernel, basis, heard>>
        /\ conf' = menu.conf
    BY <1>19 DEF SavePage
  <2> QED BY <2>1, <1>a, Untouched DEF IInv
<1> QED BY <1>1, <1>2, <1>3, <1>4, <1>5, <1>6, <1>7, <1>8, <1>9, <1>10, <1>11, <1>12,
           <1>13, <1>14, <1>15, <1>16, <1>17, <1>18, <1>19 DEF Next

LEMMA Inductive == Spec => []IInv
<1>1. IInv /\ [Next]_vars => IInv'
  BY NextIInv
<1> QED BY InitIInv, <1>1, PTL DEF Spec

\* The type invariant of the access lists, for any domains, files and edits.
THEOREM TypeCorrect == Spec => []TypeOK
<1>1. IInv => TypeOK
  <2> SUFFICES ASSUME IInv PROVE TypeOK
    OBVIOUS
  <2>1. AccessValid(conf.access) /\ DynamicValid(conf.dw)
    BY DEF IInv, ConfOk, Policies, AccessValid
  <2>2. kernel.mode \in {"none", "off", "whitelist", "blacklist"} /\ kernel.entries \subseteq Sources
    BY DEF IInv, InForce, Modes
  <2>3. ASSUME NEW n \in DOMAIN stored
        PROVE  /\ stored[n].good \subseteq Addresses /\ stored[n].current \subseteq stored[n].good
               /\ stored[n].effective = Expand(stored[n].current, stored[n].cidr)
    BY DEF IInv, StateOk, EntryOk
  <2>4. AccessValid(menu.conf.access) /\ DynamicValid(menu.conf.dw)
    BY DEF IInv, MenuOk, ConfOk, Policies, AccessValid
  <2> QED BY <2>1, <2>2, <2>3, <2>4 DEF TypeOK, IInv, ServiceOk, MenuOk
<1> QED BY Inductive, <1>1, PTL

\* Every source in force is in the static list, came from the file, or was once
\* an answer for a domain that was enabled in the configuration used.
THEOREM ResolvedOnly == Spec => []SourcesAreResolved
<1>1. IInv => SourcesAreResolved
  BY DEF IInv, InForce
<1> QED BY Inductive, <1>1, PTL

\* With the width back at /32, no list applied holds a network.
THEOREM WidthSafe == Spec => []WidthFollows
<1>1. IInv => WidthFollows
  BY DEF IInv, InForce
<1> QED BY Inductive, <1>1, PTL

------------------------------------------------------------------------------
(* What an outage leaves in the list: while nothing but failures happened,  *)
(* the list that any state at hand would make has all that was applied.     *)

\* The next list loses nothing, unless the file forbids that there is one.
Covers(state) == FileRefused(conf.dw) \/ basis.entries \subseteq ListOf(conf, state).entries
\* A look-up finds what is known, or nothing.
Steady(state) ==
    \A d \in EnabledDomains(conf.dw) :
        OfFamily(conf.dw, dns[d.domain]) \in {{}, Find(state, d).current}

FallsBack == conf.dw.lastGood /\ OneSwitchEach(conf.dw)
Kept ==
    calm /\ FallsBack =>
      /\ Covers(stored) /\ Steady(stored)
      /\ Awake => service.conf = conf /\ Covers(service.state) /\ Steady(service.state)

LEMMA DomainTyped ==
    ASSUME NEW c, ConfOk(c), NEW d \in EnabledDomains(c.dw)
    PROVE  d.domain \in Names
BY DomainsOf DEF EnabledDomains, ConfOk

\* A refresh that finds what is known or nothing takes no address away.
LEMMA RefreshGrows ==
    ASSUME ConfOk(conf), FallsBack, conf.dw.enabled, NEW state, NEW h, StateOk(state, h),
           Steady(state), NEW d \in EnabledDomains(conf.dw)
    PROVE  LET new == Find(Refresh(conf.dw, state, dns), d)
           IN  /\ Find(state, d).current \subseteq new.current
               /\ OfFamily(conf.dw, dns[d.domain]) \in {{}, new.current}
<1> DEFINE was == Find(state, d)
           ips == OfFamily(conf.dw, dns[d.domain])
           new == Find(Refresh(conf.dw, state, dns), d)
<1>1. /\ ips # {} => new.current = ips
      /\ ips = {} => new.current = IF conf.dw.lastGood THEN OfFamily(conf.dw, was.good) ELSE {}
  BY FindRefreshed DEF FallsBack
<1>2. ips \in {{}, was.current}
  BY DEF Steady
<1>3. was.current \subseteq was.good /\ OfFamily(conf.dw, was.good) = was.good
  BY DomainTyped, FindOk, SameFamily
<1> HIDE DEF was, ips, new
<1>4. was.current \subseteq new.current /\ ips \in {{}, new.current}
  BY <1>1, <1>2, <1>3 DEF FallsBack
<1> QED BY <1>4 DEF was, ips, new

LEMMA RefreshKeeps ==
    ASSUME ConfOk(conf), FallsBack, NEW state, NEW h, StateOk(state, h), NEW k,
           StateOk(Refresh(conf.dw, state, dns), k), Steady(state), Covers(state)
    PROVE  Covers(Refresh(conf.dw, state, dns)) /\ Steady(Refresh(conf.dw, state, dns))
<1> DEFINE ref == Refresh(conf.dw, state, dns)
<1>1. CASE ~conf.dw.enabled
  BY <1>1, Zenon DEF Refresh
<1>2. CASE conf.dw.enabled
  <2>1. \A d \in EnabledDomains(conf.dw) :
          /\ Find(state, d).current \subseteq Find(ref, d).current
          /\ OfFamily(conf.dw, dns[d.domain]) \in {{}, Find(ref, d).current}
    BY <1>2, RefreshGrows
  <2> HIDE DEF ref
  <2>2. StateOk(ref, k)
    BY DEF ref
  <2>3. Steady(ref)
    BY <2>1 DEF Steady
  <2>4. \A d \in EnabledDomains(conf.dw) :
          Expand(Find(state, d).current, conf.dw.cidr) \subseteq Expand(Find(ref, d).current, conf.dw.cidr)
    BY <2>1, ExpandFacts
  <2>5. DynamicSources(conf.dw, state) \subseteq DynamicSources(conf.dw, ref)
    <3>1. /\ DynamicSources(conf.dw, state) =
               UNION {Expand(Find(state, d).current, conf.dw.cidr) : d \in EnabledDomains(conf.dw)}
          /\ DynamicSources(conf.dw, ref) =
               UNION {Expand(Find(ref, d).current, conf.dw.cidr) : d \in EnabledDomains(conf.dw)}
      BY <1>2, <2>2, DynamicIs
    <3> QED BY <2>4, <3>1
  <2>6. ListOf(conf, state).entries \subseteq ListOf(conf, ref).entries
    BY <2>5 DEF ListOf, Merged
  <2> QED BY <2>3, <2>6 DEF Covers, ref
<1> QED BY <1>1, <1>2

LEMMA InitKept == Init => Kept
BY DEF Init, Kept

\* What these read.
LEMMA SameReading ==
    ASSUME UNCHANGED <<conf, dns, disk, basis>>, NEW state
    PROVE  (Covers(state)' <=> Covers(state)) /\ (Steady(state)' <=> Steady(state))
<1>1. FileRefused(conf.dw)' <=> FileRefused(conf.dw)
  BY DEF FileRefused
<1>2. ListOf(conf, state)' = ListOf(conf, state)
  BY DEF ListOf, FileSources, DynamicSources, EnabledDomains, Merged, View
<1> QED BY <1>1, <1>2 DEF Covers, Steady, EnabledDomains, OfFamily

LEMMA KeptStays ==
    ASSUME Kept, UNCHANGED <<conf, dns, disk, stored, basis>>, calm' => calm,
           UNCHANGED service \/ service' = Asleep
    PROVE  Kept'
<1>1. FallsBack' => FallsBack
  BY DEF FallsBack, OneSwitchEach
<1>2. SUFFICES ASSUME calm, FallsBack
               PROVE  /\ Covers(stored)' /\ Steady(stored)'
                      /\ Awake' => service'.conf = conf' /\ Covers(service.state)' /\ Steady(service.state)'
  BY <1>1 DEF Kept
<1> QED BY <1>2, SameReading DEF Kept, Awake, Asleep

LEMMA NextKept == IInv /\ IInv' /\ Kept /\ [Next]_vars => Kept'
<1> SUFFICES ASSUME IInv, IInv', Kept, [Next]_vars PROVE Kept'
  OBVIOUS
<1>0. /\ ConfOk(conf) /\ StateOk(service.state, heard) /\ StateOk(service'.state, heard')
      /\ service = [at |-> service.at, conf |-> service.conf,
                    state |-> service.state, dyn |-> service.dyn]
  BY DEF IInv, ServiceOk
\* With `calm` false afterwards there is nothing to show.
<1>a. ASSUME ~calm' PROVE Kept'
  BY <1>a DEF Kept
<1>1. CASE Wake
  <2>1. /\ UNCHANGED <<conf, dns, disk, stored, basis, calm>>
        /\ service'.conf = conf /\ service'.state = stored
    BY <1>1 DEF Wake, env, history
  <2>2. FallsBack' => FallsBack
    BY <2>1 DEF FallsBack, OneSwitchEach
  <2>3. SUFFICES ASSUME calm, FallsBack
                 PROVE  /\ Covers(stored)' /\ Steady(stored)'
                        /\ service'.conf = conf' /\ Covers(service.state)' /\ Steady(service.state)'
    BY <2>1, <2>2 DEF Kept
  <2> QED BY <2>1, <2>3, SameReading DEF Kept
<1>2. CASE Resolve
  <2>1. /\ UNCHANGED <<conf, dns, disk, stored, basis, calm>>
        /\ service'.conf = service.conf
        /\ service'.state = Refresh(service.conf.dw, service.state, dns)
    BY <1>0, <1>2 DEF Resolve, env
  <2>2. FallsBack' => FallsBack
    BY <2>1 DEF FallsBack, OneSwitchEach
  <2>3. SUFFICES ASSUME calm, FallsBack
                 PROVE  /\ Covers(stored)' /\ Steady(stored)'
                        /\ service'.conf = conf' /\ Covers(service.state)' /\ Steady(service.state)'
    BY <2>1, <2>2 DEF Kept
  <2>4. Awake
    BY <1>2 DEF Awake, Resolve
  <2>5. /\ Covers(stored) /\ Steady(stored)
        /\ service.conf = conf /\ Covers(service.state) /\ Steady(service.state)
    BY <2>3, <2>4 DEF Kept
  <2>6. Covers(service'.state) /\ Steady(service'.state)
    BY <2>1, <2>3, <2>5, <1>0, RefreshKeeps
  <2> QED BY <2>1, <2>5, <2>6, SameReading
<1>3. CASE Save
  <2>1. /\ UNCHANGED <<conf, dns, disk, basis>>
        /\ service'.conf = service.conf /\ service'.state = service.state
    BY <1>0, <1>3 DEF Save, env
  <2>2. FallsBack' => FallsBack
    BY <2>1 DEF FallsBack, OneSwitchEach
  <2>3. CASE calm' = FALSE
    BY <2>3, <1>a
  <2>4. CASE stored' = service.state /\ UNCHANGED calm
    <3>1. SUFFICES ASSUME calm, FallsBack
                   PROVE  /\ Covers(stored)' /\ Steady(stored)'
                          /\ service'.conf = conf' /\ Covers(service.state)' /\ Steady(service.state)'
      BY <2>2, <2>4 DEF Kept
    <3>2. Awake
      BY <1>3 DEF Awake, Save
    <3> QED BY <2>1, <2>4, <3>1, <3>2, SameReading DEF Kept
  <2> QED BY <1>3, <2>3, <2>4 DEF Save
<1>4. CASE GiveUp
  BY <1>4, KeptStays DEF GiveUp, env, history
<1>5. CASE Apply
  <2>1. /\ UNCHANGED <<conf, dns, disk, stored>> /\ service' = Asleep
        /\ kernel' = ListOf(service.conf, service.state)
        /\ basis'.entries = kernel'.entries
        /\ calm' = (service.conf = conf /\ UpToDate(service.state))
    BY <1>5 DEF Apply, env
  <2>2. SUFFICES ASSUME calm' PROVE Covers(stored)' /\ Steady(stored)'
    BY <2>1 DEF Kept, Awake, Asleep
  <2>3. service.conf = conf /\ service.state = stored /\ Steady(stored)
    BY <2>1, <2>2 DEF UpToDate, Steady
  <2>4. Steady(stored)'
    BY <2>1, <2>3 DEF Steady, EnabledDomains, OfFamily
  <2>5. basis'.entries = ListOf(conf, stored).entries
    BY <2>1, <2>3
  <2>6. ListOf(conf, stored)' = ListOf(conf, stored)
    BY <2>1 DEF ListOf, FileSources, DynamicSources, EnabledDomains, Merged, View
  <2> QED BY <2>4, <2>5, <2>6 DEF Covers
<1>6. CASE DynTimer \/ DdnsTimer
  BY <1>6, KeptStays DEF DynTimer, DdnsTimer, env, history
<1>7. CASE Restart
  BY <1>7, KeptStays DEF Restart, env, history
<1>8. ASSUME NEW o \in Edits, Edit(o) PROVE Kept'
  BY <1>8, <1>a DEF Edit
<1>9. CASE MenuRefresh \/ MenuResolve \/ MenuLoadsToPrune
  BY <1>9, KeptStays DEF MenuRefresh, MenuResolve, MenuLoadsToPrune, env, history
<1>10. CASE MenuSave \/ LoseState
  BY <1>10, <1>a DEF MenuSave, LoseState
<1>11. ASSUME NEW d \in Names, NEW a \in Answers, SetDns(d, a) PROVE Kept'
  <2>1. /\ UNCHANGED <<conf, disk, stored, service, basis>>
        /\ dns' = [dns EXCEPT ![d] = a]
        /\ calm' => calm /\ a = {}
    BY <1>11 DEF SetDns
  <2>2. FallsBack' => FallsBack
    BY <2>1 DEF FallsBack, OneSwitchEach
  <2>3. SUFFICES ASSUME calm, FallsBack, a = {}
                 PROVE  /\ Covers(stored)' /\ Steady(stored)'
                        /\ Awake => service'.conf = conf' /\ Covers(service.state)' /\ Steady(service.state)'
    BY <2>1, <2>2 DEF Kept, Awake
  <2>4. ASSUME NEW state, Steady(state) PROVE Steady(state)'
    <3>1. \A e \in EnabledDomains(conf.dw) : dns'[e.domain] \in {dns[e.domain], {}}
      BY <2>1, <2>3, <1>0, DomainTyped DEF IInv, Around
    <3>2. OfFamily(conf.dw, {}) = {}
      BY FamilyFacts
    <3> QED BY <2>1, <2>4, <3>1, <3>2 DEF Steady, EnabledDomains, OfFamily
  <2>5. ASSUME NEW state, Covers(state) PROVE Covers(state)'
    <3>1. FileRefused(conf.dw)' <=> FileRefused(conf.dw)
      BY <2>1 DEF FileRefused
    <3>2. ListOf(conf, state)' = ListOf(conf, state)
      BY <2>1 DEF ListOf, FileSources, DynamicSources, EnabledDomains, Merged, View
    <3> QED BY <2>1, <2>5, <3>1, <3>2 DEF Covers
  <2> QED BY <2>1, <2>3, <2>4, <2>5 DEF Kept
<1>12. ASSUME NEW f \in Files, SetFile(f) PROVE Kept'
  <2>1. /\ UNCHANGED <<conf, dns, stored, service, basis>> /\ disk' = f
        /\ calm' => calm /\ f = BadFile
    BY <1>12 DEF SetFile
  <2>2. FallsBack' => FallsBack
    BY <2>1 DEF FallsBack, OneSwitchEach
  <2>3. SUFFICES ASSUME calm, FallsBack, f = BadFile
                 PROVE  /\ Covers(stored)' /\ Steady(stored)'
                        /\ Awake => service'.conf = conf' /\ Covers(service.state)' /\ Steady(service.state)'
    BY <2>1, <2>2 DEF Kept, Awake
  <2>4. ASSUME NEW state, Steady(state) PROVE Steady(state)'
    BY <2>1, <2>4 DEF Steady, EnabledDomains, OfFamily
  <2>5. ASSUME NEW state, Covers(state) PROVE Covers(state)'
    <3>1. CASE conf.dw.enabled /\ conf.dw.files
      BY <3>1, <2>1, <2>3 DEF Covers, FileRefused
    <3>2. CASE ~(conf.dw.enabled /\ conf.dw.files)
      <4>1. FileSources(conf.dw) = {} /\ FileSources(conf.dw)' = {} /\ ~FileRefused(conf.dw)
        BY <3>2, <2>1 DEF FileRefused, FileSources
      <4>2. DynamicSources(conf.dw, state)' = DynamicSources(conf.dw, state)
        BY <2>1 DEF DynamicSources, EnabledDomains, View
      <4>3. ListOf(conf, state)' = ListOf(conf, state)
        BY <2>1, <4>1, <4>2 DEF ListOf, Merged
      <4> QED BY <2>1, <2>5, <4>1, <4>3 DEF Covers
    <3> QED BY <3>1, <3>2
  <2> QED BY <2>1, <2>3, <2>4, <2>5 DEF Kept
<1>13. CASE UNCHANGED vars
  BY <1>13, KeptStays DEF vars, env, history
<1>14. CASE (\E o \in Edits : PageEdit(o)) \/ OpenPage \/ LeavePage
  <2>1. UNCHANGED <<conf, dns, disk, stored, basis, calm, service>>
    BY <1>14 DEF PageEdit, OpenPage, LeavePage, env, history
  <2> QED BY <2>1, KeptStays
<1>15. CASE SavePage
  <2>1. UNCHANGED <<dns, disk, stored, service, basis>> /\ (calm' => calm /\ conf' = conf)
    BY <1>15 DEF SavePage
  <2> QED BY <2>1, <1>a, KeptStays
<1> QED BY <1>1, <1>2, <1>3, <1>4, <1>5, <1>6, <1>7, <1>8, <1>9, <1>10, <1>11, <1>12, <1>13,
           <1>14, <1>15 DEF Next

\* "DNS 失败可用 last-good 来源 IP 兜底", "内容无效会阻止刷新/应用": over failed
\* look-ups, a bad file and restarts, no list is applied that lacks a source of
\* the one before.
THEOREM OutageSafe == Spec => OutageKeepsSources
<1>1. IInv /\ IInv' /\ Kept /\ [Next]_vars => Kept'
  BY NextKept
<1>2. IInv /\ Kept => [Apply /\ calm /\ conf = basis.conf /\ conf.dw.lastGood /\ OneSwitchEach(conf.dw)
                         => basis.entries \subseteq kernel'.entries]_vars
  <2> SUFFICES ASSUME Kept, Apply, calm, conf.dw.lastGood, OneSwitchEach(conf.dw)
               PROVE  basis.entries \subseteq kernel'.entries
    OBVIOUS
  <2>1. /\ Awake /\ ~FileRefused(service.conf.dw)
        /\ kernel' = ListOf(service.conf, service.state)
    BY DEF Apply, Awake
  <2> QED BY <2>1 DEF Kept, FallsBack, Covers
<1> QED BY InitKept, Inductive, <1>1, <1>2, PTL DEF Spec, OutageKeepsSources

------------------------------------------------------------------------------
(* A switch without a warning: an address is good, and in use once a round   *)
(* with the domains of then has looked the names up.  It is so of the copy   *)
(* on the page, and stays so of the file once the copy is saved.             *)

SomeGood(c, state) ==
    c.access.entries # {} \/ \E d \in EnabledDomains(c.dw) : Find(state, d).good # {}
SomeInUse(c, state) ==
    c.access.entries # {} \/ \E d \in EnabledDomains(c.dw) : Find(state, d).current # {}

KeepsGood(c) == c.dw.lastGood /\ OneSwitchEach(c.dw)
InRound(c, sv) == sv.at # "sleep" /\ sv.conf.dw = c.dw

\* Somebody can get in with the configuration c, now and after the round at
\* hand, with the state file st and the service sv.
Open(c, st, sv) ==
    KeepsGood(c) =>
      /\ c.access.mode = "whitelist"
      /\ c.access.entries # {} \/ c.dw.enabled
      /\ SomeGood(c, st)
      /\ InRound(c, sv) => /\ SomeGood(c, sv.state)
                           /\ sv.dyn /\ sv.at \in {"save", "read"} => SomeInUse(c, sv.state)
OpenNow(c) == Open(c, stored, service)
Assured == (assured => OpenNow(conf)) /\ (menu.vetted => OpenNow(menu.conf))

LEMMA InitAssured == Init => Assured
BY DEF Init, Assured, MenuIdle

\* The check looks at what is good, which is what a round falls back on.
LEMMA CheckedGood ==
    ASSUME NEW c, ConfOk(c), StateOk(stored, heard), ~WarnsOfLock(c)
    PROVE  /\ c.access.entries # {} \/ c.dw.enabled
           /\ SomeGood(c, stored)
<1>1. CASE c.access.entries # {}
  BY <1>1 DEF SomeGood
<1>2. CASE c.access.entries = {}
  <2>1. Usable(c.dw, stored) # {}
    BY <1>2 DEF WarnsOfLock
  <2>2. c.dw.enabled
    BY <2>1 DEF Usable
  <2>3. PICK d \in EnabledDomains(c.dw) :
          Expand(IF Find(stored, d).current = {} /\ c.dw.lastGood
                 THEN Find(stored, d).good ELSE Find(stored, d).current, c.dw.cidr) # {}
    BY <2>1, <2>2 DEF Usable
  <2>4. Find(stored, d).current \subseteq Find(stored, d).good
    BY DomainTyped, FindOk
  <2>5. Find(stored, d).good # {}
    BY <2>3, <2>4, ExpandFacts
  <2> QED BY <2>2, <2>5 DEF SomeGood
<1> QED BY <1>1, <1>2

\* A refresh keeps something good, and puts it in use.
LEMMA RefreshUses ==
    ASSUME NEW c, ConfOk(c), KeepsGood(c), NEW state, NEW h, StateOk(state, h), SomeGood(c, state),
           c.access.entries # {} \/ c.dw.enabled
    PROVE  /\ SomeGood(c, Refresh(c.dw, state, dns))
           /\ SomeInUse(c, Refresh(c.dw, state, dns))
<1>1. CASE c.access.entries # {}
  BY <1>1 DEF SomeGood, SomeInUse
<1>2. CASE c.access.entries = {}
  <2>1. PICK d \in EnabledDomains(c.dw) : Find(state, d).good # {}
    BY <1>2 DEF SomeGood
  <2> DEFINE new == Find(Refresh(c.dw, state, dns), d)
             ips == OfFamily(c.dw, dns[d.domain])
  <2>2. OfFamily(c.dw, Find(state, d).good) = Find(state, d).good
    BY DomainTyped, FindOk, SameFamily
  <2>3. /\ ips # {} => new.good = ips /\ new.current = ips
        /\ ips = {} => /\ new.good = OfFamily(c.dw, Find(state, d).good)
                       /\ new.current = IF c.dw.lastGood
                                        THEN OfFamily(c.dw, Find(state, d).good) ELSE {}
    BY <1>2, FindRefreshed DEF KeepsGood
  <2> HIDE DEF new, ips
  <2>4. new.good # {} /\ new.current # {}
    BY <2>1, <2>2, <2>3 DEF KeepsGood
  <2> QED BY <2>4 DEF SomeGood, SomeInUse, new
<1> QED BY <1>1, <1>2

\* What the steps of the service leave of it.
LEMMA OpenStays ==
    ASSUME NEW c, OpenNow(c), UNCHANGED stored, UNCHANGED service \/ service' = Asleep
    PROVE  Open(c, stored', service')
BY DEF OpenNow, Open, InRound, Asleep

LEMMA OpenWakes ==
    ASSUME NEW c, OpenNow(c), Wake
    PROVE  Open(c, stored', service')
<1>1. /\ UNCHANGED stored
      /\ service'.state = stored /\ service'.at \in {"resolve", "read"}
      /\ service'.at = "read" => ~service'.dyn
  BY DEF Wake
<1> QED BY <1>1 DEF OpenNow, Open, InRound

LEMMA OpenResolves ==
    ASSUME IInv, NEW c, ConfOk(c), OpenNow(c), Resolve
    PROVE  Open(c, stored', service')
<1>1. StateOk(service.state, heard) /\ service.at = "resolve"
  BY DEF IInv, ServiceOk, Resolve
<1>2. /\ UNCHANGED stored
      /\ service'.conf = service.conf
      /\ service'.state = Refresh(service.conf.dw, service.state, dns)
  BY DEF Resolve, IInv, ServiceOk
<1>3. SUFFICES ASSUME KeepsGood(c)
               PROVE  /\ c.access.mode = "whitelist"
                      /\ c.access.entries # {} \/ c.dw.enabled
                      /\ SomeGood(c, stored')
                      /\ InRound(c, service') => SomeGood(c, service'.state) /\ SomeInUse(c, service'.state)
  BY DEF Open
<1>4. /\ c.access.mode = "whitelist"
      /\ c.access.entries # {} \/ c.dw.enabled
      /\ SomeGood(c, stored) /\ (InRound(c, service) => SomeGood(c, service.state))
  BY <1>3 DEF OpenNow, Open
<1>5. InRound(c, service') => InRound(c, service) /\ service.conf.dw = c.dw
  BY <1>1, <1>2 DEF InRound
<1>6. InRound(c, service) /\ service.conf.dw = c.dw
        => SomeGood(c, service'.state) /\ SomeInUse(c, service'.state)
  BY <1>1, <1>2, <1>3, <1>4, RefreshUses
<1> QED BY <1>2, <1>4, <1>5, <1>6

\* A round saves what it looked up for these domains, or fails to.
LEMMA OpenSaves ==
    ASSUME IInv, NEW c, OpenNow(c), Save,
           UNCHANGED stored \/ (stored' = service.state /\ service.conf.dw = c.dw)
    PROVE  Open(c, stored', service')
<1>1. service.at = "save" /\ service.dyn
  BY DEF IInv, ServiceOk, Save
<1>2. /\ service'.conf = service.conf /\ service'.state = service.state
      /\ service'.dyn = service.dyn /\ service'.at = "read"
  BY DEF Save, IInv, ServiceOk
<1> QED BY <1>1, <1>2 DEF OpenNow, Open, InRound

LEMMA NextAssured == IInv /\ Assured /\ [Next]_vars => Assured'
<1> SUFFICES ASSUME IInv, Assured, [Next]_vars PROVE Assured'
  OBVIOUS
<1>0. /\ ConfOk(conf) /\ StateOk(stored, heard) /\ ConfOk(menu.conf)
      /\ menu = [at |-> menu.at, state |-> menu.state, conf |-> menu.conf, vetted |-> menu.vetted]
  BY DEF IInv, MenuOk
<1>1. CASE Wake
  <2>1. UNCHANGED <<conf, assured, menu>>
    BY <1>1 DEF Wake, env, history
  <2> QED BY <1>1, <2>1, OpenWakes DEF Assured, OpenNow
<1>2. CASE Resolve
  <2>1. UNCHANGED <<conf, assured, menu>>
    BY <1>2 DEF Resolve, env
  <2> QED BY <1>0, <1>2, <2>1, OpenResolves DEF Assured, OpenNow
<1>3. CASE Save
  <2>1. UNCHANGED conf /\ menu'.conf = menu.conf
    BY <1>0, <1>3 DEF Save, env
  <2>2. CASE UNCHANGED <<stored, assured, menu>>
    BY <1>3, <2>1, <2>2, OpenSaves DEF Assured, OpenNow
  <2>3. CASE /\ stored' = service.state
             /\ assured' = (assured /\ service.conf.dw = conf.dw)
             /\ menu' = [menu EXCEPT !.vetted = @ /\ service.conf.dw = menu.conf.dw]
    <3>1. /\ assured' => assured /\ service.conf.dw = conf.dw
          /\ menu'.vetted => menu.vetted /\ service.conf.dw = menu.conf.dw
      BY <1>0, <2>3
    <3>2. assured' => Open(conf, stored', service')
      BY <1>3, <2>3, <3>1, OpenSaves DEF Assured
    <3>3. menu'.vetted => Open(menu.conf, stored', service')
      BY <1>3, <2>3, <3>1, OpenSaves DEF Assured
    <3> QED BY <2>1, <3>2, <3>3 DEF Assured, OpenNow
  <2> QED BY <1>3, <2>2, <2>3 DEF Save
\* The other steps leave the state file alone, or leave nothing vetted.
<1>a. ASSUME UNCHANGED stored, UNCHANGED service \/ service' = Asleep
      PROVE  /\ assured => Open(conf, stored', service')
             /\ menu.vetted => Open(menu.conf, stored', service')
  BY <1>a, OpenStays DEF Assured
<1>4. CASE GiveUp \/ Apply \/ Restart \/ DynTimer \/ DdnsTimer
  <2>1. /\ UNCHANGED <<conf, assured, menu, stored>>
        /\ UNCHANGED service \/ service' = Asleep
    BY <1>4 DEF GiveUp, Apply, Restart, DynTimer, DdnsTimer, env, history
  <2> QED BY <2>1, <1>a DEF Assured, OpenNow
<1>5. ASSUME NEW o \in Edits, Edit(o) PROVE Assured'
  <2>1. /\ assured' = FALSE /\ UNCHANGED <<stored, service>>
        /\ menu'.vetted = menu.vetted /\ menu'.conf = menu.conf
    BY <1>0, <1>5 DEF Edit
  <2> QED BY <2>1, <1>a DEF Assured, OpenNow
<1>6. CASE OpenPage
  <2>1. /\ UNCHANGED <<conf, assured, stored, service>>
        /\ menu'.vetted = assured /\ menu'.conf = conf
    BY <1>6 DEF OpenPage, MenuIdle, env, history
  <2> QED BY <2>1, <1>a DEF Assured, OpenNow
<1>7. ASSUME NEW o \in Edits, PageEdit(o) PROVE Assured'
  <2>1. UNCHANGED <<conf, assured, stored, service>> /\ o.op \in ListOps
    BY <1>7 DEF PageEdit, env, history
  <2>2. PICK c \in PageResults(o, menu.conf) : menu'.conf = c /\ menu'.vetted = Vetted(o)
    BY <1>0, <1>7 DEF PageEdit
  <2>3. /\ c.dw = menu.conf.dw
        /\ o.op = "mode" => c.access.mode = o.mode /\ c.access.entries = menu.conf.access.entries
        /\ o.op = "enter" => c.access.mode = menu.conf.access.mode /\ c.access.entries # {}
    BY <1>0, <2>1, PageEditOk
  <2>4. ASSUME Vetted(o) PROVE Open(c, stored, service)
    <3>1. CASE /\ o.op = "mode" /\ o.mode = "whitelist" /\ ~WarnsOfLock(menu.conf)
               /\ service.at = "sleep" \/ service.conf.dw # menu.conf.dw
      <4>1. /\ c.access.entries # {} \/ c.dw.enabled
            /\ SomeGood(c, stored)
        BY <1>0, <2>3, <3>1, CheckedGood DEF SomeGood
      <4>2. ~InRound(c, service) /\ c.access.mode = "whitelist"
        BY <2>3, <3>1 DEF InRound
      <4> QED BY <4>1, <4>2 DEF Open
    <3>2. CASE o.op = "enter" /\ menu.vetted
      <4>1. OpenNow(menu.conf)
        BY <3>2 DEF Assured
      <4>2. KeepsGood(c) <=> KeepsGood(menu.conf)
        BY <2>3 DEF KeepsGood
      <4> QED BY <2>3, <3>2, <4>1, <4>2 DEF OpenNow, Open, SomeGood, SomeInUse
    <3> QED BY <2>4, <3>1, <3>2 DEF Vetted
  <2> QED BY <2>1, <2>2, <2>4 DEF Assured, OpenNow
<1>8. CASE SavePage
  <2>1. /\ conf' = menu.conf /\ assured' = menu.vetted /\ UNCHANGED <<menu, stored, service>>
    BY <1>8 DEF SavePage
  <2> QED BY <2>1, <1>a DEF Assured, OpenNow
<1>9. CASE LeavePage \/ MenuRefresh \/ MenuSave \/ LoseState
  <2>1. CASE LeavePage \/ MenuRefresh
    <3>1. UNCHANGED <<conf, assured, stored, service>> /\ menu'.vetted = FALSE
      <4>1. CASE LeavePage
        BY <4>1 DEF LeavePage, MenuIdle, env, history
      <4>2. CASE MenuRefresh
        BY <4>2 DEF MenuRefresh, MenuIdle, env, history
      <4> QED BY <2>1, <4>1, <4>2
    <3> QED BY <3>1, <1>a DEF Assured, OpenNow
  <2>2. CASE MenuSave \/ LoseState
    <3>1. assured' = FALSE /\ menu'.vetted = FALSE
      BY <1>0, <2>2 DEF MenuSave, LoseState, MenuIdle
    <3> QED BY <3>1 DEF Assured
  <2> QED BY <1>9, <2>1, <2>2
<1>10. CASE MenuResolve \/ MenuLoadsToPrune
  <2>1. /\ UNCHANGED <<conf, assured, stored, service>>
        /\ menu'.vetted = menu.vetted /\ menu'.conf = menu.conf
    BY <1>0, <1>10 DEF MenuResolve, MenuLoadsToPrune, env, history
  <2> QED BY <2>1, <1>a DEF Assured, OpenNow
<1>11. ASSUME \/ \E d \in Names, a \in Answers : SetDns(d, a)
              \/ \E f \in Files : SetFile(f)
              \/ UNCHANGED vars
       PROVE  Assured'
  <2>1. UNCHANGED <<conf, assured, stored, service, menu>>
    BY <1>11 DEF SetDns, SetFile, vars, env, history
  <2> QED BY <2>1, <1>a DEF Assured, OpenNow
<1> QED BY <1>1, <1>2, <1>3, <1>4, <1>5, <1>6, <1>7, <1>8, <1>9, <1>10, <1>11 DEF Next

\* After a switch to a whitelist without a warning, saved from a copy that
\* nothing was taken out of since, no list that a round made of what it looked
\* up is empty: whatever DNS, the service and failed saves did meanwhile.
THEOREM LockCheckSafe == Spec => LockCheckTrue
<1>1. IInv /\ Assured /\ [Next]_vars => Assured'
  BY NextAssured
<1>2. IInv /\ Assured
        => [Apply /\ service.dyn /\ assured /\ service.conf = conf
            /\ conf.dw.lastGood /\ OneSwitchEach(conf.dw)
              => kernel'.entries # {}]_vars
  <2> SUFFICES ASSUME IInv, Assured, Apply, service.dyn, assured, service.conf = conf,
                      conf.dw.lastGood, OneSwitchEach(conf.dw)
               PROVE  kernel'.entries # {}
    OBVIOUS
  <2>1. /\ InRound(conf, service) /\ service.at = "read" /\ kernel' = ListOf(conf, service.state)
    BY DEF Apply, InRound
  <2>2. /\ conf.access.mode = "whitelist" /\ (conf.access.entries # {} \/ conf.dw.enabled)
        /\ SomeInUse(conf, service.state)
    BY <2>1 DEF Assured, OpenNow, Open, KeepsGood
  <2>3. conf.access.entries \subseteq kernel'.entries
        /\ DynamicSources(conf.dw, service.state) \subseteq kernel'.entries
    BY <2>1, <2>2 DEF ListOf, Merged
  <2>4. CASE conf.access.entries # {}
    BY <2>3, <2>4
  <2>5. CASE conf.access.entries = {}
    <3>1. conf.dw.enabled
      BY <2>2, <2>5
    <3>2. PICK d \in EnabledDomains(conf.dw) : Find(service.state, d).current # {}
      BY <2>2, <2>5 DEF SomeInUse
    <3>3. Expand(Find(service.state, d).current, conf.dw.cidr) # {}
      BY <3>2, ExpandFacts
    <3>4. DynamicSources(conf.dw, service.state) =
            UNION {Expand(Find(service.state, e).current, conf.dw.cidr) : e \in EnabledDomains(conf.dw)}
      <4>1. ConfOk(conf) /\ StateOk(service.state, heard)
        BY DEF IInv, ServiceOk
      <4> QED BY <3>1, <4>1, DynamicIs
    <3> QED BY <2>3, <3>2, <3>3, <3>4
  <2> QED BY <2>4, <2>5
<1> QED BY InitAssured, Inductive, <1>1, <1>2, PTL DEF Spec, LockCheckTrue
=============================================================================
