------------------------ MODULE TrafficQuota_proofs ------------------------
(***************************************************************************)
(* The accounting for any number of rules, any limits, faults and bounds:  *)
(* a notice is repeated only for a reason; the service by itself never     *)
(* credits an id with more than went through it; and while every rule is   *)
(* enabled, it disables one for the rule's own traffic.                    *)
(***************************************************************************)
EXTENDS TrafficQuota, TLAPS, FiniteSetTheorems, WellFoundedInduction

------------------------------------------------------------------------------
(* Notices.  A key that was notified is in quota-state.json, or in the copy *)
(* of the round until it is saved; each way to lose it is an excuse.        *)

Bounded(k, bound) == notices[k] <= bound

RoundSteps == {"write", "notify", "mark"}

Control ==
    /\ DOMAIN pc = Procs /\ DOMAIN back = Procs
    /\ DOMAIN round = DOMAIN NoRound
    /\ back[Service] \in {"quota", "apply"}

NInv ==
    /\ Control
    /\ excuses \in Nat /\ notices \in [Keys -> Nat]
    /\ \A k \in Keys : Bounded(k, 1 + excuses)
    /\ pc[Service] # "mark" => \A k \in Keys \ notified : Bounded(k, excuses)
    /\ pc[Service] \in RoundSteps => \A k \in Keys \ round.known : Bounded(k, excuses)

LEMMA InitNInv == Init => NInv
BY DEF Init, NInv, Control, Bounded, Procs, RoundSteps

\* Whatever is an excuse makes all bounds hold again.
LEMMA ExcuseNInv ==
    ASSUME NInv, excuses' = excuses + 1, notices' = notices, Control'
    PROVE  NInv'
BY DEF NInv, Bounded

\* Away from the steps of the quota round the marked keys say it all.
LEMMA AwayNInv ==
    ASSUME NInv, UNCHANGED <<excuses, notices, notified>>, Control',
           pc[Service] # "mark", pc'[Service] \notin RoundSteps
    PROVE  NInv'
BY DEF NInv, Bounded, RoundSteps

\* The menu and the kernel leave the round alone.
LEMMA OtherNInv ==
    ASSUME NInv, UNCHANGED <<excuses, notices, notified, round>>, Control',
           pc'[Service] = pc[Service]
    PROVE  NInv'
BY DEF NInv, Bounded

LEMMA ServiceNInv ==
    ASSUME NInv, ServiceStep
    PROVE  NInv'
<1> USE DEF Goto, Procs, Control
<1>1. CASE Collect(Service)
  BY <1>1, AwayNInv DEF NInv, RoundSteps, Collect, List, Load, Save, file, ghost
<1>2. CASE Report \/ SkipCollect \/ SkipQuota \/ ReadConfig
  BY <1>2, AwayNInv DEF NInv, RoundSteps, Report, SkipCollect, SkipQuota, ReadConfig, file, ghost
<1>3. CASE SkipRefresh \/ Refresh
  BY <1>3, AwayNInv DEF NInv, RoundSteps, SkipRefresh, Refresh, NextRound, file, ghost
<1>4. CASE Apply
  BY <1>4, AwayNInv DEF NInv, RoundSteps, Apply, NextRound, file, ghost
<1>5. CASE Decide
  <2>1. PICK over :
          \/ round' = NoRound /\ pc' = [pc EXCEPT ![Service] = "refresh"]
          \/ /\ round' = [round EXCEPT !.over = over, !.known = notified]
             /\ pc' = [pc EXCEPT ![Service] = "write"]
    BY <1>5 DEF Decide
  <2>2. UNCHANGED <<excuses, notices, notified, back>> /\ pc[Service] = "decide"
    BY <1>5 DEF Decide, file, ghost
  <2>3. CASE round' = NoRound /\ pc' = [pc EXCEPT ![Service] = "refresh"]
    BY <2>2, <2>3, AwayNInv DEF NInv, RoundSteps
  <2>4. CASE /\ round' = [round EXCEPT !.over = over, !.known = notified]
             /\ pc' = [pc EXCEPT ![Service] = "write"]
    <3>1. round'.known = notified /\ DOMAIN round' = DOMAIN round
      BY <2>4 DEF NInv, NoRound
    <3>2. pc'[Service] = "write" /\ DOMAIN pc' = Procs
      BY <2>4 DEF NInv
    <3> QED BY <2>2, <3>1, <3>2 DEF NInv, Bounded
  <2> QED BY <2>1, <2>3, <2>4
<1>6. CASE WriteConfig
  <2>1. UNCHANGED <<excuses, notices, notified, back>> /\ pc[Service] = "write"
    BY <1>6 DEF WriteConfig, ghost
  <2>2. CASE pc' = [pc EXCEPT ![Service] = "notify"] /\ round' = round
    BY <2>1, <2>2 DEF NInv, Bounded, RoundSteps
  <2>3. CASE pc' = [pc EXCEPT ![Service] = "refresh"] /\ round' = NoRound
    BY <2>1, <2>3, AwayNInv DEF NInv, RoundSteps
  <2> QED BY <1>6, <2>2, <2>3 DEF WriteConfig
<1>7. CASE Notify
  <2>1. PICK keys :
          /\ notices' = [k \in Keys |-> notices[k] + (IF k \in keys \ round.known THEN 1 ELSE 0)]
          /\ round' = [round EXCEPT !.known = @ \cup keys]
    BY <1>7 DEF Notify
  <2>2. /\ pc[Service] = "notify" /\ pc' = [pc EXCEPT ![Service] = "mark"]
        /\ UNCHANGED <<excuses, notified, back>>
    BY <1>7 DEF Notify, file
  <2>3. round'.known = round.known \cup keys /\ DOMAIN round' = DOMAIN NoRound
    BY <2>1 DEF NInv, NoRound
  <2>4. \A k \in Keys \ round.known : notices[k] <= excuses
    BY <2>2 DEF NInv, RoundSteps, Bounded
  <2>5. /\ excuses \in Nat /\ notices \in [Keys -> Nat]
        /\ \A k \in Keys : notices[k] <= 1 + excuses
    BY DEF NInv, Bounded
  <2>6. notices' \in [Keys -> Nat]
    BY <2>1, <2>5
  <2>7. \A k \in Keys : notices'[k] <= 1 + excuses
    BY <2>1, <2>4, <2>5
  <2>8. \A k \in Keys \ round'.known : notices'[k] <= excuses
    BY <2>1, <2>3, <2>4, <2>5
  <2>9. pc'[Service] = "mark" /\ Control'
    BY <2>2, <2>3 DEF NInv
  <2> QED BY <2>2, <2>5, <2>6, <2>7, <2>8, <2>9 DEF NInv, Bounded
<1>8. CASE Mark
  <2>1. /\ pc[Service] = "mark" /\ pc' = [pc EXCEPT ![Service] = "refresh"]
        /\ round' = NoRound /\ UNCHANGED <<notices, back>>
    BY <1>8 DEF Mark
  <2>2. CASE notified' = round.known /\ UNCHANGED excuses
    BY <2>1, <2>2 DEF NInv, Bounded, RoundSteps
  <2>3. CASE excuses' = excuses + 1
    BY <2>1, <2>3, ExcuseNInv DEF NInv
  <2> QED BY <1>8, <2>2, <2>3 DEF Mark
<1> QED BY <1>1, <1>2, <1>3, <1>4, <1>5, <1>6, <1>7, <1>8 DEF ServiceStep

LEMMA MenuNInv ==
    ASSUME NInv, MenuStep
    PROVE  NInv'
<1> USE TrafficQuotaAssumption DEF Goto, Procs, Control
<1>1. CASE ShowStats \/ Collect(Menu) \/ BeginReset \/ ResetDaily
  BY <1>1, OtherNInv DEF NInv, ShowStats, Collect, List, Load, Save, BeginReset, ResetDaily, file, ghost
<1>2. CASE OpenToggle \/ Cancel \/ StoreToggle \/ \E i \in Rules : ChooseDisable(i)
  BY <1>2, OtherNInv DEF NInv, OpenToggle, Cancel, StoreToggle, ChooseDisable, file, ghost
<1>3. ASSUME NEW i \in Rules, ChooseEnable(i) PROVE NInv'
  <2>1. /\ UNCHANGED <<notices, round, back>>
        /\ pc' = [pc EXCEPT ![Menu] = "store"]
    BY <1>3 DEF ChooseEnable
  <2>2. CASE excuses' = excuses + 1
    BY <2>1, <2>2, ExcuseNInv DEF NInv
  <2>3. CASE UNCHANGED <<notified, excuses>>
    BY <2>1, <2>3, OtherNInv DEF NInv
  <2> QED BY <1>3, <2>2, <2>3 DEF ChooseEnable
<1> QED BY <1>1, <1>2, <1>3 DEF MenuStep

LEMMA NextNInv == NInv /\ [Next]_vars => NInv'
<1> SUFFICES ASSUME NInv, [Next]_vars PROVE NInv'
  OBVIOUS
<1>1. ASSUME NEW i \in Rules, Traffic(i) PROVE NInv'
  BY <1>1, OtherNInv DEF NInv, Control, Traffic, file
<1>2. CASE Midnight \/ UNCHANGED vars
  BY <1>2, OtherNInv DEF NInv, Control, Midnight, file, ghost, vars
<1>3. CASE Kill
  BY <1>3, ExcuseNInv DEF NInv, Control, Kill, NextRound, Goto, Procs
<1> QED BY <1>1, <1>2, <1>3, ServiceNInv, MenuNInv DEF Next

\* Whatever the service, the menu, crashes and lost saves do, a key is
\* notified at most once more than there were excuses.
THEOREM NoticesAlwaysDeduplicated == Spec => []NoticesDeduplicated
<1>1. NInv => NoticesDeduplicated
  BY DEF NInv, NoticesDeduplicated, Bounded
<1> QED BY <1>1, InitNInv, NextNInv, PTL DEF Spec

------------------------------------------------------------------------------
(* Credits.  While nobody uses the menu, what is credited to an id and what *)
(* its counter shows beyond the last reading went through it; a reset of    *)
(* the counter takes nothing back.                                          *)

Shape(s) ==
    /\ DOMAIN s = DOMAIN Fresh
    /\ s.last \in [Ids -> Nat \cup {Unseen}] /\ s.total \in [Ids -> Nat]

\* Of id k, s has credited bytes that went through it, and may still credit
\* what its counter has gained since.
Backed(s, k) ==
    /\ s.total[k] <= passed[k]
    /\ s.last[k] # Unseen => s.total[k] + counter[k] - s.last[k] <= passed[k]

\* Folding snapshot n into s keeps that true.
FoldBacked(s, n, k) ==
    /\ n.bytes[k] <= counter[k]
    /\ s.total[k] + Delta(s.last[k], n.bytes[k]) + counter[k] - n.bytes[k] <= passed[k]

Alone ==
    /\ pc[Menu] = "idle" /\ DOMAIN pc = Procs /\ DOMAIN back = Procs
    /\ DOMAIN mem = Procs /\ DOMAIN snap = Procs
    /\ back[Service] \in {"quota", "apply"}
    /\ counter \in [Ids -> Nat] /\ passed \in [Ids -> Nat]
    /\ Shape(stats) /\ Shape(mem[Service]) /\ snap[Service].bytes \in [Ids -> Nat]
    /\ \A k \in Ids :
         /\ counter[k] <= passed[k]
         /\ Backed(stats, k) /\ Backed(mem[Service], k)
         /\ pc[Service] = "load" => FoldBacked(stats, snap[Service], k)
         /\ pc[Service] = "save" => FoldBacked(mem[Service], snap[Service], k)

CInv == edits \in Nat /\ (edits = 0 => Alone)

\* An empty file credits nothing, now and later.
LEMMA FreshBacked ==
    ASSUME counter \in [Ids -> Nat], passed \in [Ids -> Nat],
           NEW k \in Ids, counter[k] <= passed[k]
    PROVE  /\ Shape(Fresh) /\ Backed(Fresh, k)
           /\ \A n : n.bytes \in [Ids -> Nat] /\ n.bytes[k] <= counter[k] => FoldBacked(Fresh, n, k)
BY TrafficQuotaAssumption DEF Fresh, Zero, Shape, Backed, FoldBacked, Delta

LEMMA InitCInv == Init => CInv
BY TrafficQuotaAssumption
   DEF Init, CInv, Alone, Procs, Zero, Fresh, Shape, Backed, NoSnap

\* A snapshot just taken has nothing in it that was not counted.
LEMMA SnapBacked ==
    ASSUME Alone, NEW k \in Ids, NEW n, n.bytes = counter
    PROVE  FoldBacked(stats, n, k)
BY TrafficQuotaAssumption DEF Alone, Shape, Backed, FoldBacked, Delta

\* What a collection writes is backed again.
LEMMA FoldIsBacked ==
    ASSUME NEW s, NEW n, Shape(s), n.bytes \in [Ids -> Nat],
           counter \in [Ids -> Nat], passed \in [Ids -> Nat],
           \A k \in Ids : Backed(s, k) /\ FoldBacked(s, n, k)
    PROVE  Shape(Fold(s, n)) /\ \A k \in Ids : Backed(Fold(s, n), k)
<1> DEFINE d == [k \in Ids |-> IF k \in n.ids THEN Delta(s.last[k], n.bytes[k]) ELSE 0]
           t == Fold(s, n)
<1>1. /\ t.last = [k \in Ids |-> IF k \in n.ids THEN n.bytes[k] ELSE s.last[k]]
      /\ t.total = [k \in Ids |-> s.total[k] + d[k]]
  <2>1. Rolled(s, n.day).total = s.total
    BY DEF Rolled, Shape, Fresh
  <2> QED BY <2>1 DEF Fold
<1>2. \A k \in Ids : Delta(s.last[k], n.bytes[k]) \in Nat
  BY DEF Delta, Shape
<1> HIDE DEF t
<1>3. Shape(t)
  <2>1. DOMAIN t = DOMAIN Fresh
    BY DEF t, Fold, Fresh
  <2> QED BY <1>1, <1>2, <2>1 DEF Shape
<1>4. ASSUME NEW k \in Ids PROVE Backed(t, k)
  <2>1. CASE k \in n.ids
    BY <1>1, <1>2, <2>1 DEF Backed, FoldBacked, Shape
  <2>2. CASE k \notin n.ids
    BY <1>1, <2>2 DEF Backed, Shape
  <2> QED BY <2>1, <2>2
<1> QED BY <1>3, <1>4 DEF t

\* Steps that leave the accounts alone, and do not enter a collection.
LEMMA QuietAlone ==
    ASSUME Alone, UNCHANGED <<stats, mem, snap, counter, passed>>,
           DOMAIN pc' = Procs, DOMAIN back' = Procs, pc'[Menu] = "idle",
           back'[Service] \in {"quota", "apply"},
           pc'[Service] \in {"load", "save"} => pc'[Service] = pc[Service]
    PROVE  Alone'
BY DEF Alone, Shape, Backed, FoldBacked

LEMMA TrafficAlone ==
    ASSUME Alone, NEW i \in Rules, Traffic(i)
    PROVE  Alone'
<1> DEFINE k0 == IdIn(live, i)
<1>1. /\ counter' = [counter EXCEPT ![k0] = @ + 1] /\ passed' = [passed EXCEPT ![k0] = @ + 1]
      /\ UNCHANGED <<stats, mem, snap, pc, back>>
  BY DEF Traffic, file
<1> HIDE DEF k0
<1>2. counter' \in [Ids -> Nat] /\ passed' \in [Ids -> Nat]
  <2>1. counter \in [Ids -> Nat] /\ passed \in [Ids -> Nat]
    BY DEF Alone
  <2>2. ASSUME NEW f \in [Ids -> Nat], NEW x
        PROVE  [f EXCEPT ![x] = f[x] + 1] \in [Ids -> Nat]
    <3>1. CASE x \in Ids
      BY <3>1
    <3>2. CASE x \notin Ids
      BY <3>2
    <3> QED BY <3>1, <3>2
  <2>3. counter' \in [Ids -> Nat]
    BY Zenon, <1>1, <2>1, <2>2
  <2>4. passed' \in [Ids -> Nat]
    BY Zenon, <1>1, <2>1, <2>2
  <2> QED BY <2>3, <2>4
<1>3. ASSUME NEW k \in Ids
      PROVE  \/ counter'[k] = counter[k] + 1 /\ passed'[k] = passed[k] + 1
             \/ counter'[k] = counter[k] /\ passed'[k] = passed[k]
  BY <1>1 DEF Alone
<1>4. ASSUME NEW k \in Ids, NEW s, Shape(s), Backed(s, k)
      PROVE  /\ s.total[k] <= passed'[k]
             /\ s.last[k] # Unseen => s.total[k] + counter'[k] - s.last[k] <= passed'[k]
  BY <1>3, <1>4 DEF Alone, Backed, Shape
<1>5. ASSUME NEW k \in Ids, NEW s, NEW n, Shape(s), n.bytes \in [Ids -> Nat], FoldBacked(s, n, k)
      PROVE  /\ n.bytes[k] <= counter'[k]
             /\ s.total[k] + Delta(s.last[k], n.bytes[k]) + counter'[k] - n.bytes[k] <= passed'[k]
  <2>1. Delta(s.last[k], n.bytes[k]) \in Nat
    BY <1>5 DEF Delta, Shape
  <2> QED BY <1>3, <1>5, <2>1 DEF Alone, FoldBacked, Shape
<1>6. \A k \in Ids : counter'[k] <= passed'[k]
  BY <1>3 DEF Alone
<1>7. \A k \in Ids : Backed(stats, k)' /\ Backed(mem[Service], k)'
  BY <1>1, <1>4 DEF Alone, Backed
<1>8. \A k \in Ids : /\ pc[Service] = "load" => FoldBacked(stats, snap[Service], k)'
                     /\ pc[Service] = "save" => FoldBacked(mem[Service], snap[Service], k)'
  BY <1>1, <1>5 DEF Alone, FoldBacked
<1> QED BY <1>1, <1>2, <1>6, <1>7, <1>8 DEF Alone, Shape

LEMMA CollectAlone ==
    ASSUME Alone, Collect(Service)
    PROVE  Alone'
<1> USE TrafficQuotaAssumption DEF Goto, Procs
<1>1. CASE List(Service)
  <2>1. UNCHANGED <<stats, mem, counter, passed, back>>
    BY <1>1 DEF List, file, nft, ghost
  <2>2. CASE /\ snap' = [snap EXCEPT ![Service] = [ids |-> 1 .. Cardinality(live),
                                                  bytes |-> counter, day |-> today]]
             /\ pc' = [pc EXCEPT ![Service] = "load"]
    <3>1. snap'[Service].bytes = counter /\ DOMAIN snap' = Procs
      BY <2>2 DEF Alone
    <3>2. \A k \in Ids : FoldBacked(stats, snap'[Service], k)
      BY <3>1, SnapBacked
    <3> QED BY <2>1, <2>2, <3>1, <3>2 DEF Alone, Shape, Backed, FoldBacked
  <2>3. CASE pc' = [pc EXCEPT ![Service] = back[Service]] /\ snap' = snap
    BY <2>1, <2>3, QuietAlone DEF Alone
  <2> QED BY <1>1, <2>2, <2>3 DEF List
<1>2. CASE Load(Service)
  <2>1. Readable(Service) = {stats}
    BY DEF Alone, Readable
  <2>2. mem' = [mem EXCEPT ![Service] = stats] /\ pc' = [pc EXCEPT ![Service] = "save"]
    BY <1>2, <2>1 DEF Load
  <2>3. UNCHANGED <<stats, snap, counter, passed, back>> /\ pc[Service] = "load"
    BY <1>2 DEF Load, file, nft, ghost
  <2> QED BY <2>2, <2>3 DEF Alone, Shape, Backed, FoldBacked
<1>3. CASE Save(Service)
  <2> DEFINE s == Fold(mem[Service], snap[Service])
  <2>1. Shape(s) /\ \A k \in Ids : Backed(s, k)
    BY <1>3, FoldIsBacked DEF Alone, Save
  <2>2. /\ UNCHANGED <<counter, passed, back>> /\ pc[Service] = "save"
        /\ snap' = [snap EXCEPT ![Service] = NoSnap]
    BY <1>3 DEF Save, nft, ghost
  <2>3. snap'[Service].bytes \in [Ids -> Nat] /\ DOMAIN snap' = Procs
    BY <2>2 DEF Alone, NoSnap, Zero
  <2>4. Shape(Fresh) /\ \A k \in Ids : Backed(Fresh, k)
    BY FreshBacked DEF Alone, Fresh, Zero, Shape
  <2> HIDE DEF s
  <2>5. CASE /\ stats' = s /\ mem' = [mem EXCEPT ![Service] = s]
             /\ pc' = [pc EXCEPT ![Service] = "telegram"]
    BY <2>1, <2>2, <2>3, <2>5 DEF Alone, Shape, Backed
  <2>6. CASE /\ stats' \in {stats, Fresh} /\ mem' = [mem EXCEPT ![Service] = Fresh]
             /\ pc' = [pc EXCEPT ![Service] = back[Service]]
    BY <2>2, <2>3, <2>4, <2>6 DEF Alone, Shape, Backed
  <2> QED BY <1>3, <2>5, <2>6 DEF Save, StatsLost, s
<1> QED BY <1>1, <1>2, <1>3 DEF Collect

\* A reset of the counters outside a collection.
LEMMA ZeroAlone ==
    ASSUME Alone, UNCHANGED <<stats, mem, snap, passed>>, counter' = Zero,
           pc' = [pc EXCEPT ![Service] = "list"], back' = [back EXCEPT ![Service] = "quota"]
    PROVE  Alone'
BY TrafficQuotaAssumption DEF Alone, Shape, Backed, Zero, Procs

LEMMA OtherServiceAlone ==
    ASSUME Alone, ServiceStep, ~Collect(Service)
    PROVE  Alone'
<1> USE TrafficQuotaAssumption DEF Goto, Procs
<1>1. CASE Report
  <2>1. /\ UNCHANGED <<snap, counter, passed, back>>
        /\ mem' = [mem EXCEPT ![Service] = Fresh] /\ pc' = [pc EXCEPT ![Service] = back[Service]]
        /\ stats' \in {stats, mem[Service], Fresh}
    BY <1>1 DEF Report, StatsLost, nft, ghost
  <2>2. Shape(Fresh) /\ \A k \in Ids : Backed(Fresh, k)
    BY FreshBacked DEF Alone, Fresh, Zero, Shape
  <2> QED BY <2>1, <2>2 DEF Alone, Shape, Backed
<1>2. CASE SkipCollect \/ SkipQuota \/ ReadConfig \/ SkipRefresh \/ Refresh
  BY <1>2, QuietAlone
     DEF Alone, SkipCollect, SkipQuota, ReadConfig, SkipRefresh, Refresh, NextRound, file, nft, ghost
<1>3. CASE Decide \/ WriteConfig \/ Notify \/ Mark
  BY <1>3, QuietAlone DEF Alone, Decide, WriteConfig, Notify, Mark, file, nft, ghost
<1>4. CASE Apply
  <2>1. /\ UNCHANGED <<stats, mem, snap, passed>> /\ counter' \in {Zero}
        /\ pc' = [pc EXCEPT ![Service] = "list"]
        /\ back' = [back EXCEPT ![Service] = "quota"]
    BY <1>4 DEF Apply, ExecStop, NextRound, file, ghost
  <2> QED BY <2>1, ZeroAlone
<1> QED BY <1>1, <1>2, <1>3, <1>4 DEF ServiceStep

LEMMA KillAlone ==
    ASSUME Alone, Kill
    PROVE  Alone'
<1> USE TrafficQuotaAssumption DEF Goto, Procs
<1>1. /\ stats' \in {stats, Fresh} /\ counter' = Zero /\ passed' = passed
      /\ snap' = [snap EXCEPT ![Service] = NoSnap] /\ mem' = [mem EXCEPT ![Service] = Fresh]
      /\ pc' = [pc EXCEPT ![Service] = "list"] /\ back' = [back EXCEPT ![Service] = "quota"]
  BY DEF Kill, ExecStop, NextRound
<1>2. Shape(Fresh) /\ \A k \in Ids : Backed(Fresh, k)
  BY FreshBacked DEF Alone, Fresh, Zero, Shape
<1>3. NoSnap.bytes \in [Ids -> Nat]
  BY DEF NoSnap, Zero
<1> QED BY <1>1, <1>2, <1>3 DEF Alone, Shape, Backed, Zero

LEMMA NextCInv == CInv /\ [Next]_vars => CInv'
<1> SUFFICES ASSUME CInv, [Next]_vars PROVE CInv'
  OBVIOUS
<1>1. CASE MenuStep
  <2>1. CASE ShowStats \/ BeginReset \/ OpenToggle
    BY <2>1 DEF CInv, ShowStats, BeginReset, OpenToggle, Operate
  <2>2. CASE ~(ShowStats \/ BeginReset \/ OpenToggle)
    <3>1. edits' = edits
      BY <1>1, <2>2 DEF MenuStep, Collect, List, Load, Save, ResetDaily, ChooseEnable, ChooseDisable,
                        Cancel, StoreToggle
    <3>2. pc[Menu] # "idle"
      BY <1>1, <2>2 DEF MenuStep, Collect, List, Load, Save, ResetDaily, ChooseEnable, ChooseDisable,
                        Cancel, StoreToggle
    <3> QED BY <3>1, <3>2 DEF CInv, Alone
  <2> QED BY <2>1, <2>2
<1>2. CASE ServiceStep
  <2>1. edits' = edits
    BY <1>2 DEF ServiceStep, Collect, List, Load, Save, Report, SkipCollect, SkipQuota, ReadConfig,
                Decide, WriteConfig, Notify, Mark, SkipRefresh, Refresh, Apply
  <2> QED BY <1>2, <2>1, CollectAlone, OtherServiceAlone DEF CInv
<1>3. CASE Kill
  BY <1>3, KillAlone DEF CInv, Kill
<1>4. ASSUME NEW i \in Rules, Traffic(i) PROVE CInv'
  <2>1. edits' = edits
    BY <1>4 DEF Traffic
  <2> QED BY <1>4, <2>1, TrafficAlone DEF CInv
<1>5. CASE Midnight \/ UNCHANGED vars
  BY <1>5, QuietAlone DEF CInv, Alone, Midnight, file, nft, ghost, vars
<1> QED BY <1>1, <1>2, <1>3, <1>4, <1>5 DEF Next

\* While the service is the only one to collect, no id is credited with more
\* than went through it: whatever crashes, torn files and resets there are.
THEOREM AlwaysUndercounts == Spec => []NeverOvercounts
<1>1. CInv => NeverOvercounts
  BY DEF CInv, Alone, Backed, NeverOvercounts
<1> QED BY <1>1, InitCInv, NextCInv, PTL DEF Spec
------------------------------------------------------------------------------
(* Own traffic.  As long as all rules are enabled the id of a rule is its   *)
(* place, in the file, in the kernel and in the round: what went through    *)
(* the id is what went through the rule, and no day has more than all days. *)

DayWithin(s) == s.day \in [Ids -> Nat] /\ \A k \in Ids : s.day[k] <= s.total[k]

Intact ==
    /\ live \in {{}, Rules} /\ conf[Service] \in {{}, Rules}
    /\ own = passed
    /\ DayWithin(stats) /\ DayWithin(mem[Service])
    /\ pc[Service] = "write" => round.over \subseteq {i \in Rules : own[i] >= Limit[i]}

\* The file only loses rules, and a round decides on what it holds.
Reads ==
    /\ DOMAIN conf = Procs /\ DOMAIN round = DOMAIN NoRound
    /\ enabled \subseteq Rules
    /\ pc[Service] \in {"decide", "write"} => conf[Service] = enabled

OInv == edits = 0 => Reads /\ (enabled = Rules => Intact)

LEMMA PlaceOfAll ==
    ASSUME NEW i \in Rules
    PROVE  IdIn(Rules, i) = i
<1>1. {j \in Rules : j <= i} = 1 .. i
  BY TrafficQuotaAssumption DEF Rules
<1>2. i \in Int /\ i >= 1
  BY TrafficQuotaAssumption DEF Rules
<1>3. Cardinality(1 .. i) = i
  BY <1>2, FS_Interval
<1> QED BY <1>1, <1>3 DEF IdIn

LEMMA InitOInv == Init => OInv
BY TrafficQuotaAssumption
   DEF Init, OInv, Reads, Intact, DayWithin, Procs, Zero, Fresh, NoRound, Ids, Rules

\* A collection adds to the day and to the total alike.
LEMMA FoldDay ==
    ASSUME NEW s, NEW n, Shape(s), n.bytes \in [Ids -> Nat], DayWithin(s)
    PROVE  DayWithin(Fold(s, n))
<1> DEFINE d == [k \in Ids |-> IF k \in n.ids THEN Delta(s.last[k], n.bytes[k]) ELSE 0]
           r == Rolled(s, n.day)
           t == Fold(s, n)
<1>1. \A k \in Ids : d[k] \in Nat
  BY DEF Delta, Shape
<1>2. r.day \in {s.day, Zero} /\ r.total = s.total
  BY DEF Rolled, Shape, Fresh
<1>3. t.day = [k \in Ids |-> r.day[k] + d[k]] /\ t.total = [k \in Ids |-> r.total[k] + d[k]]
  BY DEF Fold
<1> HIDE DEF d, r, t
<1>4. \A k \in Ids : r.day[k] \in Nat /\ r.day[k] <= r.total[k] /\ r.total[k] \in Nat
  BY <1>2 DEF DayWithin, Shape, Zero
<1>5. DayWithin(t)
  BY <1>1, <1>3, <1>4 DEF DayWithin
<1> QED BY <1>5 DEF t

\* Outside the collection and the decision.
LEMMA QuietIntact ==
    ASSUME Intact, UNCHANGED <<stats, mem, own, passed>>,
           live' \in {{}, Rules}, conf'[Service] \in {{}, Rules}, pc'[Service] # "write"
    PROVE  Intact'
BY DEF Intact, DayWithin

LEMMA TrafficIntact ==
    ASSUME Intact, NEW i \in Rules, Traffic(i), passed \in [Ids -> Nat]
    PROVE  Intact'
<1>1. live = Rules
  BY DEF Traffic, Intact
<1>2. /\ passed' = [passed EXCEPT ![i] = @ + 1] /\ own' = [own EXCEPT ![i] = @ + 1]
      /\ UNCHANGED <<live, stats, mem, conf, pc, round>>
  BY <1>1, PlaceOfAll DEF Traffic, file
<1>3. own' = passed'
  BY <1>2 DEF Intact
<1>4. \A j \in Rules : own'[j] >= own[j] /\ own[j] \in Nat /\ own'[j] \in Nat /\ Limit[j] \in Nat
  BY <1>2, TrafficQuotaAssumption DEF Intact, Ids, Rules
<1>5. pc'[Service] = "write" => round'.over \subseteq {j \in Rules : own'[j] >= Limit[j]}
  BY <1>2, <1>4 DEF Intact
<1> QED BY <1>2, <1>3, <1>5 DEF Intact, DayWithin

LEMMA CollectIntact ==
    ASSUME Alone, Intact, Collect(Service)
    PROVE  Intact'
<1> USE TrafficQuotaAssumption DEF Goto, Procs
<1>1. DayWithin(Fresh)
  BY DEF DayWithin, Fresh, Zero
<1>2. pc'[Service] # "write"
  BY DEF Alone, Collect, List, Load, Save
<1>3. UNCHANGED <<live, conf, own, passed>>
  BY DEF Collect, List, Load, Save, nft, ghost
<1>4. DayWithin(stats') /\ DayWithin(mem'[Service])
  <2>1. CASE List(Service)
    BY <2>1 DEF List, file, Intact
  <2>2. CASE Load(Service)
    <3>1. Readable(Service) = {stats}
      BY DEF Alone, Readable
    <3> QED BY <2>2, <3>1 DEF Load, file, Intact, Alone
  <2>3. CASE Save(Service)
    <3> DEFINE s == Fold(mem[Service], snap[Service])
    <3>1. DayWithin(s)
      BY FoldDay DEF Alone, Intact
    <3> HIDE DEF s
    <3>2. \/ stats' = s /\ mem' = [mem EXCEPT ![Service] = s]
          \/ stats' \in {stats, Fresh} /\ mem' = [mem EXCEPT ![Service] = Fresh]
      BY <2>3 DEF Save, StatsLost, s
    <3> QED BY <1>1, <3>1, <3>2 DEF Intact, Alone
  <2> QED BY <2>1, <2>2, <2>3 DEF Collect
<1> QED BY <1>2, <1>3, <1>4 DEF Intact, DayWithin

\* The round finds over its limit only what passed it.
LEMMA DecideIntact ==
    ASSUME Alone, Reads, Intact, enabled = Rules, Decide
    PROVE  Intact'
<1>1. Readable(Service) = {stats}
  BY TrafficQuotaAssumption DEF Alone, Readable, Procs
<1>2. conf[Service] = Rules
  BY DEF Decide, Reads
<1>3. \A i \in Over(stats, Rules) : i \in Rules /\ own[i] >= Limit[i]
  <2> SUFFICES ASSUME NEW i \in Over(stats, Rules) PROVE i \in Rules /\ own[i] >= Limit[i]
    OBVIOUS
  <2>1. i \in Rules /\ i \in Ids /\ Used(stats, Rules, i) >= Limit[i] /\ Limit[i] \in Nat
    BY TrafficQuotaAssumption DEF Over, Ids, Rules
  <2>2. Used(stats, Rules, i) \in {stats.day[i], stats.total[i]}
    BY <2>1, PlaceOfAll DEF Used
  <2>3. /\ stats.day[i] \in Nat /\ stats.total[i] \in Nat /\ passed[i] \in Nat
        /\ stats.day[i] <= stats.total[i] /\ stats.total[i] <= passed[i]
    BY <2>1 DEF Alone, Shape, Backed, Intact, DayWithin
  <2>4. own[i] = passed[i]
    BY DEF Intact
  <2> QED BY <2>1, <2>2, <2>3, <2>4
<1>4. /\ UNCHANGED <<live, conf, own, passed, stats, mem>>
      /\ pc' = [pc EXCEPT ![Service] = "refresh"] \/ round'.over = Over(stats, Rules)
  BY <1>1, <1>2 DEF Decide, Reads, NoRound, Goto, file, nft, ghost
<1>5. pc'[Service] = "write" => round'.over = Over(stats, Rules)
  BY <1>4, TrafficQuotaAssumption DEF Alone, Procs
<1> QED BY <1>3, <1>4, <1>5 DEF Intact, DayWithin

\* The other steps of the service, and what they do to the file.
LEMMA ServiceIntact ==
    ASSUME Alone, Reads, Intact, enabled = Rules, enabled' = Rules,
           ServiceStep \/ Kill, ~Collect(Service), ~Decide
    PROVE  Intact'
<1> USE TrafficQuotaAssumption DEF Goto, Procs
<1>1. CASE Report
  <2>1. DayWithin(Fresh)
    BY DEF DayWithin, Fresh, Zero
  <2>2. /\ UNCHANGED <<live, conf, own, passed>> /\ pc'[Service] # "write"
        /\ stats' \in {stats, mem[Service], Fresh} /\ mem'[Service] = Fresh
    BY <1>1 DEF Report, StatsLost, nft, ghost, Alone
  <2> QED BY <2>1, <2>2 DEF Intact, DayWithin
<1>2. CASE SkipCollect \/ SkipQuota \/ ReadConfig \/ SkipRefresh \/ Refresh
  BY <1>2, QuietIntact
     DEF Intact, Reads, Alone, SkipCollect, SkipQuota, ReadConfig, SkipRefresh, Refresh, NextRound, file, nft, ghost
<1>3. CASE WriteConfig \/ Notify \/ Mark
  BY <1>3, QuietIntact DEF Intact, Alone, WriteConfig, Notify, Mark, file, nft, ghost
<1>4. CASE Apply
  BY <1>4, QuietIntact DEF Intact, Reads, Alone, Apply, ExecStop, NextRound, file, ghost
<1>5. CASE Kill
  <2>1. DayWithin(Fresh)
    BY DEF DayWithin, Fresh, Zero
  <2>2. /\ live' = {} /\ conf'[Service] = {} /\ UNCHANGED <<own, passed>> /\ pc'[Service] # "write"
        /\ stats' \in {stats, Fresh} /\ mem'[Service] = Fresh
    BY <1>5 DEF Kill, ExecStop, NextRound, Alone, Reads
  <2> QED BY <2>1, <2>2 DEF Intact, DayWithin
<1> QED BY <1>1, <1>2, <1>3, <1>4, <1>5 DEF ServiceStep

LEMMA ReadsStep ==
    ASSUME Alone, Reads, [Next]_vars, ~MenuStep
    PROVE  Reads' /\ enabled' \subseteq enabled
<1> USE TrafficQuotaAssumption DEF Goto, Procs
<1>1. CASE Collect(Service) \/ Report \/ SkipCollect \/ SkipQuota \/ SkipRefresh
  BY <1>1 DEF Alone, Reads, Collect, List, Load, Save, Report, SkipCollect, SkipQuota, SkipRefresh,
              NextRound, file
<1>2. CASE ReadConfig \/ Refresh
  BY <1>2 DEF Alone, Reads, ReadConfig, Refresh, NextRound, NoRound, file
<1>3. CASE Decide
  BY <1>3 DEF Alone, Reads, Decide, NoRound, file
<1>4. CASE WriteConfig
  BY <1>4 DEF Alone, Reads, WriteConfig, NoRound
<1>5. CASE Notify \/ Mark
  BY <1>5 DEF Alone, Reads, Notify, Mark, NoRound, file
<1>6. CASE Apply \/ Kill
  BY <1>6 DEF Alone, Reads, Apply, Kill, NextRound, NoRound, file
<1>7. CASE Midnight \/ UNCHANGED vars \/ \E i \in Rules : Traffic(i)
  BY <1>7 DEF Alone, Reads, Midnight, Traffic, file, vars
<1> QED BY <1>1, <1>2, <1>3, <1>4, <1>5, <1>6, <1>7 DEF Next, ServiceStep

LEMMA NextOInv == CInv /\ OInv /\ [Next]_vars => OInv'
<1> SUFFICES ASSUME CInv, OInv, [Next]_vars, edits' = 0 PROVE Reads' /\ (enabled' = Rules => Intact')
  BY DEF OInv
<1>1. edits = 0 /\ ~MenuStep
  <2>1. edits' = edits \/ edits' = edits + 1
    BY DEF Next, ServiceStep, MenuStep, vars, Collect, List, Load, Save, Report, SkipCollect,
           SkipQuota, ReadConfig, Decide, WriteConfig, Notify, Mark, SkipRefresh, Refresh, Apply,
           Kill, Traffic, Midnight, ShowStats, BeginReset, ResetDaily, OpenToggle, ChooseEnable,
           ChooseDisable, Cancel, StoreToggle, Operate
  <2>2. edits = 0
    BY <2>1 DEF CInv
  <2>3. pc[Menu] = "idle"
    BY <2>2 DEF CInv, Alone
  <2> QED BY <2>2, <2>3 DEF MenuStep, Collect, List, Load, Save, ShowStats, BeginReset, ResetDaily,
             OpenToggle, ChooseEnable, ChooseDisable, Cancel, StoreToggle, Operate
<1>2. Alone /\ Reads /\ (enabled = Rules => Intact)
  BY <1>1 DEF CInv, OInv
<1>3. Reads' /\ enabled' \subseteq enabled
  BY <1>1, <1>2, ReadsStep
<1>4. ASSUME enabled' = Rules PROVE Intact'
  <2>1. enabled = Rules /\ Intact
    BY <1>2, <1>3, <1>4 DEF Reads
  <2>2. CASE \E i \in Rules : Traffic(i)
    BY <1>2, <2>1, <2>2, TrafficIntact DEF Alone
  <2>3. CASE Midnight \/ UNCHANGED vars
    BY <2>1, <2>3 DEF Midnight, vars, file, nft, ghost, Intact, DayWithin
  <2>4. CASE ServiceStep \/ Kill
    BY <1>2, <1>4, <2>1, <2>4, CollectIntact, DecideIntact, ServiceIntact
  <2> QED BY <1>1, <2>2, <2>3, <2>4 DEF Next
<1> QED BY <1>3, <1>4

\* The first rules that a quota disables had used it up by themselves, while
\* the service is the only one to collect and to write the file.
THEOREM FirstAlwaysOwn == Spec => FirstDisabledByOwnTraffic
<1> DEFINE Step == \A i \in Rules :
                     edits = 0 /\ enabled = Rules /\ i \notin enabled' => own[i] >= Limit[i]
<1>1. ASSUME CInv, OInv, [Next]_vars PROVE [Step]_vars
  <2> SUFFICES ASSUME NEW i \in Rules, edits = 0, enabled = Rules, i \notin enabled'
               PROVE  own[i] >= Limit[i]
    OBVIOUS
  <2>1. Alone /\ Reads /\ Intact
    BY <1>1 DEF CInv, OInv
  <2>2. pc[Service] = "write" /\ enabled' = conf[Service] \ round.over
    <3>1. enabled' # enabled
      OBVIOUS
    <3>2. ~MenuStep
      BY <2>1, <3>1 DEF Alone, MenuStep, Collect, List, Load, Save, ShowStats, BeginReset, ResetDaily,
             OpenToggle, ChooseEnable, ChooseDisable, Cancel, StoreToggle, file
    <3> QED BY <1>1, <3>1, <3>2 DEF Next, ServiceStep, vars, Collect, List, Load, Save, Report, SkipCollect,
           SkipQuota, ReadConfig, Decide, WriteConfig, Notify, Mark, SkipRefresh, Refresh, Apply,
           Kill, Traffic, Midnight, file
  <2>3. i \in round.over
    BY <2>1, <2>2 DEF Reads
  <2> QED BY <2>1, <2>2, <2>3 DEF Intact
<1> QED BY <1>1, InitCInv, NextCInv, InitOInv, NextOInv, PTL DEF Spec, FirstDisabledByOwnTraffic

------------------------------------------------------------------------------
(* Sums.  SumFunction is a recursive function over the subsets of the       *)
(* domain; what it computes follows by taking a least set for which it      *)
(* would not.                                                               *)

\* The element that the recursion takes next, and the equation it satisfies.
Taken(s) == CHOOSE x \in s : TRUE
Sums(f, U, g) == g = [s \in U |-> IF s = {} THEN 0 ELSE f[Taken(s)] + g[s \ {Taken(s)}]]

UpTo(D, n) == {s \in SUBSET D : Cardinality(s) <= n}

LEMMA LeastOf ==
    ASSUME NEW S \in SUBSET Nat, S # {}
    PROVE  \E n \in S : \A m \in S : n <= m
<1>1. PICK n \in S : \A m \in S : <<m, n>> \notin OpToRel(<, Nat)
  BY WFMin, NatLessThanWellFounded, Zenon
<1>2. \A m \in S : <<m, n>> \in Nat \X Nat
  OBVIOUS
<1>3. \A m \in S : ~(<<m, n>>[1] < <<m, n>>[2])
  BY <1>1, <1>2, Zenon DEF OpToRel
<1>4. \A m \in S : n <= m
  BY <1>3
<1> QED BY <1>4

\* The next set is smaller.
LEMMA Smaller ==
    ASSUME NEW D, IsFiniteSet(D), NEW s \in SUBSET D, s # {}
    PROVE  /\ Taken(s) \in s /\ s \ {Taken(s)} \in SUBSET D
           /\ Cardinality(s) \in Nat /\ Cardinality(s \ {Taken(s)}) \in Nat
           /\ Cardinality(s \ {Taken(s)}) = Cardinality(s) - 1
<1>1. Taken(s) \in s
  BY DEF Taken
<1>2. IsFiniteSet(s)
  BY FS_Subset
<1>3. /\ IsFiniteSet(s \ {Taken(s)})
      /\ Cardinality(s \ {Taken(s)}) = Cardinality(s) - 1
  BY <1>1, <1>2, FS_RemoveElement
<1>4. Cardinality(s) \in Nat /\ Cardinality(s \ {Taken(s)}) \in Nat
  BY <1>2, <1>3, FS_CardinalityType
<1> QED BY <1>1, <1>3, <1>4

\* A property of the empty set that the next set hands on holds of all.
LEMMA NoneIsBad ==
    ASSUME NEW D, IsFiniteSet(D), NEW Bad \in SUBSET SUBSET D,
           \A s \in Bad : s # {} /\ s \ {Taken(s)} \in Bad
    PROVE  Bad = {}
<1> SUFFICES ASSUME Bad # {} PROVE FALSE
  OBVIOUS
<1> DEFINE sizes == {Cardinality(s) : s \in Bad}
<1>1. \A s \in Bad : s \in SUBSET D /\ Cardinality(s) \in Nat
  BY Smaller
<1>2. sizes \in SUBSET Nat /\ sizes # {}
  BY <1>1
<1>3. PICK n \in sizes : \A m \in sizes : n <= m
  <2> HIDE DEF sizes
  <2> QED BY <1>2, LeastOf
<1>4. PICK s \in Bad : Cardinality(s) = n
  OBVIOUS
<1>5. s \ {Taken(s)} \in Bad /\ Cardinality(s \ {Taken(s)}) = Cardinality(s) - 1
  BY <1>1, Smaller
<1>6. n <= Cardinality(s) - 1 /\ Cardinality(s) \in Nat
  BY <1>1, <1>3, <1>5
<1> QED BY <1>4, <1>6

\* There is a function that satisfies the equation.
LEMMA SumsExist ==
    ASSUME NEW D, IsFiniteSet(D), NEW f
    PROVE  \E g : Sums(f, SUBSET D, g)
<1> DEFINE failing == {n \in Nat : ~\E g : Sums(f, UpTo(D, n), g)}
<1>1. failing = {}
  <2> SUFFICES ASSUME failing # {} PROVE FALSE
    OBVIOUS
  <2>1. PICK n \in failing : \A m \in failing : n <= m
    <3>1. failing \in SUBSET Nat
      OBVIOUS
    <3> HIDE DEF failing
    <3> QED BY <3>1, LeastOf
  <2>2. n \in Nat /\ ~\E g : Sums(f, UpTo(D, n), g)
    OBVIOUS
  <2>3. CASE n = 0
    <3> DEFINE g == [s \in UpTo(D, 0) |-> 0]
    <3>1. \A s \in UpTo(D, 0) : s = {}
      <4> SUFFICES ASSUME NEW s \in UpTo(D, 0), s # {} PROVE FALSE
        OBVIOUS
      <4>1. Cardinality(s) <= 0 /\ s \in SUBSET D
        BY DEF UpTo
      <4>2. Cardinality(s) \in Nat /\ Cardinality(s) - 1 \in Nat
        <5>1. /\ Cardinality(s) \in Nat /\ Cardinality(s \ {Taken(s)}) \in Nat
              /\ Cardinality(s \ {Taken(s)}) = Cardinality(s) - 1
          BY <4>1, Smaller
        <5> QED BY <5>1
      <4> QED BY <4>1, <4>2
    <3>2. Sums(f, UpTo(D, 0), g)
      BY <3>1 DEF Sums
    <3> QED BY <2>2, <2>3, <3>2
  <2>4. CASE n # 0
    <3>1. n - 1 \in Nat /\ n - 1 \notin failing
      BY <2>1, <2>2, <2>4
    <3>2. PICK g : Sums(f, UpTo(D, n - 1), g)
      BY <3>1
    <3> DEFINE h == [s \in UpTo(D, n) |-> IF s = {} THEN 0 ELSE f[Taken(s)] + g[s \ {Taken(s)}]]
    <3>3. ASSUME NEW s \in UpTo(D, n), s # {}
          PROVE  h[s \ {Taken(s)}] = g[s \ {Taken(s)}]
      <4> DEFINE t == s \ {Taken(s)}
      <4>1. s \in SUBSET D /\ Cardinality(s) <= n
        BY DEF UpTo
      <4>2. t \in SUBSET D /\ Cardinality(t) <= n - 1 /\ Cardinality(t) <= n
        BY <2>2, <3>3, <4>1, Smaller
      <4>3. t \in UpTo(D, n) /\ t \in UpTo(D, n - 1)
        BY <4>2 DEF UpTo
      <4> HIDE DEF t
      <4>4. h[t] = IF t = {} THEN 0 ELSE f[Taken(t)] + g[t \ {Taken(t)}]
        BY <4>3
      <4>5. g[t] = IF t = {} THEN 0 ELSE f[Taken(t)] + g[t \ {Taken(t)}]
        <5> HIDE DEF h
        <5>1. g = [s2 \in UpTo(D, n - 1) |->
                     IF s2 = {} THEN 0 ELSE f[Taken(s2)] + g[s2 \ {Taken(s2)}]]
          BY <3>2 DEF Sums
        <5> QED BY <4>3, <5>1, Zenon
      <4> QED BY <4>4, <4>5 DEF t
    <3>4. Sums(f, UpTo(D, n), h)
      <4>1. [s \in UpTo(D, n) |-> IF s = {} THEN 0 ELSE f[Taken(s)] + g[s \ {Taken(s)}]]
             = [s \in UpTo(D, n) |-> IF s = {} THEN 0 ELSE f[Taken(s)] + h[s \ {Taken(s)}]]
        <5> HIDE DEF h
        <5> QED BY <3>3
      <4> QED BY <4>1 DEF Sums
    <3> HIDE DEF h
    <3> QED BY <2>2, <3>4
  <2> QED BY <2>3, <2>4
<1>2. Cardinality(D) \in Nat
  BY FS_CardinalityType
<1>3. UpTo(D, Cardinality(D)) = SUBSET D
  <2>1. \A s \in SUBSET D : Cardinality(s) <= Cardinality(D)
    BY FS_Subset
  <2> QED BY <2>1 DEF UpTo
<1>4. \E g : Sums(f, UpTo(D, Cardinality(D)), g)
  BY <1>1, <1>2
<1> QED BY <1>3, <1>4

\* SumFunction in terms of that function.
LEMMA SumIs ==
    ASSUME NEW D, IsFiniteSet(D), NEW f, DOMAIN f = D
    PROVE  \E g : Sums(f, SUBSET D, g) /\ SumFunction(f) = g[D]
<1> DEFINE g == CHOOSE g : Sums(f, SUBSET D, g)
<1>1. Sums(f, SUBSET D, g)
  BY SumsExist, Zenon
<1>2. SumFunction(f) = g[D]
  BY Zenon DEF SumFunction, SumFunctionOnSet, FoldFunctionOnSet, MapThenFoldSet, Sums, Taken
<1> HIDE DEF g
<1> QED BY <1>1, <1>2

\* The equation, and the type of the partial sums.
LEMMA SumsSteps ==
    ASSUME NEW D, IsFiniteSet(D), NEW f \in [D -> Nat], NEW g, Sums(f, SUBSET D, g)
    PROVE  /\ \A s \in SUBSET D : s # {} => g[s] = f[Taken(s)] + g[s \ {Taken(s)}]
           /\ g[{}] = 0
           /\ \A s \in SUBSET D : g[s] \in Nat
<1>1. \A s \in SUBSET D : g[s] = IF s = {} THEN 0 ELSE f[Taken(s)] + g[s \ {Taken(s)}]
  <2>1. g = [s \in SUBSET D |-> IF s = {} THEN 0 ELSE f[Taken(s)] + g[s \ {Taken(s)}]]
    BY DEF Sums
  <2> QED BY <2>1, Zenon
<1>2. g[{}] = 0
  BY <1>1
<1> DEFINE bad == {s \in SUBSET D : g[s] \notin Nat}
<1>3. ASSUME NEW s \in bad PROVE s # {} /\ s \ {Taken(s)} \in bad
  <2>1. s # {}
    BY <1>2
  <2>2. Taken(s) \in s /\ s \ {Taken(s)} \in SUBSET D
    BY <2>1, Smaller
  <2>3. f[Taken(s)] \in Nat
    BY <2>2
  <2>4. g[s] = f[Taken(s)] + g[s \ {Taken(s)}]
    BY <1>1, <2>1
  <2> QED BY <2>1, <2>2, <2>3, <2>4
<1>4. bad = {}
  <2>1. bad \in SUBSET SUBSET D
    OBVIOUS
  <2> HIDE DEF bad
  <2> QED BY <1>3, <2>1, NoneIsBad
<1> QED BY <1>1, <1>2, <1>4

LEMMA SumsStep ==
    ASSUME NEW D, NEW f, NEW g, Sums(f, SUBSET D, g)
    PROVE  \A s \in SUBSET D : s # {} => g[s] = f[Taken(s)] + g[s \ {Taken(s)}]
<1>1. g = [s \in SUBSET D |-> IF s = {} THEN 0 ELSE f[Taken(s)] + g[s \ {Taken(s)}]]
  BY DEF Sums
<1>2. \A s \in SUBSET D : g[s] = IF s = {} THEN 0 ELSE f[Taken(s)] + g[s \ {Taken(s)}]
  BY <1>1, Zenon
<1> QED BY <1>2, Zenon

LEMMA SumOfZero ==
    ASSUME NEW D, IsFiniteSet(D), NEW f \in [D -> Nat], \A k \in D : f[k] = 0
    PROVE  SumFunction(f) = 0
<1>1. PICK g : Sums(f, SUBSET D, g) /\ SumFunction(f) = g[D]
  BY SumIs
<1>2. /\ \A s \in SUBSET D : s # {} => g[s] = f[Taken(s)] + g[s \ {Taken(s)}]
      /\ g[{}] = 0
      /\ \A s \in SUBSET D : g[s] \in Nat
  BY <1>1, SumsSteps
<1> DEFINE bad == {s \in SUBSET D : g[s] # 0}
<1>3. ASSUME NEW s \in bad PROVE s # {} /\ s \ {Taken(s)} \in bad
  <2>1. s # {}
    BY <1>2
  <2>2. Taken(s) \in s /\ s \ {Taken(s)} \in SUBSET D
    BY <2>1, Smaller
  <2> QED BY <1>2, <2>1, <2>2
<1>4. bad = {}
  <2>1. bad \in SUBSET SUBSET D
    OBVIOUS
  <2> HIDE DEF bad
  <2> QED BY <1>3, <2>1, NoneIsBad
<1> QED BY <1>1, <1>4

\* The sum of a sum is the sum of the sums.
LEMMA SumAdds ==
    ASSUME NEW D, IsFiniteSet(D), NEW a \in [D -> Nat], NEW b \in [D -> Nat],
           NEW c \in [D -> Nat], \A k \in D : c[k] = a[k] + b[k]
    PROVE  SumFunction(c) = SumFunction(a) + SumFunction(b)
<1>1. PICK ga : Sums(a, SUBSET D, ga) /\ SumFunction(a) = ga[D]
  BY SumIs
<1>2. PICK gb : Sums(b, SUBSET D, gb) /\ SumFunction(b) = gb[D]
  BY SumIs
<1>3. PICK gc : Sums(c, SUBSET D, gc) /\ SumFunction(c) = gc[D]
  BY SumIs
<1>4. \A s \in SUBSET D : s # {} => ga[s] = a[Taken(s)] + ga[s \ {Taken(s)}]
  BY <1>1, SumsStep
<1>5. \A s \in SUBSET D : s # {} => gb[s] = b[Taken(s)] + gb[s \ {Taken(s)}]
  BY <1>2, SumsStep
<1>6. \A s \in SUBSET D : s # {} => gc[s] = c[Taken(s)] + gc[s \ {Taken(s)}]
  BY <1>3, SumsStep
<1>7. /\ ga[{}] = 0 /\ gb[{}] = 0 /\ gc[{}] = 0
      /\ \A s \in SUBSET D : ga[s] \in Nat /\ gb[s] \in Nat /\ gc[s] \in Nat
  BY <1>1, <1>2, <1>3, SumsSteps
<1> DEFINE bad == {s \in SUBSET D : gc[s] # ga[s] + gb[s]}
<1>8. ASSUME NEW s \in bad PROVE s # {} /\ s \ {Taken(s)} \in bad
  <2> DEFINE x == Taken(s)
             t == s \ {x}
  <2>1. s # {}
    <3> SUFFICES ASSUME s = {} PROVE FALSE
      OBVIOUS
    <3>1. gc[{}] # ga[{}] + gb[{}]
      OBVIOUS
    <3> QED BY ONLY <1>7, <3>1
  <2>2. x \in D /\ t \in SUBSET D
    BY <2>1, Smaller
  <2>3. ga[s] = a[x] + ga[t] /\ gb[s] = b[x] + gb[t] /\ gc[s] = c[x] + gc[t]
    BY <1>4, <1>5, <1>6, <2>1
  <2>4. s \in SUBSET D /\ gc[s] # ga[s] + gb[s]
    OBVIOUS
  <2> HIDE DEF x, t
  <2>5. /\ a[x] \in Nat /\ b[x] \in Nat /\ c[x] = a[x] + b[x]
        /\ ga[t] \in Nat /\ gb[t] \in Nat /\ gc[t] \in Nat
    BY <1>7, <2>2
  <2>6. gc[t] # ga[t] + gb[t]
    BY <2>3, <2>4, <2>5
  <2> QED BY <2>1, <2>2, <2>6 DEF x, t
<1>9. bad = {}
  <2>1. bad \in SUBSET SUBSET D
    OBVIOUS
  <2> HIDE DEF bad
  <2> QED BY <1>8, <2>1, NoneIsBad
<1> QED BY <1>1, <1>2, <1>3, <1>9
------------------------------------------------------------------------------
(* The ledger.  A day's total is the sum over the ids of the day's bytes in *)
(* every copy of the statistics, whoever holds it: what a collection adds   *)
(* to the one it adds to the others, id by id.                              *)

Balanced(s) ==
    /\ DOMAIN s = DOMAIN Fresh
    /\ s.last \in [Ids -> Nat \cup {Unseen}]
    /\ s.day \in [Ids -> Nat] /\ s.total \in [Ids -> Nat]
    /\ s.dayTotal = SumFunction(s.day)
    /\ \A k \in Ids : s.day[k] <= s.total[k]

LInv ==
    /\ DOMAIN mem = Procs /\ DOMAIN snap = Procs
    /\ counter \in [Ids -> Nat]
    /\ Balanced(stats)
    /\ \A p \in Procs : Balanced(mem[p]) /\ snap[p].bytes \in [Ids -> Nat]

LEMMA IdsFinite == IsFiniteSet(Ids)
BY TrafficQuotaAssumption, FS_Interval DEF Ids

LEMMA SumOfNone == Zero \in [Ids -> Nat] /\ SumFunction(Zero) = 0
<1>1. Zero \in [Ids -> Nat] /\ \A k \in Ids : Zero[k] = 0
  BY DEF Zero
<1> QED BY <1>1, IdsFinite, SumOfZero

LEMMA FreshBalanced == Balanced(Fresh)
BY SumOfNone DEF Balanced, Fresh, Zero

\* A rollover empties the day, and leaves nothing in its total.
LEMMA RolledBalanced ==
    ASSUME NEW s, Balanced(s), NEW day
    PROVE  Balanced(Rolled(s, day))
<1>1. CASE s.lastDay = day
  BY <1>1 DEF Rolled
<1>2. CASE s.lastDay # day
  <2>1. Rolled(s, day) = [s EXCEPT !.day = Zero, !.dayTotal = 0, !.lastDay = day]
    BY <1>2 DEF Rolled
  <2> DEFINE r == Rolled(s, day)
  <2>2. /\ DOMAIN r = DOMAIN Fresh /\ r.last = s.last /\ r.total = s.total
        /\ r.day = Zero /\ r.dayTotal = 0
    BY <2>1 DEF Balanced, Fresh
  <2>3. \A k \in Ids : Zero[k] <= s.total[k]
    BY DEF Balanced, Zero
  <2> HIDE DEF r
  <2>4. Balanced(r)
    BY <2>2, <2>3, SumOfNone DEF Balanced
  <2> QED BY <2>4 DEF r
<1> QED BY <1>1, <1>2

\* What a collection writes is balanced again.
LEMMA FoldBalanced ==
    ASSUME NEW s, NEW n, Balanced(s), n.bytes \in [Ids -> Nat]
    PROVE  Balanced(Fold(s, n))
<1> DEFINE d == [k \in Ids |-> IF k \in n.ids THEN Delta(s.last[k], n.bytes[k]) ELSE 0]
           r == Rolled(s, n.day)
           t == Fold(s, n)
<1>1. /\ DOMAIN t = DOMAIN Fresh
      /\ t.last = [k \in Ids |-> IF k \in n.ids THEN n.bytes[k] ELSE s.last[k]]
      /\ t.day = [k \in Ids |-> r.day[k] + d[k]]
      /\ t.total = [k \in Ids |-> r.total[k] + d[k]]
      /\ t.dayTotal = r.dayTotal + SumFunction(d)
  BY DEF Fold, Fresh
<1>2. d \in [Ids -> Nat]
  <2>1. \A k \in Ids : Delta(s.last[k], n.bytes[k]) \in Nat
    BY DEF Delta, Balanced
  <2> QED BY <2>1
<1>3. Balanced(r)
  BY RolledBalanced
<1> HIDE DEF t, r, d
<1>4. t.last \in [Ids -> Nat \cup {Unseen}]
  BY <1>1 DEF Balanced
<1>5. /\ t.day \in [Ids -> Nat] /\ \A k \in Ids : t.day[k] = r.day[k] + d[k]
      /\ t.total \in [Ids -> Nat] /\ \A k \in Ids : t.total[k] = r.total[k] + d[k]
  BY <1>1, <1>2, <1>3 DEF Balanced
<1>6. SumFunction(t.day) = SumFunction(r.day) + SumFunction(d)
  BY <1>2, <1>3, <1>5, IdsFinite, SumAdds DEF Balanced
<1>7. t.dayTotal = SumFunction(t.day)
  BY <1>1, <1>3, <1>6 DEF Balanced
<1>8. \A k \in Ids : t.day[k] <= t.total[k]
  BY <1>2, <1>3, <1>5 DEF Balanced
<1> QED BY <1>1, <1>4, <1>5, <1>7, <1>8 DEF Balanced, t

\* A reset by hand empties the day as a rollover does.
LEMMA ResetBalanced ==
    ASSUME NEW s, Balanced(s)
    PROVE  Balanced([s EXCEPT !.day = Zero, !.dayTotal = 0])
<1> DEFINE r == [s EXCEPT !.day = Zero, !.dayTotal = 0]
<1>1. /\ DOMAIN r = DOMAIN Fresh /\ r.last = s.last /\ r.total = s.total
      /\ r.day = Zero /\ r.dayTotal = 0
  BY DEF Balanced, Fresh
<1>2. \A k \in Ids : Zero[k] <= s.total[k]
  BY DEF Balanced, Zero
<1> HIDE DEF r
<1>3. Balanced(r)
  BY <1>1, <1>2, SumOfNone DEF Balanced
<1> QED BY <1>3 DEF r

LEMMA InitLInv == Init => LInv
BY FreshBalanced, SumOfNone DEF Init, LInv, NoSnap

\* A step that only puts balanced statistics in the place of others.
LEMMA StillBalanced ==
    ASSUME LInv, NEW p \in Procs, NEW s, Balanced(s),
           counter' \in {counter, Zero},
           stats' \in {stats, Fresh, s},
           mem' \in {mem, [mem EXCEPT ![p] = Fresh], [mem EXCEPT ![p] = s]},
           snap' \in {snap, [snap EXCEPT ![p] = NoSnap]}
    PROVE  LInv'
<1>1. Balanced(stats')
  BY FreshBalanced DEF LInv
<1>2. DOMAIN mem' = Procs /\ \A q \in Procs : Balanced(mem'[q])
  BY FreshBalanced DEF LInv
<1>3. DOMAIN snap' = Procs /\ \A q \in Procs : snap'[q].bytes \in [Ids -> Nat]
  BY SumOfNone DEF LInv, NoSnap
<1>4. counter' \in [Ids -> Nat]
  BY SumOfNone DEF LInv
<1> QED BY <1>1, <1>2, <1>3, <1>4 DEF LInv, Balanced

\* The same for a step that touches none of them.
LEMMA Untouched ==
    ASSUME LInv, UNCHANGED <<stats, mem, snap>>, counter' \in {counter, Zero}
    PROVE  LInv'
BY StillBalanced, FreshBalanced DEF Procs

LEMMA CollectLInv ==
    ASSUME LInv, NEW p \in Procs, Collect(p)
    PROVE  LInv'
<1>1. CASE List(p)
  <2>1. /\ UNCHANGED <<stats, mem, counter>>
        /\ snap' \in {snap, [snap EXCEPT ![p] = [ids |-> 1 .. Cardinality(live),
                                                 bytes |-> counter, day |-> today]]}
    BY <1>1 DEF List, file, nft
  <2>2. DOMAIN snap' = Procs /\ \A q \in Procs : snap'[q].bytes \in [Ids -> Nat]
    BY <2>1 DEF LInv
  <2> QED BY <2>1, <2>2 DEF LInv, Balanced
<1>2. CASE Load(p)
  <2>1. PICK s \in Readable(p) : mem' = [mem EXCEPT ![p] = s]
    BY <1>2 DEF Load
  <2>2. Balanced(s)
    BY FreshBalanced DEF Readable, LInv
  <2>3. UNCHANGED <<stats, snap, counter>>
    BY <1>2 DEF Load, file, nft
  <2> QED BY <2>1, <2>2, <2>3, StillBalanced
<1>3. CASE Save(p)
  <2> DEFINE s == Fold(mem[p], snap[p])
  <2>1. Balanced(s)
    BY FoldBalanced DEF LInv
  <2>2. /\ counter' = counter /\ snap' = [snap EXCEPT ![p] = NoSnap]
        /\ stats' \in {stats, Fresh, s}
        /\ mem' \in {mem, [mem EXCEPT ![p] = Fresh], [mem EXCEPT ![p] = s]}
    BY <1>3, Zenon DEF Save, StatsLost, nft
  <2> HIDE DEF s
  <2> QED BY <2>1, <2>2, StillBalanced
<1> QED BY <1>1, <1>2, <1>3 DEF Collect

LEMMA ServiceLInv ==
    ASSUME LInv, ServiceStep
    PROVE  LInv'
<1>1. CASE Collect(Service)
  BY <1>1, CollectLInv DEF Procs
<1>2. CASE Report
  <2>1. /\ UNCHANGED <<snap, counter>> /\ stats' \in {stats, Fresh, mem[Service]}
        /\ mem' = [mem EXCEPT ![Service] = Fresh]
    BY <1>2 DEF Report, StatsLost, nft
  <2>2. Service \in Procs /\ Balanced(mem[Service])
    BY DEF LInv, Procs
  <2> QED BY <2>1, <2>2, StillBalanced
<1>3. CASE SkipCollect \/ SkipQuota \/ ReadConfig \/ SkipRefresh \/ Refresh
  BY <1>3, Untouched DEF SkipCollect, SkipQuota, ReadConfig, SkipRefresh, Refresh, file, nft
<1>4. CASE Decide \/ WriteConfig \/ Notify \/ Mark
  BY <1>4, Untouched DEF Decide, WriteConfig, Notify, Mark, file, nft
<1>5. CASE Apply
  <2>1. UNCHANGED <<stats, mem, snap>> /\ counter' \in {Zero}
    BY <1>5 DEF Apply, ExecStop, file
  <2> QED BY <2>1, Untouched
<1> QED BY <1>1, <1>2, <1>3, <1>4, <1>5 DEF ServiceStep

LEMMA MenuLInv ==
    ASSUME LInv, MenuStep
    PROVE  LInv'
<1>0. Menu \in Procs
  BY DEF Procs
<1>1. CASE Collect(Menu)
  BY <1>0, <1>1, CollectLInv
<1>2. CASE ShowStats \/ OpenToggle \/ Cancel \/ StoreToggle
  BY <1>2, Untouched DEF ShowStats, OpenToggle, Cancel, StoreToggle, file, nft
<1>3. CASE \E i \in Rules : ChooseEnable(i) \/ ChooseDisable(i)
  BY <1>3, Untouched DEF ChooseEnable, ChooseDisable, file, nft
<1>4. CASE BeginReset
  <2>1. PICK s \in Readable(Menu) : mem' = [mem EXCEPT ![Menu] = s]
    BY <1>4 DEF BeginReset
  <2>2. Balanced(s)
    BY FreshBalanced DEF Readable, LInv
  <2>3. UNCHANGED <<stats, snap, counter>>
    BY <1>4 DEF BeginReset, file, nft
  <2> QED BY <1>0, <2>1, <2>2, <2>3, StillBalanced
<1>5. CASE ResetDaily
  <2> DEFINE s == [mem[Menu] EXCEPT !.day = Zero, !.dayTotal = 0]
  <2>1. Balanced(s)
    BY <1>0, ResetBalanced DEF LInv
  <2>2. /\ UNCHANGED <<snap, counter>> /\ stats' \in {stats, Fresh, s}
        /\ mem' = [mem EXCEPT ![Menu] = Fresh]
    BY <1>5 DEF ResetDaily, StatsLost, nft
  <2> HIDE DEF s
  <2> QED BY <1>0, <2>1, <2>2, StillBalanced
<1> QED BY <1>1, <1>2, <1>3, <1>4, <1>5 DEF MenuStep

LEMMA NextLInv == LInv /\ [Next]_vars => LInv'
<1> SUFFICES ASSUME LInv, [Next]_vars PROVE LInv'
  OBVIOUS
<1>1. ASSUME NEW i \in Rules, Traffic(i) PROVE LInv'
  <2>1. UNCHANGED <<stats, mem, snap>> /\ counter' = [counter EXCEPT ![IdIn(live, i)] = @ + 1]
    BY <1>1 DEF Traffic, file
  <2>2. ASSUME NEW x PROVE [counter EXCEPT ![x] = counter[x] + 1] \in [Ids -> Nat]
    <3>1. CASE x \in Ids
      BY <3>1 DEF LInv
    <3>2. CASE x \notin Ids
      BY <3>2 DEF LInv
    <3> QED BY <3>1, <3>2
  <2>3. counter' \in [Ids -> Nat]
    BY <2>1, <2>2, Zenon
  <2> QED BY <2>1, <2>3 DEF LInv, Balanced
<1>2. CASE Midnight \/ UNCHANGED vars
  BY <1>2, Untouched DEF Midnight, vars, file, nft
<1>3. CASE Kill
  <2>1. /\ stats' \in {stats, Fresh} /\ counter' = Zero
        /\ snap' = [snap EXCEPT ![Service] = NoSnap] /\ mem' = [mem EXCEPT ![Service] = Fresh]
    BY <1>3 DEF Kill, ExecStop
  <2> QED BY <2>1, StillBalanced, FreshBalanced DEF Procs
<1> QED BY <1>1, <1>2, <1>3, ServiceLInv, MenuLInv DEF Next

\* stats.json is a consistent ledger, whoever saved it last and from however
\* old a copy: the day's total is the sum of the ids', and no id's day is more
\* than its total.
THEOREM LedgerAlwaysBalances == Spec => []Ledger
<1>1. LInv => Ledger
  BY DEF LInv, Balanced, Ledger
<1> QED BY <1>1, InitLInv, NextLInv, PTL DEF Spec
=============================================================================
