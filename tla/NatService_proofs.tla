--------------------------- MODULE NatService_proofs ---------------------------
(***************************************************************************)
(* Proofs about NatService, for any processes beside the service, rules,   *)
(* addresses, allow-lists, faults and bounds.                              *)
(***************************************************************************)
EXTENDS NatService, TLAPS

LEMMA ServiceIsProc == Service \in Procs
BY NatServiceAssumption

(* The rendered script says one target, or none, for every rule.           *)
LEMMA RenderedType ==
    ASSUME TypeOK, NEW p \in Procs
    PROVE  Rendered(p) \in Targets
BY NatServiceAssumption DEF TypeOK, Targets, Rendered, Resolved

LEMMA PrunedType ==
    ASSUME NEW state \in Targets, NEW rules \in SUBSET Rules
    PROVE  Pruned(state, rules) \in Targets
BY NatServiceAssumption DEF Targets, Pruned

LEMMA UpdatedType ==
    ASSUME TypeOK, NEW p \in Procs
    PROVE  Updated(p) \in Targets
BY DEF TypeOK, Targets, Updated

LEMMA EndRoundType ==
    ASSUME TypeOK, NEW p \in Procs, NEW step \in Steps, EndRound(p, step)
    PROVE  /\ pc' \in [Procs -> Steps] /\ allowed' \in [Procs -> SUBSET Addrs]
           /\ cells' \in [Procs -> SUBSET Rules] /\ cache' \in [Procs -> Targets]
           /\ live' \in [Procs -> Targets] /\ script' \in [Procs -> Targets]
<1>1. Nothing \in Targets
  BY DEF Nothing, Targets
<1>2. "off" \in Steps
  BY DEF Steps
<1>3. pc' \in [Procs -> Steps]
  BY <1>2 DEF TypeOK, EndRound, Goto
<1> QED
  BY <1>1, <1>3 DEF TypeOK, EndRound

LEMMA FaultType ==
    ASSUME TypeOK, NEW f, Fault(f)
    PROVE  faults' \in 0..MaxFaults
BY NatServiceAssumption DEF TypeOK, Fault

-----------------------------------------------------------------------------
(* Type correctness.                                                       *)

LEMMA InitTyped == Init => TypeOK
<1>1. Nothing \in Targets
  BY DEF Nothing, Targets
<1> SUFFICES ASSUME Init PROVE TypeOK
  OBVIOUS
<1>2. pc \in [Procs -> Steps]
  BY DEF Init, Steps
<1>3. /\ allowed \in [Procs -> SUBSET Addrs] /\ cells \in [Procs -> SUBSET Rules]
      /\ cache \in [Procs -> Targets] /\ live \in [Procs -> Targets]
      /\ script \in [Procs -> Targets]
  BY <1>1 DEF Init
<1>4. changes \in 0..MaxChanges /\ faults \in 0..MaxFaults
  BY NatServiceAssumption DEF Init
<1> QED
  BY <1>1, <1>2, <1>3, <1>4 DEF Init, TypeOK

LEMMA NextTyped == TypeOK /\ [Next]_vars => TypeOK'
<1> SUFFICES ASSUME TypeOK, [Next]_vars PROVE TypeOK'
  OBVIOUS
<1> USE ServiceIsProc
<1>a. "load" \in Steps /\ "stop" \in Steps /\ "off" \in Steps
  BY DEF Steps
<1>1. ASSUME NEW p \in Procs, LoadRuntime(p) PROVE TypeOK'
  <2>1. file # Invalid => file.allowed \in SUBSET Addrs
    BY NatServiceAssumption DEF TypeOK, Configs
  <2> QED
    BY <1>1, <2>1 DEF LoadRuntime, Goto, TypeOK, Steps
<1>2. ASSUME NEW p \in Procs, ParseConf(p) PROVE TypeOK'
  <2>1. CASE file = Invalid /\ EndRound(p, "load")
    BY <1>2, <2>1, <1>a, EndRoundType DEF ParseConf, TypeOK
  <2>2. CASE file # Invalid
    <3>1. file.rules \in SUBSET Rules
      BY <2>2 DEF TypeOK, Configs
    <3>2. Pruned(lastGood, file.rules) \in Targets
      BY <3>1, PrunedType DEF TypeOK
    <3>3. faults' \in 0..MaxFaults /\ lastGood' \in Targets
      BY <1>2, <2>2, <3>2, FaultType DEF ParseConf, Saved, TypeOK
    <3> QED
      BY <1>2, <2>2, <3>1, <3>2, <3>3 DEF ParseConf, Goto, TypeOK, Steps
  <2> QED
    BY <1>2, <2>1, <2>2 DEF ParseConf
<1>3. ASSUME NEW p \in Procs, Build(p) PROVE TypeOK'
  <2>1. Rendered(p) \in Targets /\ Pruned(dns, cells[p]) \in Targets
    BY RenderedType, PrunedType DEF TypeOK
  <2> QED
    BY <1>3, <2>1 DEF Build, Goto, TypeOK, Steps
<1>4. ASSUME NEW p \in Procs, Compare(p) PROVE TypeOK'
  <2>1. CASE Fault("prepare") /\ EndRound(p, "stop")
    BY <1>4, <2>1, <1>a, EndRoundType, FaultType DEF Compare, PrepareFails, TypeOK
  <2>2. CASE EndRound(p, "load") /\ UNCHANGED <<hash, faults>>
    BY <1>4, <2>2, <1>a, EndRoundType DEF Compare, PrepareFails, TypeOK
  <2>3. CASE Goto(p, "apply") /\ UNCHANGED <<hash, locals, faults>>
    BY <1>4, <2>3 DEF Compare, PrepareFails, Goto, locals, TypeOK, Steps
  <2> QED
    BY <1>4, <2>1, <2>2, <2>3 DEF Compare, PrepareFails
<1>5. ASSUME NEW p \in Procs, ApplyScript(p) PROVE TypeOK'
  <2>1. CASE kernel' = script[p] /\ UNCHANGED <<hash, locals, faults>> /\ diy' = script[p]
             /\ Goto(p, "record") /\ foreign' = (p # Service) /\ steady' = {}
    BY <1>5, <2>1 DEF ApplyScript, Goto, locals, TypeOK, Steps
  <2>2. CASE Fault("create") /\ kernel' = diy /\ Goto(p, "record") /\ foreign' = TRUE
             /\ steady' = {} /\ UNCHANGED <<diy, hash, locals>>
    BY <1>5, <2>2, FaultType DEF ApplyScript, Goto, locals, TypeOK, Steps
  <2>3. CASE Fault("apply") /\ diy' = script[p] /\ EndRound(p, "stop")
             /\ hash' = (IF p = Service THEN None ELSE hash)
             /\ UNCHANGED <<kernel, foreign, steady>>
    BY <1>5, <2>3, <1>a, EndRoundType, FaultType DEF ApplyScript, TypeOK
  <2> QED
    BY <1>5, <2>1, <2>2, <2>3 DEF ApplyScript
<1>6. ASSUME NEW p \in Procs, Record(p) PROVE TypeOK'
  <2>1. faults' \in 0..MaxFaults /\ lastGood' \in Targets
    BY <1>6, UpdatedType, FaultType DEF Record, Saved, TypeOK
  <2>2. steady' \in SUBSET Rules
    BY <1>6 DEF Record, TypeOK, Configs
  <2>3. hash' \in Targets \cup {None}
    BY <1>6 DEF Record, TypeOK
  <2> QED
    BY <1>6, <2>1, <2>2, <2>3, <1>a, EndRoundType DEF Record, TypeOK
<1>7. ASSUME NEW p \in Procs, StartRefresh(p) PROVE TypeOK'
  BY <1>7 DEF StartRefresh, Goto, locals, TypeOK, Steps
<1>8. CASE Kill
  BY <1>8, <1>a, EndRoundType, FaultType DEF Kill, TypeOK
<1>9. CASE ExecStop
  BY <1>9 DEF ExecStop, Goto, locals, TypeOK, Steps
<1>10. CASE Restart
  BY <1>10, FaultType DEF Restart, Goto, locals, TypeOK, Steps
<1>11. CASE EditConfig
  <2>1. changes' \in 0..MaxChanges
    BY <1>11, NatServiceAssumption DEF EditConfig, Change, TypeOK
  <2>2. file' \in Configs \cup {Invalid}
    BY <1>11 DEF EditConfig
  <2>3. steady' \in SUBSET Rules
    BY <1>11 DEF EditConfig, TypeOK
  <2> QED
    BY <1>11, <2>1, <2>2, <2>3 DEF EditConfig, locals, TypeOK
<1>12. CASE DnsChange
  <2>1. changes' \in 0..MaxChanges
    BY <1>12, NatServiceAssumption DEF DnsChange, Change, TypeOK
  <2>2. dns' \in Targets
    BY <1>12 DEF DnsChange, TypeOK, Targets
  <2> QED
    BY <1>12, <2>1, <2>2 DEF DnsChange, locals, TypeOK
<1>13. CASE UNCHANGED vars
  BY <1>13 DEF vars, locals, TypeOK
<1> QED
  BY <1>1, <1>2, <1>3, <1>4, <1>5, <1>6, <1>7, <1>8, <1>9, <1>10, <1>11, <1>12, <1>13
  DEF Next, Round

(* Type correctness of the service and the manual refresh.                 *)
THEOREM TypeCorrect == Spec => []TypeOK
<1> QED
  BY InitTyped, NextTyped, PTL DEF Spec
-----------------------------------------------------------------------------
(* The hash in memory and the kernel.  The invariant is not inductive by   *)
(* itself: between the apply and Record the script of the round stands for *)
(* the hash, and a service that is not running remembers nothing.          *)

HashInv ==
    /\ HashMatchesKernel
    /\ pc[Service] = "record" /\ ~foreign => kernel = script[Service]
    /\ pc[Service] \in {"off", "stop"} => hash = None

\* A step of another process that neither loads the kernel nor touches the hash.
LEMMA OtherKeepsHash ==
    ASSUME TypeOK, HashInv, NEW p \in Procs, p # Service,
           UNCHANGED <<kernel, hash, foreign>>,
           pc'[Service] = pc[Service], script'[Service] = script[Service]
    PROVE  HashInv'
BY DEF HashInv, HashMatchesKernel

LEMMA EndRoundOfOther ==
    ASSUME TypeOK, NEW p \in Procs, p # Service, NEW step, EndRound(p, step)
    PROVE  pc'[Service] = pc[Service] /\ script'[Service] = script[Service]
BY ServiceIsProc DEF TypeOK, EndRound, Goto

LEMMA EndRoundOfService ==
    ASSUME TypeOK, NEW step, EndRound(Service, step)
    PROVE  pc'[Service] = step
BY ServiceIsProc DEF TypeOK, EndRound, Goto

\* The service moves within its round.
LEMMA GotoWithin ==
    ASSUME TypeOK, HashInv, NEW step \in Steps \ {"off", "stop", "record"},
           pc[Service] # "record", pc'[Service] = step,
           UNCHANGED <<kernel, hash, foreign>>
    PROVE  HashInv'
BY DEF HashInv, HashMatchesKernel

LEMMA HashStep == TypeOK /\ HashInv /\ [Next]_vars => HashInv'
<1> SUFFICES ASSUME TypeOK, HashInv, [Next]_vars PROVE HashInv'
  OBVIOUS
<1> USE ServiceIsProc
<1>a. {"load", "parse", "build", "compare", "apply"} \subseteq Steps \ {"off", "stop", "record"}
  BY DEF Steps
<1>1. ASSUME NEW p \in Procs, LoadRuntime(p) PROVE HashInv'
  <2>1. CASE p = Service
    BY <1>1, <2>1, <1>a, GotoWithin DEF LoadRuntime, Goto, TypeOK
  <2>2. CASE p # Service
    BY <1>1, <2>2, OtherKeepsHash DEF LoadRuntime, Goto, TypeOK
  <2> QED
    BY <2>1, <2>2
<1>2. ASSUME NEW p \in Procs, ParseConf(p) PROVE HashInv'
  <2>0. pc[p] = "parse" /\ UNCHANGED <<kernel, hash, foreign>>
    BY <1>2 DEF ParseConf
  <2>1. CASE EndRound(p, "load")
    BY <2>0, <2>1, <1>a, GotoWithin, OtherKeepsHash, EndRoundOfOther, EndRoundOfService
  <2>2. CASE Goto(p, "build") /\ UNCHANGED script
    <3>1. CASE p = Service
      BY <2>0, <2>2, <3>1, <1>a, GotoWithin DEF Goto, TypeOK
    <3>2. CASE p # Service
      BY <2>0, <2>2, <3>2, OtherKeepsHash DEF Goto, TypeOK
    <3> QED
      BY <3>1, <3>2
  <2> QED
    BY <1>2, <2>1, <2>2 DEF ParseConf
<1>3. ASSUME NEW p \in Procs, Build(p) PROVE HashInv'
  <2>1. CASE p = Service
    BY <1>3, <2>1, <1>a, GotoWithin DEF Build, Goto, TypeOK
  <2>2. CASE p # Service
    BY <1>3, <2>2, OtherKeepsHash DEF Build, Goto, TypeOK
  <2> QED
    BY <2>1, <2>2
<1>4. ASSUME NEW p \in Procs, Compare(p) PROVE HashInv'
  <2>0. pc[p] = "compare" /\ UNCHANGED <<kernel, foreign>>
    BY <1>4 DEF Compare, PrepareFails
  <2>1. CASE EndRound(p, "stop") /\ hash' = (IF p = Service THEN None ELSE hash)
    <3>1. CASE p = Service
      BY <2>0, <2>1, <3>1, EndRoundOfService DEF HashInv, HashMatchesKernel
    <3>2. CASE p # Service
      BY <2>0, <2>1, <3>2, EndRoundOfOther, OtherKeepsHash
    <3> QED
      BY <3>1, <3>2
  <2>2. CASE p = Service /\ EndRound(p, "load") /\ UNCHANGED hash
    BY <2>0, <2>2, <1>a, GotoWithin, EndRoundOfService
  <2>3. CASE Goto(p, "apply") /\ UNCHANGED <<hash, locals>>
    <3>1. CASE p = Service
      BY <2>0, <2>3, <3>1, <1>a, GotoWithin DEF Goto, TypeOK
    <3>2. CASE p # Service
      BY <2>0, <2>3, <3>2, OtherKeepsHash DEF Goto, TypeOK, locals
    <3> QED
      BY <3>1, <3>2
  <2> QED
    BY <1>4, <2>1, <2>2, <2>3 DEF Compare, PrepareFails
<1>5. ASSUME NEW p \in Procs, ApplyScript(p) PROVE HashInv'
  <2>0. pc[p] = "apply"
    BY <1>5 DEF ApplyScript
  <2>1. CASE kernel' = script[p] /\ Goto(p, "record") /\ foreign' = (p # Service)
             /\ UNCHANGED <<hash, locals>>
    <3>1. CASE p = Service
      BY <2>0, <2>1, <3>1 DEF Goto, TypeOK, locals, HashInv, HashMatchesKernel
    <3>2. CASE p # Service
      BY <2>0, <2>1, <3>2 DEF Goto, TypeOK, HashInv, HashMatchesKernel
    <3> QED
      BY <3>1, <3>2
  <2>2. CASE foreign' = TRUE /\ p = Service /\ Goto(p, "record") /\ UNCHANGED hash
    BY <2>0, <2>2 DEF Goto, TypeOK, HashInv, HashMatchesKernel
  <2>3. CASE EndRound(p, "stop") /\ hash' = (IF p = Service THEN None ELSE hash)
             /\ UNCHANGED <<kernel, foreign>>
    <3>1. CASE p = Service
      BY <2>0, <2>3, <3>1, EndRoundOfService DEF HashInv, HashMatchesKernel
    <3>2. CASE p # Service
      BY <2>0, <2>3, <3>2, EndRoundOfOther, OtherKeepsHash
    <3> QED
      BY <3>1, <3>2
  <2> QED
    BY <1>5, <2>1, <2>2, <2>3 DEF ApplyScript
<1>6. ASSUME NEW p \in Procs, Record(p) PROVE HashInv'
  <2>0. pc[p] = "record" /\ UNCHANGED <<kernel, foreign>> /\ EndRound(p, "load")
        /\ hash' = (IF p = Service THEN script[p] ELSE hash)
    BY <1>6 DEF Record
  <2>1. CASE p = Service
    BY <2>0, <2>1, EndRoundOfService DEF HashInv, HashMatchesKernel
  <2>2. CASE p # Service
    BY <2>0, <2>2, EndRoundOfOther, OtherKeepsHash
  <2> QED
    BY <2>1, <2>2
<1>7. ASSUME NEW p \in Procs, StartRefresh(p) PROVE HashInv'
  BY <1>7, OtherKeepsHash DEF StartRefresh, Goto, TypeOK, locals
<1>8. CASE Kill
  BY <1>8, EndRoundOfService DEF Kill, HashInv, HashMatchesKernel
<1>9. CASE ExecStop
  BY <1>9 DEF ExecStop, Goto, TypeOK, HashInv, HashMatchesKernel
<1>10. CASE Restart
  BY <1>10 DEF Restart, Goto, TypeOK, HashInv, HashMatchesKernel
<1>11. CASE EditConfig
  BY <1>11 DEF EditConfig, locals, HashInv, HashMatchesKernel
<1>12. CASE DnsChange
  BY <1>12 DEF DnsChange, locals, HashInv, HashMatchesKernel
<1>13. CASE UNCHANGED vars
  BY <1>13 DEF vars, locals, HashInv, HashMatchesKernel
<1> QED
  BY <1>1, <1>2, <1>3, <1>4, <1>5, <1>6, <1>7, <1>8, <1>9, <1>10, <1>11, <1>12, <1>13
  DEF Next, Round

(* The service's hash describes the ruleset in the kernel as long as no    *)
(* other process, and no file it could not replace, was loaded after it    *)
(* (main.rs:328-391): equal hashes mean that there is nothing to apply.    *)
THEOREM HashSafe == Spec => []HashMatchesKernel
<1>1. Init => HashInv
  BY ServiceIsProc DEF Init, HashInv, HashMatchesKernel
<1>2. HashInv => HashMatchesKernel
  BY DEF HashInv
<1> QED
  BY <1>1, <1>2, InitTyped, NextTyped, HashStep, PTL DEF Spec
-----------------------------------------------------------------------------
(* Egress control.  Every text that is loaded or waits to be loaded was    *)
(* rendered under one configured allow-list; the list that a round read    *)
(* is a configured one as long as the file always parses.                  *)

Admitted(s) == \E S \in AllowLists : \A r \in Rules : s[r] # NoAddr => s[r] \in S

PolicyInv ==
    /\ file # Invalid
    /\ \A p \in Procs : pc[p] \in {"parse", "build"} => allowed[p] \in AllowLists
    /\ \A p \in Procs : pc[p] \in {"compare", "apply"} => Admitted(script[p])
    /\ diy # None => Admitted(diy)
    /\ kernel # None => Admitted(kernel)

\* A target that a rule may keep is live or cached, and on the list either way.
LEMMA RenderedAdmitted ==
    ASSUME TypeOK, NEW p \in Procs, allowed[p] \in AllowLists
    PROVE  Admitted(Rendered(p))
<1>1. \A r \in Rules : Rendered(p)[r] # NoAddr => Rendered(p)[r] \in allowed[p]
  BY DEF Rendered
<1> QED
  BY <1>1 DEF Admitted

\* A round ends, or a process moves to a step at which nothing is promised.
LEMMA MovesOn ==
    ASSUME TypeOK, PolicyInv, NEW p \in Procs, NEW step,
           step \in {"load", "stop", "off", "record"},
           pc' = [pc EXCEPT ![p] = step],
           \A q \in Procs \ {p} : allowed'[q] = allowed[q] /\ script'[q] = script[q],
           file' # Invalid,
           diy' # None => Admitted(diy'),
           kernel' # None => Admitted(kernel')
    PROVE  PolicyInv'
<1>1. \A q \in Procs : pc'[q] = IF q = p THEN step ELSE pc[q]
  BY DEF TypeOK
<1> QED
  BY <1>1 DEF PolicyInv, Admitted

LEMMA RoundEnds ==
    ASSUME TypeOK, PolicyInv, NEW p \in Procs, NEW step \in {"load", "stop"},
           EndRound(p, step), file' = file,
           diy' # None => Admitted(diy'),
           kernel' # None => Admitted(kernel')
    PROVE  PolicyInv'
<1>1. \A q \in Procs \ {p} : allowed'[q] = allowed[q] /\ script'[q] = script[q]
  BY DEF EndRound, TypeOK
<1>2. PICK s \in {"load", "stop", "off"} : pc' = [pc EXCEPT ![p] = s]
  BY DEF EndRound, Goto
<1> QED
  BY <1>1, <1>2, MovesOn DEF PolicyInv

LEMMA PolicyStep ==
    ASSUME HandEdits = FALSE
    PROVE  TypeOK /\ PolicyInv /\ [Next]_vars => PolicyInv'
<1> SUFFICES ASSUME TypeOK, PolicyInv, [Next]_vars PROVE PolicyInv'
  OBVIOUS
<1> USE ServiceIsProc
<1>a. (diy # None => Admitted(diy)) /\ (kernel # None => Admitted(kernel))
  BY DEF PolicyInv
<1>1. ASSUME NEW p \in Procs, LoadRuntime(p) PROVE PolicyInv'
  <2>1. file \in Configs
    BY DEF TypeOK, PolicyInv
  <2>2. allowed' = [allowed EXCEPT ![p] = file.allowed] /\ file.allowed \in AllowLists
    BY <1>1, <2>1, DistinctAssumption DEF LoadRuntime, Configs
  <2> QED
    BY <1>1, <2>2 DEF LoadRuntime, Goto, PolicyInv, Admitted, TypeOK
<1>2. ASSUME NEW p \in Procs, ParseConf(p) PROVE PolicyInv'
  <2>1. Goto(p, "build") /\ pc[p] = "parse" /\ UNCHANGED <<allowed, script, file, diy, kernel>>
    BY <1>2 DEF ParseConf, PolicyInv
  <2> QED
    BY <2>1 DEF Goto, PolicyInv, Admitted, TypeOK
<1>3. ASSUME NEW p \in Procs, Build(p) PROVE PolicyInv'
  <2>1. Admitted(Rendered(p))
    BY <1>3, RenderedAdmitted DEF Build, PolicyInv
  <2>2. script'[p] = Rendered(p) /\ \A q \in Procs \ {p} : script'[q] = script[q]
    BY <1>3 DEF Build, TypeOK
  <2>3. Admitted(script[p])'
    BY <2>1, <2>2 DEF Admitted
  <2>4. \A q \in Procs : pc'[q] = IF q = p THEN "compare" ELSE pc[q]
    BY <1>3 DEF Build, Goto, TypeOK
  <2>5. UNCHANGED <<file, diy, kernel, allowed>>
    BY <1>3 DEF Build
  <2> QED
    BY <2>2, <2>3, <2>4, <2>5 DEF PolicyInv, Admitted
<1>4. ASSUME NEW p \in Procs, Compare(p) PROVE PolicyInv'
  <2>0. pc[p] = "compare" /\ UNCHANGED <<file, diy, kernel>>
    BY <1>4 DEF Compare, PrepareFails
  <2>1. CASE EndRound(p, "stop") \/ EndRound(p, "load")
    BY <2>0, <2>1, <1>a, RoundEnds DEF Admitted
  <2>2. CASE Goto(p, "apply") /\ UNCHANGED locals
    BY <2>0, <2>2 DEF Goto, locals, PolicyInv, Admitted, TypeOK
  <2> QED
    BY <1>4, <2>1, <2>2 DEF Compare, PrepareFails
<1>5. ASSUME NEW p \in Procs, ApplyScript(p) PROVE PolicyInv'
  <2>0. pc[p] = "apply" /\ UNCHANGED file
    BY <1>5 DEF ApplyScript
  <2>a. Admitted(script[p])
    BY <2>0 DEF PolicyInv
  <2>1. CASE diy' = script[p] /\ kernel' = script[p] /\ Goto(p, "record") /\ UNCHANGED locals
    <3>1. Admitted(diy') /\ Admitted(kernel')
      BY <2>1, <2>a
    <3> QED
      BY <2>0, <2>1, <3>1, MovesOn DEF Goto, locals, PolicyInv
  <2>2. CASE diy # None /\ kernel' = diy /\ Goto(p, "record") /\ UNCHANGED <<diy, locals>>
    <3>1. (diy' # None => Admitted(diy')) /\ Admitted(kernel')
      BY <2>2, <1>a
    <3> QED
      BY <2>0, <2>2, <3>1, MovesOn DEF Goto, locals, PolicyInv
  <2>3. CASE diy' = script[p] /\ EndRound(p, "stop") /\ UNCHANGED kernel
    <3>1. Admitted(diy') /\ (kernel' # None => Admitted(kernel'))
      BY <2>3, <2>a, <1>a
    <3> QED
      BY <2>0, <2>3, <3>1, RoundEnds
  <2> QED
    BY <1>5, <2>1, <2>2, <2>3 DEF ApplyScript
<1>6. ASSUME NEW p \in Procs, Record(p) PROVE PolicyInv'
  BY <1>6, <1>a, RoundEnds DEF Record, Admitted
<1>7. ASSUME NEW p \in Procs, StartRefresh(p) PROVE PolicyInv'
  BY <1>7, <1>a, MovesOn DEF StartRefresh, Goto, locals, PolicyInv
<1>8. CASE Kill
  BY <1>8, <1>a, RoundEnds DEF Kill
<1>9. CASE ExecStop
  BY <1>9, <1>a, MovesOn DEF ExecStop, Goto, locals, PolicyInv
<1>10. CASE Restart
  BY <1>10, <1>a, MovesOn DEF Restart, Goto, locals, PolicyInv
<1>11. CASE EditConfig
  <2>1. file' \in Configs
    BY <1>11 DEF EditConfig
  <2>2. UNCHANGED <<diy, kernel, pc, allowed, script>>
    BY <1>11 DEF EditConfig, locals
  <2> QED
    BY <2>1, <2>2, DistinctAssumption DEF PolicyInv, Admitted
<1>12. CASE DnsChange
  BY <1>12 DEF DnsChange, locals, PolicyInv, Admitted
<1>13. CASE UNCHANGED vars
  BY <1>13 DEF vars, locals, PolicyInv, Admitted
<1> QED
  BY <1>1, <1>2, <1>3, <1>4, <1>5, <1>6, <1>7, <1>8, <1>9, <1>10, <1>11, <1>12, <1>13
  DEF Next, Round

(* egress_control is never bypassed: when every edit replaces the file in  *)
(* one rename, each ruleset the kernel holds, whoever loaded it, was built *)
(* under one configured allow-list, with live and with cached addresses    *)
(* (config.rs:110-247).                                                    *)
THEOREM PolicySafe ==
    ASSUME HandEdits = FALSE
    PROVE  Spec => []OnePolicyAdmits
<1>1. Init => PolicyInv
  BY DistinctAssumption DEF Init, PolicyInv
<1>2. PolicyInv => OnePolicyAdmits
  BY DEF PolicyInv, Admitted, OnePolicyAdmits
<1> QED
  BY <1>1, <1>2, InitTyped, NextTyped, PolicyStep, PTL DEF Spec
-----------------------------------------------------------------------------
(* A DNS outage.  The service alone; the text of a round says for a rule   *)
(* what its live and its cached address came to, and what is recorded is   *)
(* what was installed.                                                     *)

Reached(r) == IF live[Service][r] # NoAddr THEN live[Service][r] ELSE cache[Service][r]

\* A rule that is installed, recorded and enabled.
Kept(r) ==
    /\ kernel # None /\ kernel[r] # NoAddr
    /\ lastGood[r] = kernel[r]
    /\ file # Invalid => r \in file.rules

\* The round in progress has seen the rule and its recorded address.
Seen(r) == r \in cells[Service] /\ cache[Service][r] = lastGood[r]

Chosen(r) ==
    script[Service][r] = IF r \in cells[Service] /\ Reached(r) \in allowed[Service]
                         THEN Reached(r) ELSE NoAddr

OutageInv ==
    /\ \A r \in steady : Kept(r)
    /\ pc[Service] \in {"build", "compare", "apply"} => \A r \in steady : Seen(r)
    /\ pc[Service] \in {"compare", "apply", "record"} => \A r \in Rules : Chosen(r)
    /\ pc[Service] = "record" => steady = {}

\* A step that ends or restarts a round: only the installed rules matter.
LEMMA Between ==
    ASSUME pc'[Service] \in {"off", "stop", "load", "parse"},
           \A r \in steady' : Kept(r)'
    PROVE  OutageInv'
BY DEF OutageInv

LEMMA InstalledStay ==
    ASSUME OutageInv, UNCHANGED <<steady, kernel, lastGood, file>>
    PROVE  \A r \in steady' : Kept(r)'
BY DEF OutageInv, Kept

LEMMA OutageStep ==
    ASSUME Procs = {Service}
    PROVE  TypeOK /\ OutageInv /\ [Next]_vars => OutageInv'
<1> SUFFICES ASSUME TypeOK, OutageInv, [Next]_vars PROVE OutageInv'
  OBVIOUS
<1> USE ServiceIsProc
<1>1. CASE LoadRuntime(Service)
  BY <1>1, Between, InstalledStay DEF LoadRuntime, Goto, TypeOK
<1>2. CASE ParseConf(Service)
  <2>1. CASE EndRound(Service, "load") /\ UNCHANGED lastGood
    BY <1>2, <2>1, EndRoundOfService, Between, InstalledStay DEF ParseConf
  <2>2. CASE file # Invalid
    <3>1. \A r \in steady : r \in file.rules /\ r \in Rules
      BY <2>2 DEF OutageInv, Kept, TypeOK
    <3>2. \A r \in steady : Pruned(lastGood, file.rules)[r] = lastGood[r]
      BY <3>1 DEF Pruned
    <3>3. \A r \in steady : lastGood'[r] = lastGood[r]
      BY <1>2, <2>2, <3>2 DEF ParseConf, Saved
    <3>4. cells'[Service] = file.rules /\ cache'[Service] = Pruned(lastGood, file.rules)
          /\ pc'[Service] = "build"
      BY <1>2, <2>2 DEF ParseConf, Goto, TypeOK
    <3>5. UNCHANGED <<steady, kernel, file>>
      BY <1>2 DEF ParseConf
    <3> QED
      BY <3>1, <3>2, <3>3, <3>4, <3>5 DEF OutageInv, Kept, Seen
  <2> QED
    BY <1>2, <2>1, <2>2 DEF ParseConf
<1>3. CASE Build(Service)
  <2>1. pc[Service] = "build" /\ pc'[Service] = "compare"
        /\ UNCHANGED <<steady, kernel, lastGood, file, cells, cache, allowed>>
    BY <1>3 DEF Build, Goto, TypeOK
  <2>2. live'[Service] = Pruned(dns, cells[Service]) /\ script'[Service] = Rendered(Service)
    BY <1>3 DEF Build, TypeOK
  <2>3. ASSUME NEW r \in Rules PROVE Chosen(r)'
    BY <2>1, <2>2 DEF Chosen, Reached, Pruned, Rendered, Resolved
  <2> QED
    BY <2>1, <2>3 DEF OutageInv, Kept, Seen
<1>4. CASE Compare(Service)
  <2>0. pc[Service] = "compare" /\ UNCHANGED <<steady, kernel, lastGood, file>>
    BY <1>4 DEF Compare, PrepareFails
  <2>1. CASE EndRound(Service, "stop") \/ EndRound(Service, "load")
    BY <2>0, <2>1, EndRoundOfService, Between, InstalledStay
  <2>2. CASE Goto(Service, "apply") /\ UNCHANGED locals
    BY <2>0, <2>2 DEF Goto, locals, TypeOK, OutageInv, Kept, Seen, Chosen, Reached
  <2> QED
    BY <1>4, <2>1, <2>2 DEF Compare, PrepareFails
<1>5. CASE ApplyScript(Service)
  <2>0. pc[Service] = "apply" /\ UNCHANGED <<lastGood, file>>
    BY <1>5 DEF ApplyScript
  <2>1. CASE Goto(Service, "record") /\ steady' = {} /\ UNCHANGED locals
    BY <2>0, <2>1 DEF Goto, locals, TypeOK, OutageInv, Chosen, Reached
  <2>2. CASE EndRound(Service, "stop") /\ UNCHANGED <<kernel, steady>>
    BY <2>0, <2>2, EndRoundOfService, Between, InstalledStay
  <2> QED
    BY <1>5, <2>1, <2>2 DEF ApplyScript
<1>6. CASE Record(Service)
  <2>0. pc[Service] = "record" /\ pc'[Service] = "load" /\ UNCHANGED <<kernel, file>>
    BY <1>6, EndRoundOfService DEF Record
  <2>1. ASSUME NEW r \in steady' PROVE Kept(r)'
    <3>1. faults' = faults /\ kernel = script[Service] /\ file # Invalid
          /\ r \in file.rules /\ script[Service][r] # NoAddr
      BY <1>6, <2>1 DEF Record
    <3>2. r \in Rules /\ kernel # None
      BY <3>1, DistinctAssumption DEF TypeOK, Configs
    <3>3. script[Service][r] = Reached(r)
      BY <2>0, <3>1, <3>2 DEF OutageInv, Chosen
    <3>4. ~Fault("save")
      BY <3>1 DEF Fault, TypeOK
    <3>5. lastGood'[r] = Reached(r)
      BY <1>6, <3>2, <3>4 DEF Record, Saved, Updated, Reached
    <3> QED
      BY <2>0, <3>1, <3>2, <3>3, <3>5 DEF Kept
  <2> QED
    BY <2>0, <2>1, Between
<1>7. ASSUME NEW p \in Procs, StartRefresh(p) PROVE FALSE
  BY <1>7 DEF StartRefresh
<1>8. CASE Kill
  BY <1>8, EndRoundOfService, Between, InstalledStay DEF Kill
<1>9. CASE ExecStop
  BY <1>9, Between DEF ExecStop, Goto, TypeOK
<1>10. CASE Restart
  BY <1>10, Between, InstalledStay DEF Restart, Goto, TypeOK
<1>11. CASE EditConfig
  <2>1. UNCHANGED <<kernel, lastGood, pc, cells, cache, live, script, allowed>>
    BY <1>11 DEF EditConfig, locals
  <2>2. steady' \subseteq steady /\ \A r \in steady' : file' # Invalid => r \in file'.rules
    BY <1>11 DEF EditConfig
  <2> QED
    BY <2>1, <2>2 DEF OutageInv, Kept, Seen, Chosen, Reached
<1>12. CASE DnsChange
  BY <1>12 DEF DnsChange, locals, OutageInv, Kept, Seen, Chosen, Reached
<1>13. CASE UNCHANGED vars
  BY <1>13 DEF vars, locals, OutageInv, Kept, Seen, Chosen, Reached
<1> QED
  BY <1>1, <1>2, <1>3, <1>4, <1>5, <1>6, <1>7, <1>8, <1>9, <1>10, <1>11, <1>12, <1>13
  DEF Next, Round

(* The service alone, with an editor or without: a rule that is installed, *)
(* recorded in the last-good cache and enabled since survives a round that *)
(* cannot resolve it, with the address it had, through failed applies,     *)
(* lost saves, kills and restarts (last_good.rs:126-392).                  *)
THEOREM OutageKeepsRule ==
    ASSUME Procs = {Service}
    PROVE  Spec => DnsOutageKeepsRule
<1>1. Init => OutageInv
  BY ServiceIsProc DEF Init, OutageInv
<1>2. TypeOK /\ OutageInv /\ [Next]_vars
      => [\A p \in Procs, r \in steady :
            /\ ApplyScript(p) /\ kernel' = script[p]
            /\ r \in cells[p] /\ live[p][r] = NoAddr /\ kernel[r] \in allowed[p]
            => script[p][r] = kernel[r]]_vars
  <2> SUFFICES ASSUME TypeOK, OutageInv, NEW r \in steady, ApplyScript(Service),
                      r \in cells[Service], live[Service][r] = NoAddr,
                      kernel[r] \in allowed[Service]
               PROVE  script[Service][r] = kernel[r]
    OBVIOUS
  <2>1. pc[Service] = "apply" /\ r \in Rules
    BY DEF ApplyScript, TypeOK
  <2>2. Kept(r) /\ Seen(r) /\ Chosen(r)
    BY <2>1 DEF OutageInv
  <2> QED
    BY <2>2 DEF Kept, Seen, Chosen, Reached
<1> QED
  BY <1>1, <1>2, InitTyped, NextTyped, OutageStep, PTL DEF Spec, DnsOutageKeepsRule
=============================================================================
