---------------------------- MODULE SafeApplySolo ----------------------------
(***************************************************************************)
(* The safe-apply pipeline keeps the promise of AtomicRuleset when one     *)
(* process runs it and nothing fails but `nft -c` and `nft -f` of the      *)
(* generated script, the disk before the kernel is touched, and (for       *)
(* refresh_once) File::create.  A dump, a deletion, the save or the load   *)
(* of a rollback that fails, and a kill, break the promise.                *)
(* While a rollback is under way the promise shows the ruleset it is about *)
(* to put back.                                                            *)
(***************************************************************************)
EXTENDS SafeApply

CONSTANT self   \* the only process

ASSUME SoloAssumption == Procs = {self}

ASSUME FaultAssumption ==
    /\ Faults \subseteq {"create", "disk"}
    /\ "create" \in Faults => LoopProcs = {}

\* What the promise is told: during a rollback, the ruleset being put back.
Shown   == IF pc[self] \in {"delete", "save", "restore"} THEN pre[self] ELSE kernel
Attempt == IF pc[self] = "idle" THEN Empty ELSE gen[self]
Result  == IF outcome[self] = "none" THEN "none"
           ELSE IF outcome[self] = "ok" THEN "applied" ELSE "failed"
Image   == [g \in Gens |-> Block(g)]

Promise == INSTANCE AtomicRuleset WITH
    Missing <- Absent, None <- Empty,
    ruleset <- Shown, attempt <- Attempt, result <- Result

\* README.md: every run of apply_nft_script_with installs its whole text or
\* puts back the ruleset it found, and reports which; a script that nft refuses,
\* checked or loaded, included.
KeepsPromise == Promise!Spec
=============================================================================
