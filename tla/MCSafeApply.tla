----------------------------- MODULE MCSafeApply -----------------------------
(* What keeps two processes with two scripts small enough for TLC.          *)
EXTENDS SafeApply, Functions, TLC

CONSTANT MaxBlocks      \* rule blocks in a table beyond which a state is not followed

FewBlocks ==
    \A t \in Tables : kernel[t] # Absent => FoldFunction(+, 0, kernel[t]) <= MaxBlocks

\* No definition tells one script from another.
Texts == Permutations(Gens)

\* What is recorded of a run that another overlapped is read by no property,
\* what a process generated by none of its steps once it is written, and what
\* was checked by none but AppliedWasChecked.
Kept(f, none) == [p \in Procs |-> IF p \in undisturbed THEN f[p] ELSE none]
View ==
    <<kernel, script, pc, idx, backups, undisturbed, stale \cap undisturbed,
      [p \in Procs |-> IF p \in undisturbed \/ pc[p] \in {"create", "write"}
                       THEN gen[p] ELSE Empty],
      Kept(outcome, "none"), Kept(pre, NoBackups), Kept(unlisted, {}), Kept(undeleted, {})>>
=============================================================================
