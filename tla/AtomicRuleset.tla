---------------------------- MODULE AtomicRuleset ----------------------------
(***************************************************************************)
(* What README.md promises of a safe apply ("checked before it is applied, *)
(* rolled back by itself when it fails"): an attempt either puts the whole *)
(* of its own generation into the managed tables, or leaves every one of   *)
(* them alone and says that it failed.                                     *)
(***************************************************************************)
CONSTANTS
    Tables,     \* the managed tables
    Gens,       \* the generated scripts
    Image,      \* Image[g]: what a table holds once script g is applied
    Missing,    \* a table that does not exist
    None        \* no attempt is under way; not in Gens

VARIABLES
    ruleset,    \* contents of the managed tables, as the promise tells it
    attempt,    \* the script being applied, or None
    result      \* how the last attempt ended

promise == <<ruleset, attempt, result>>

Init ==
    /\ ruleset = [t \in Tables |-> Missing]
    /\ attempt = None
    /\ result = "none"

Start(g) ==
    /\ attempt = None
    /\ attempt' = g
    /\ result' = "none"
    /\ UNCHANGED ruleset

Succeed ==
    /\ attempt # None
    /\ ruleset' = [t \in Tables |-> Image[attempt]]
    /\ attempt' = None
    /\ result' = "applied"

Fail ==
    /\ attempt # None
    /\ attempt' = None
    /\ result' = "failed"
    /\ UNCHANGED ruleset

Next == (\E g \in Gens : Start(g)) \/ Succeed \/ Fail

Spec == Init /\ [][Next]_promise
=============================================================================
