------------------------------ MODULE ReachAbs ------------------------------
(***************************************************************************)
(* What the reachability analysis promises, without its worklist: it finds *)
(* functions one at a time, each an entry point or the callee of one found *)
(* before, and returns only when there is nothing left to find.            *)
(***************************************************************************)
EXTENDS Crate

VARIABLES
    crate,   \* the crate under analysis
    found,   \* the functions found so far
    status   \* "running", "done" or "panicked"

vars == <<crate, found, status>>

\* f is one step away from what is found.
Discoverable(f) ==
    /\ f \notin found
    /\ HasTypeck(crate, f)
    /\ \/ f \in EntryPoints(crate)
       \/ \E g \in found : \E i \in DOMAIN crate.body[g] : crate.body[g][i] = f

Init ==
    /\ crate \in Crates
    /\ found = {}
    /\ status = "running"

Discover ==
    /\ status = "running"
    /\ ~EntryPanics(crate)
    /\ \E f \in Local : Discoverable(f) /\ found' = found \cup {f}
    /\ UNCHANGED <<crate, status>>

Finish ==
    /\ status = "running"
    /\ ~EntryPanics(crate)
    /\ ~\E f \in Local : Discoverable(f)
    /\ status' = "done"
    /\ UNCHANGED <<crate, found>>

Panic ==
    /\ status = "running"
    /\ EntryPanics(crate)
    /\ found = {}
    /\ status' = "panicked"
    /\ UNCHANGED <<crate, found>>

Next == Discover \/ Finish \/ Panic

SafeSpec == Init /\ [][Next]_vars
Spec == SafeSpec /\ WF_vars(Next)
=============================================================================
