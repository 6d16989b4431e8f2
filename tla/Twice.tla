------------------------------- MODULE Twice -------------------------------
(***************************************************************************)
(* The same crate analyzed twice: what one analysis returned, and what the *)
(* next one, after a clean build, finds again.  The two differ in the      *)
(* iteration orders of their HashSet and HashMap only.                     *)
(***************************************************************************)
EXTENDS Reach

VARIABLE first     \* what the first analysis returned

NotYet == [done |-> FALSE]

TwiceInit == Init /\ first = NotYet

Analyze == Next /\ UNCHANGED first

\* The crate is compiled again.
Again ==
    /\ pc = "done"
    /\ first = NotYet
    /\ first' = [done |-> TRUE, order |-> order,
                 locally_reachable |-> locally_reachable,
                 all_reachable |-> all_reachable]
    /\ pc' = "entry"
    /\ d' = NoItem
    /\ pos' = 0
    /\ calls_to' = NoCalls
    /\ locally_reachable' = << >>
    /\ all_reachable' = [g \in Extern |-> << >>]
    /\ order' = << >>
    /\ UNCHANGED <<crate, to_visit>>

TwiceNext == Analyze \/ Again

TwiceSpec == TwiceInit /\ [][TwiceNext]_<<vars, first>>
-----------------------------------------------------------------------------
Both == first.done /\ pc = "done"

\* What is not a choice among equals is found again: the same functions at the
\* same depth, with the same calls in the same order, listed under the same
\* sequence of paths; the same calls out of the crate, as many of them; and a
\* crate that could be analyzed once can be again (reach.rs:42-139).
SameAnalysis ==
    /\ first.done => pc # "panicked"
    /\ Both =>
          /\ DOMAIN locally_reachable = DOMAIN first.locally_reachable
          /\ \A f \in DOMAIN locally_reachable :
                LET now  == locally_reachable[f]
                    then == first.locally_reachable[f]
                IN /\ now.calls_to = then.calls_to
                   /\ Len(now.through) = Len(then.through)
          /\ \A g \in Extern :
                /\ Elements(all_reachable[g]) = Elements(first.all_reachable[g])
                /\ Len(all_reachable[g]) = Len(first.all_reachable[g])
          /\ Len(order) = Len(first.order)
          /\ \A k \in DOMAIN order : Path[order[k]] = Path[first.order[k]]
=============================================================================
