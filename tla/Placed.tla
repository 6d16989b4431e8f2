------------------------------- MODULE Placed -------------------------------
(***************************************************************************)
(* The check of a crate together with its source: the calls of the MIR,    *)
(* the sites and the axioms Check.tla takes as given are those of the HIR  *)
(* of Hir.tla.                                                             *)
(***************************************************************************)
EXTENDS Check, Hir

CONSTANTS
    Sources,     \* crates with their notes and, in `trees`, their bodies
    NameWords    \* NameWords[c] are the words of the condition's name

VARIABLE source

\* Nodes in the order of the text.
InTextOrder(S) ==
    CHOOSE s \in [1 .. Cardinality(S) -> S] : \A i, j \in DOMAIN s : i < j => s[i] < s[j]

\* The nodes of the calls rustc sees in the function.
CallNodes(t) == InTextOrder(MirCalls(t))

BodyOf(t) == LET nodes == CallNodes(t) IN [i \in DOMAIN nodes |-> t[nodes[i]].call]

Considers(t, a) == {c \in Conds : BuzzwordSatisfied(t[a].text, NameWords[c])}

SiteOf(t, n) ==
    LET expr    == FoundExpr(t, t[n].span)
        comment == IF expr = 0 THEN 0 ELSE CommentFor(t, expr)
    IN [hir     |-> expr # 0,
        comment |-> comment # 0,
        covers  |-> IF comment = 0 THEN {} ELSE Considers(t, comment)]

SitesOf(t) == LET nodes == CallNodes(t) IN [i \in DOMAIN nodes |-> SiteOf(t, nodes[i])]

\* Variant: a dereference is justified by a comment at the function's start.
AxiomsOfBody(t) ==
    [i \in 1 .. Cardinality(FindAxioms(t)) |-> \E n \in DOMAIN t : t[n].marked]

\* only_unjustified_axioms climbs from the operand; the order does not matter.
AxiomsOf(t) ==
    LET axioms == InTextOrder(FindAxioms(t))
    IN [i \in DOMAIN axioms |-> CommentFor(t, axioms[i]) # 0]

Described(s) ==
    \A f \in Local : /\ IsTree(s.trees[f])
                     /\ s.crate.body[f]  = BodyOf(s.trees[f])
                     /\ s.notes.sites[f]  = SitesOf(s.trees[f])
                     /\ s.notes.axioms[f] = AxiomsOf(s.trees[f])

ASSUME PlacedAssumption == \A s \in Sources : Described(s)

PlacedInit ==
    /\ source \in Sources
    /\ crate = source.crate
    /\ notes = source.notes
    /\ CheckInit

PlacedNext == CheckNext /\ UNCHANGED source

PlacedSpec == PlacedInit /\ [][PlacedNext]_<<checkVars, source>>
-----------------------------------------------------------------------------
\* Some comment in the body around n, or the doc comment of a default method
\* around the body, considers what n asks for.
JustifiedIn(t, n, obligation) ==
    \E a \in 1 .. n :
        /\ Contains(t, a, n) /\ t[a].marked
        /\ a = 1 => t[1].kind = "trait_item"
        /\ obligation.kind = "conditions" =>
              Unconsidered(obligation, [covers |-> Considers(t, a)]) = {}

\* n is a call, outside of closures or anywhere, of a function with obligations.
DemandsComment(t, n, anywhere) ==
    /\ t[n].call \in Fns \ {0} /\ HasObligation(t[n].call)
    /\ anywhere \/ ~InClosure(t, n)

AllJustified(anywhere) ==
    \A f \in Analyzed(crate) :
        LET t == source.trees[f] IN
           ~HasObligation(f) /\ DistinctSpans(t) =>
              \A n \in DOMAIN t :
                 /\ t[n].operand => JustifiedIn(t, n, None)
                 /\ DemandsComment(t, n, anywhere) =>
                       JustifiedIn(t, n, ObligationOf(t[n].call))

\* From the text of the crate to its verdict: when the crate passes, every raw
\* pointer dereference, in closures too, and every call of a function with
\* obligations, in a function reachable from the entry points and without
\* obligations of its own, has a comment around it that considers what is asked.
PassIsJustified == stage = "ok" => AllJustified(FALSE)

\* "Checks that all local functions in the crate are properly annotated"
\* (check/mod.rs:22), what they do in closures included: find_axioms enters
\* them, but their calls are in MIR bodies nothing reaches.
ClosuresChecked == stage = "ok" => AllJustified(TRUE)
=============================================================================
