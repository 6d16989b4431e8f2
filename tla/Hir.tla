-------------------------------- MODULE Hir --------------------------------
(***************************************************************************)
(* The body of one function as HIR, and the text that justifies what is    *)
(* done in it (annotations/mod.rs, check/expr.rs, properties/mod.rs).      *)
(*                                                                         *)
(* A tree is a sequence of nodes in the order intravisit walks them; the   *)
(* first is the owner of the body.  The text of a comment is a set of      *)
(* words; str::contains is a relation between words.                       *)
(***************************************************************************)
EXTENDS Integers, Sequences, FiniteSets

CONSTANTS
    Words,       \* the words of comments and of names of conditions
    Lower,       \* Lower[w] is w.to_lowercase()
    Substr       \* the pairs <<u, w>> such that w contains u

Owners == {"item", "impl_item", "trait_item"}
Exprs  == {"expr", "closure"}

ASSUME HirAssumption ==
    /\ Lower \in [Words -> Words]
    /\ \A w \in Words : <<w, w>> \in Substr

\* `span`: of an expression, where it is in the text of this body; 0 is elsewhere.
\* `call`: the expression is a call with this name, 0 for none.  `operand`: a
\* raw pointer that is dereferenced by the parent.  `marked`: the doc string
\* of the node matches callsite_regex, and `text` is what follows the match.
Node == [kind : Owners \cup Exprs \cup {"other"}, parent : Nat, span : Nat,
         call : Nat, operand : BOOLEAN, marked : BOOLEAN, text : SUBSET Words]

\* The first node after the subtree of n.
After(t, n) ==
    CHOOSE m \in n + 1 .. Len(t) + 1 :
        /\ \A k \in n + 1 .. m - 1 : t[k].parent >= n
        /\ m <= Len(t) => t[m].parent < n

Contains(t, a, n) == a <= n /\ n < After(t, a)

IsTree(t) ==
    /\ t \in Seq(Node) /\ t # << >>
    /\ t[1].kind \in Owners /\ t[1].parent = 0
    /\ \A n \in 2 .. Len(t) : /\ t[n].kind \notin Owners
                              /\ t[n].parent \in 1 .. n - 1
                              /\ Contains(t, t[n].parent, n - 1)
    /\ \A n \in DOMAIN t : /\ t[n].call # 0 => t[n].kind = "expr"
                           /\ t[n].operand => t[n].kind \in Exprs
                           /\ t[n].kind \in Exprs => t[n].span # 0

InClosure(t, n) == \E a \in 1 .. n - 1 : t[a].kind = "closure" /\ Contains(t, a, n)

\* What the MIR of the function calls: a closure has a MIR body of its own.
MirCalls(t) == {n \in DOMAIN t : t[n].call # 0 /\ ~InClosure(t, n)}

\* A dereference of a raw pointer, of which the operand is kept.
FoundAxiom(t, n) == t[n].operand

\* find_axioms enters closures, unlike the MIR and unlike SpanExprFinder.
FindAxioms(t) == {n \in DOMAIN t : FoundAxiom(t, n)}
-----------------------------------------------------------------------------
(* What find_expr_for_call and parse_expr come to; Callsite.tla has their  *)
(* steps.                                                                  *)

MaxOr0(S) == IF S = {} THEN 0 ELSE CHOOSE n \in S : \A m \in S : m <= n

SpanIs(t, span, n) == t[n].kind \in Exprs /\ t[n].span = span

\* The last of the outermost expressions with the span, 0 if there is none.
FoundExpr(t, span) ==
    MaxOr0({n \in DOMAIN t :
               /\ SpanIs(t, span, n) /\ ~InClosure(t, n)
               /\ \A a \in 1 .. n - 1 : Contains(t, a, n) => ~SpanIs(t, span, a)})

\* The nodes hir_parent_iter yields before an item or an impl item, from n on.
Climbed(t, n) ==
    {a \in 1 .. n : Contains(t, a, n) /\ t[a].kind \notin {"item", "impl_item"}}

\* The node whose comment is taken for n, 0 if there is none.
CommentFor(t, n) == MaxOr0({a \in Climbed(t, n) : t[a].marked})

\* No two expressions share a span.  They do when one repetition in a macro
\* makes them: the spans are those of the macro's text.
DistinctSpans(t) ==
    \A m, n \in DOMAIN t : {t[m].kind, t[n].kind} \subseteq Exprs /\ t[m].span = t[n].span => m = n
-----------------------------------------------------------------------------
(* buzzword_satisfied                                                      *)

SimilarBuzzwords ==
    [validity |-> {"valid"}, Validity |-> {"Valid"}, size |-> {"larger"},
     length |-> {"len()"}, soundness |-> {"sound"}, alignment |-> {"align"},
     Alignment |-> {"Align"}, lifetime |-> {"outlive", "live for at least"}]

HasCapital(w) == w \in Words /\ Lower[w] # w

\* A part of a lower-case word is lower case; the table is as it is written.
ASSUME LowerAssumption ==
    /\ \A w \in Words : Lower[Lower[w]] = Lower[w]
    /\ \A u, w \in Words : <<u, w>> \in Substr /\ HasCapital(u) => HasCapital(w)
    /\ \A u \in {"Valid", "Align"}, w \in Words : <<u, w>> \in Substr => HasCapital(w)
    /\ \A w \in DOMAIN SimilarBuzzwords \cup {""} :
          HasCapital(w) => w \in {"Validity", "Alignment"}

Similar(word) ==
    IF word \in DOMAIN SimilarBuzzwords THEN SimilarBuzzwords[word] ELSE {}

\* Every text contains the empty word, as in the name `-`.
TextContains(text, word) == word = "" \/ \E w \in text : <<word, w>> \in Substr

ContainsWordOrSynonym(text, word) ==
    \E w \in {word} \cup Similar(word) : TextContains(text, w)

\* Variant: the text keeps its case.
BuzzwordSatisfiedAsWritten(text, name) ==
    \A i \in DOMAIN name : ContainsWordOrSynonym(text, name[i])

\* A name is the sequence of its words, split at `&` and `-`; only the text is
\* turned to lower case.
BuzzwordSatisfied(text, name) ==
    \A i \in DOMAIN name : ContainsWordOrSynonym({Lower[w] : w \in text}, name[i])
=============================================================================
