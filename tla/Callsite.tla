------------------------------ MODULE Callsite ------------------------------
(***************************************************************************)
(* The justification of one call or one dereference: the expression of a   *)
(* call is found by its span (check/expr.rs), the HIR is climbed to a      *)
(* comment (parse_expr), and the comment is held against the conditions    *)
(* of the callee (unconsidered_conditions).                                *)
(***************************************************************************)
EXTENDS Hir

CONSTANT Cases   \* a body, and the names of the conditions a callee states

VARIABLES
    tree,        \* the body
    goal,        \* the node of the call or of the dereferenced operand
    span,        \* the span of the call in the MIR, or NoSpan
    conditions,  \* what the callee demands
    stage,       \* where the justification is
    at,          \* the node to visit or the node reached by the climb
    found,       \* the expression the visitor has found, 0 for none
    unconsidered \* the positions of the conditions not considered so far

inputs       == <<tree, goal, span, conditions>>
callsiteVars == <<inputs, stage, at, found, unconsidered>>

ASSUME CallsiteAssumption == \A c \in Cases : IsTree(c.tree)

NoSpan == -1

\* only_unjustified_callsites: a call is looked up by its span.  A call rustc
\* has moved here from another body has a span of that body: 0.
JustifyCall ==
    /\ goal \in MirCalls(tree)
    /\ span \in {tree[goal].span, 0}
    /\ stage = "find" /\ at = 1 /\ found = 0

\* only_unjustified_axioms: no look-up, and no conditions.
JustifyAxiom ==
    /\ goal \in FindAxioms(tree)
    /\ span = NoSpan
    /\ conditions = << >>
    /\ stage = "climb" /\ at = goal /\ found = goal

CallsiteInit ==
    /\ \E c \in Cases : tree = c.tree /\ conditions \in {c.names, << >>}
    /\ goal \in DOMAIN tree
    /\ JustifyCall \/ JustifyAxiom
    /\ unconsidered = {}

-----------------------------------------------------------------------------
(* SpanExprFinder.                                                         *)

Wanted(n) == SpanIs(tree, span, n)

\* Variant: the visitor returns with the first match.
VisitMatchFirst ==
    /\ stage = "find" /\ at <= Len(tree) /\ Wanted(at)
    /\ found' = at
    /\ at' = Len(tree) + 1
    /\ UNCHANGED <<inputs, stage, unconsidered>>

\* A match is not descended into; a later one replaces it.
VisitMatch ==
    /\ stage = "find" /\ at <= Len(tree) /\ Wanted(at)
    /\ found' = at
    /\ at' = After(tree, at)
    /\ UNCHANGED <<inputs, stage, unconsidered>>

\* Variant: the walk goes on behind the first node below this one.
VisitOtherSkips ==
    /\ stage = "find" /\ at <= Len(tree) /\ ~Wanted(at)
    /\ at' = IF tree[at].kind = "closure" THEN After(tree, at) ELSE at + 2
    /\ UNCHANGED <<inputs, stage, found, unconsidered>>

\* walk_expr does not enter the body of a closure.
VisitOther ==
    /\ stage = "find" /\ at <= Len(tree) /\ ~Wanted(at)
    /\ at' = IF tree[at].kind = "closure" THEN After(tree, at) ELSE at + 1
    /\ UNCHANGED <<inputs, stage, found, unconsidered>>

Found ==
    /\ stage = "find" /\ at > Len(tree) /\ found # 0
    /\ stage' = "climb"
    /\ at' = found
    /\ UNCHANGED <<inputs, found, unconsidered>>

\* "unable to find HIR stmt that corresponds to call"
NotFoundPanic ==
    /\ stage = "find" /\ at > Len(tree) /\ found = 0
    /\ stage' = "panicked"
    /\ UNCHANGED <<inputs, at, found, unconsidered>>

-----------------------------------------------------------------------------
(* parse_expr: the expression itself, then its parents.                    *)

\* Variant: impl items are climbed through.
RootOnlyItem(n) == n # 0 => tree[n].kind = "item"

\* Past a trait item comes the trait, an item.
Root(n) == n # 0 => tree[n].kind \in {"item", "impl_item"}

\* Variant: the climb stays where it is.
ClimbNowhere ==
    /\ stage = "climb" /\ ~Root(at) /\ ~tree[at].marked
    /\ UNCHANGED callsiteVars

Climb ==
    /\ stage = "climb" /\ ~Root(at) /\ ~tree[at].marked
    /\ at' = tree[at].parent
    /\ UNCHANGED <<inputs, stage, found, unconsidered>>

NoAnnotation ==
    /\ stage = "climb" /\ Root(at)
    /\ stage' = "unjustified"
    /\ UNCHANGED <<inputs, at, found, unconsidered>>

Annotation ==
    /\ stage = "climb" /\ ~Root(at) /\ tree[at].marked
    /\ stage' = "judge"
    /\ UNCHANGED <<inputs, at, found, unconsidered>>

\* satisfies_obligation
Judge ==
    /\ stage = "judge"
    /\ unconsidered' = {i \in DOMAIN conditions :
                           ~BuzzwordSatisfied(tree[at].text, conditions[i])}
    /\ stage' = IF unconsidered' = {} THEN "justified" ELSE "missed"
    /\ UNCHANGED <<inputs, at, found>>

CallsiteNext ==
    \/ VisitMatch \/ VisitOther \/ Found \/ NotFoundPanic
    \/ Climb \/ NoAnnotation \/ Annotation \/ Judge

\* A sequential computation that does not wait.
CallsiteSpec == CallsiteInit /\ [][CallsiteNext]_callsiteVars /\ WF_callsiteVars(CallsiteNext)
-----------------------------------------------------------------------------
Demands == {<< >>} \cup {c.names : c \in Cases}

CallsiteTypeOK ==
    /\ goal \in DOMAIN tree /\ span \in Nat \cup {NoSpan}
    /\ conditions \in Demands
    /\ stage \in {"find", "climb", "judge", "justified", "missed", "unjustified", "panicked"}
    /\ at \in 0 .. Len(tree) + 1 /\ found \in 0 .. Len(tree)
    /\ unconsidered \subseteq DOMAIN conditions

IsCall == span # NoSpan

\* The steps come to what Hir.tla says, which is what Check is given.
Implements ==
    LET start   == IF IsCall THEN FoundExpr(tree, span) ELSE goal
        comment == CommentFor(tree, start)
    IN /\ stage = "panicked" <=> stage \notin {"find"} /\ start = 0
       /\ stage = "unjustified" => comment = 0
       /\ stage \in {"judge", "justified", "missed"} => at = comment /\ comment # 0

\* A call or dereference is justified only by a comment within the body that
\* contains it, or by the doc comment of a default method, and it is the
\* nearest such comment, never an outer or a neighbouring one, that counts.
OwnComment ==
    stage \in {"justified", "missed"} /\ DistinctSpans(tree) =>
        /\ Contains(tree, at, goal)
        /\ at = 1 => tree[1].kind = "trait_item"
        /\ \A a \in at + 1 .. goal : Contains(tree, a, goal) => ~tree[a].marked

\* Only the comment is turned to lower case: a condition written in lower case
\* is considered by a comment that has its words, in whatever case; one written
\* with a capital is considered by none, not even by a comment that has it so.
NamedInLowerCase ==
    stage \in {"justified", "missed"} =>
        \A i \in DOMAIN conditions :
            /\ (\E j \in DOMAIN conditions[i] : HasCapital(conditions[i][j]))
                  => i \in unconsidered
            /\ (\A j \in DOMAIN conditions[i] :
                   \E w \in tree[at].text : conditions[i][j] = Lower[w])
                  => i \notin unconsidered

\* Every justification ends with an answer.
Answered == <>(stage \in {"justified", "missed", "unjustified", "panicked"})

-----------------------------------------------------------------------------
(* What a test says and the code does not do.                              *)

\* "This shouldn't be allowed, but a buggy implementation could feasibly
\* accidentally allow it" (tests/unsafe/placement/call_block_def.rs:4): text on
\* the definition of a function justifies nothing in its body.
DefinitionJustifiesNothing == stage = "justified" => at # 1
=============================================================================
