--------------------------- MODULE CallsiteProofs ---------------------------
(* Theorems about Callsite.tla, for bodies of any size and shape: the search *)
(* and the climb come to what Hir.tla says, and the nearest comment decides. *)
EXTENDS Callsite, HirProofs

\* Where the climb begins.
Start == IF IsCall THEN FoundExpr(tree, span) ELSE goal

InputInv ==
    /\ IsTree(tree)
    /\ goal \in DOMAIN tree
    /\ conditions \in Demands
    /\ IsCall => goal \in MirCalls(tree) /\ span \in {tree[goal].span, 0}
    /\ ~IsCall => goal \in FindAxioms(tree)

\* The nodes before `at` have been visited or are below a match or a closure,
\* and nothing around `at` is one: what has been found is the last outermost
\* expression so far.
FindInv ==
    stage = "find" =>
        /\ IsCall
        /\ at \in 1 .. Len(tree) + 1
        /\ found = MaxOr0({n \in Outermost(tree, span) : n < at})
        /\ at <= Len(tree) =>
              \A a \in 1 .. at - 1 :
                 Contains(tree, a, at) => ~Wanted(a) /\ tree[a].kind # "closure"

\* Up to where the climb is there is no comment.
ClimbInv ==
    /\ stage = "panicked" => IsCall /\ Start = 0
    /\ stage \notin {"find", "panicked"} => Start \in 1 .. Len(tree)
    /\ stage = "climb" =>
          /\ at \in 0 .. Len(tree)
          /\ at = 0 => CommentFor(tree, Start) = 0
          /\ at # 0 => CommentFor(tree, Start) = CommentFor(tree, at)
    /\ stage = "unjustified" => CommentFor(tree, Start) = 0
    /\ stage \in {"judge", "justified", "missed"} =>
          at \in 1 .. Len(tree) /\ CommentFor(tree, Start) = at

\* What is left unconsidered is what the comment has no word for.
JudgeInv ==
    stage \in {"justified", "missed"} =>
        unconsidered = {i \in DOMAIN conditions :
                           ~BuzzwordSatisfied(tree[at].text, conditions[i])}

CallsiteInv == CallsiteTypeOK /\ InputInv /\ FindInv /\ ClimbInv /\ JudgeInv
-----------------------------------------------------------------------------
LEMMA CallsiteInvInit == CallsiteInit => CallsiteInv
<1> SUFFICES ASSUME CallsiteInit PROVE CallsiteInv
  OBVIOUS
<1>1. PICK c \in Cases : tree = c.tree /\ conditions \in {c.names, << >>}
  BY DEF CallsiteInit
<1>2. IsTree(tree) /\ conditions \in Demands
  BY <1>1, CallsiteAssumption DEF Demands
<1>3. /\ Len(tree) \in Nat /\ Len(tree) >= 1 /\ DOMAIN tree = 1 .. Len(tree)
      /\ \A n \in 1 .. Len(tree) : tree[n].span \in Nat
  BY <1>2, TreeType
<1>4. goal \in 1 .. Len(tree) /\ unconsidered = {}
  BY <1>3 DEF CallsiteInit
<1>5. CASE JustifyCall
  <2>1. span \in Nat /\ IsCall
    BY <1>3, <1>4, <1>5 DEF JustifyCall, IsCall, NoSpan
  <2>2. {n \in Outermost(tree, span) : n < at} = {}
    <3>1. \A n \in Outermost(tree, span) : n \in 1 .. Len(tree)
      BY <1>2, OutermostIn
    <3> QED BY <1>5, <3>1 DEF JustifyCall
  <2>3. found = MaxOr0({n \in Outermost(tree, span) : n < at})
    BY <1>5, <2>2 DEF JustifyCall, MaxOr0
  <2>4. CallsiteTypeOK
    BY <1>2, <1>3, <1>4, <1>5, <2>1 DEF JustifyCall, CallsiteTypeOK
  <2>5. InputInv
    BY <1>2, <1>3, <1>4, <1>5, <2>1 DEF JustifyCall, InputInv
  <2>6. FindInv
    BY <1>3, <1>5, <2>1, <2>3 DEF JustifyCall, FindInv
  <2> QED BY <1>5, <2>4, <2>5, <2>6 DEF JustifyCall, CallsiteInv, ClimbInv, JudgeInv
<1>6. CASE JustifyAxiom
  <2>1. ~IsCall /\ Start = goal
    BY <1>6 DEF JustifyAxiom, IsCall, Start
  <2>2. CallsiteTypeOK
    BY <1>2, <1>3, <1>4, <1>6 DEF JustifyAxiom, CallsiteTypeOK
  <2>3. InputInv
    BY <1>2, <1>3, <1>4, <1>6, <2>1 DEF JustifyAxiom, InputInv
  <2>4. ClimbInv
    BY <1>3, <1>4, <1>6, <2>1 DEF JustifyAxiom, ClimbInv
  <2> QED BY <1>6, <2>2, <2>3, <2>4 DEF JustifyAxiom, CallsiteInv, FindInv, JudgeInv
<1> QED BY <1>5, <1>6 DEF CallsiteInit
-----------------------------------------------------------------------------
(* The search.                                                             *)

\* Below a match or a closure there is no outermost expression.
LEMMA NoneBelow ==
    ASSUME InputInv, NEW n \in 1 .. Len(tree), Wanted(n) \/ tree[n].kind = "closure",
           NEW m \in n + 1 .. After(tree, n) - 1
    PROVE  m \notin Outermost(tree, span)
<1>1. /\ Len(tree) \in Nat /\ After(tree, n) \in n + 1 .. Len(tree) + 1
  BY AfterIs, TreeType DEF InputInv
<1>2. Contains(tree, n, m) /\ n \in 1 .. m - 1
  BY <1>1 DEF Contains
<1> QED BY <1>2 DEF Outermost, InClosure, Wanted

\* A match with no match or closure around it is an outermost expression.
LEMMA MatchIsOutermost ==
    ASSUME InputInv, FindInv, stage = "find", at <= Len(tree), Wanted(at)
    PROVE  at \in Outermost(tree, span)
<1>1. at \in 1 .. Len(tree) /\ DOMAIN tree = 1 .. Len(tree)
  BY TreeType DEF InputInv, FindInv
<1>2. \A a \in 1 .. at - 1 :
         Contains(tree, a, at) => ~SpanIs(tree, span, a) /\ tree[a].kind # "closure"
  BY DEF FindInv, Wanted
<1> QED BY <1>1, <1>2 DEF Outermost, InClosure, Wanted

\* The walk goes on behind a subtree: nothing that was not around its root is
\* around what follows.
LEMMA AroundAfter ==
    ASSUME InputInv, FindInv, stage = "find", at <= Len(tree), After(tree, at) <= Len(tree),
           NEW a \in 1 .. After(tree, at) - 1, Contains(tree, a, After(tree, at))
    PROVE  ~Wanted(a) /\ tree[a].kind # "closure"
<1>1. at \in 1 .. Len(tree) /\ Len(tree) \in Nat
  BY TreeType DEF InputInv, FindInv
<1>2. a < at /\ Contains(tree, a, at)
  BY <1>1, AfterLeaves DEF InputInv
<1>3. a \in 1 .. at - 1
  BY <1>1, <1>2
<1> QED BY <1>2, <1>3 DEF FindInv

LEMMA VisitMatchKeeps == CallsiteInv /\ VisitMatch => CallsiteInv'
<1> SUFFICES ASSUME CallsiteInv, VisitMatch PROVE CallsiteInv'
  OBVIOUS
<1>1. /\ InputInv /\ FindInv /\ IsTree(tree) /\ stage = "find" /\ at <= Len(tree) /\ Wanted(at)
      /\ stage' = "find" /\ found' = at /\ at' = After(tree, at)
      /\ UNCHANGED <<tree, goal, span, conditions, unconsidered>>
  BY DEF CallsiteInv, InputInv, VisitMatch, inputs
<1>2. Len(tree) \in Nat /\ at \in 1 .. Len(tree) /\ at' \in at + 1 .. Len(tree) + 1
  BY <1>1, AfterIs, TreeType DEF FindInv
<1>3. CallsiteTypeOK'
  BY <1>1, <1>2 DEF CallsiteInv, CallsiteTypeOK
<1>4. InputInv'
  BY <1>1 DEF InputInv, IsCall
<1>5. found' = MaxOr0({n \in Outermost(tree, span) : n < at'})
  <2> DEFINE T == {n \in Outermost(tree, span) : n < at'}
  <2>1. at \in T
    BY <1>1, <1>2, MatchIsOutermost
  <2>2. \A n \in Outermost(tree, span) : n \in 1 .. Len(tree)
    BY <1>1, OutermostIn
  <2>3. ASSUME NEW n \in T PROVE n <= at
    <3>1. PICK next : next = at'
      OBVIOUS
    <3>2. n \in 1 .. Len(tree) /\ n < next /\ n \in Outermost(tree, span) /\ next = After(tree, at)
      BY <1>1, <2>2, <3>1
    <3>3. n \notin at + 1 .. next - 1
      BY <1>1, <1>2, <3>2, NoneBelow
    <3>4. n \in Nat /\ at \in Nat /\ next \in Nat
      BY <1>2, <3>1, <3>2
    <3> QED BY <3>2, <3>3, <3>4
  <2>4. T \in SUBSET (1 .. Len(tree))
    BY <2>2
  <2> HIDE DEF T
  <2>5. MaxOr0(T) = at
    BY <1>2, <2>1, <2>3, <2>4, MaxOr0Unique
  <2> QED BY <1>1, <2>5 DEF T
<1>6. ASSUME at' <= Len(tree), NEW a \in 1 .. at' - 1, Contains(tree, a, at')
      PROVE  ~Wanted(a) /\ tree[a].kind # "closure"
  BY <1>1, <1>6, AroundAfter
<1>7. FindInv'
  BY <1>1, <1>2, <1>5, <1>6 DEF FindInv, IsCall, Wanted
<1> QED BY <1>1, <1>3, <1>4, <1>7 DEF CallsiteInv, ClimbInv, JudgeInv

LEMMA VisitOtherKeeps == CallsiteInv /\ VisitOther => CallsiteInv'
<1> SUFFICES ASSUME CallsiteInv, VisitOther PROVE CallsiteInv'
  OBVIOUS
<1>1. /\ InputInv /\ FindInv /\ IsTree(tree) /\ stage = "find" /\ at <= Len(tree) /\ ~Wanted(at)
      /\ stage' = "find" /\ found' = found
      /\ at' = IF tree[at].kind = "closure" THEN After(tree, at) ELSE at + 1
      /\ UNCHANGED <<tree, goal, span, conditions, unconsidered>>
  BY DEF CallsiteInv, InputInv, VisitOther, inputs
<1>2. Len(tree) \in Nat /\ at \in 1 .. Len(tree) /\ at' \in at + 1 .. Len(tree) + 1
  BY <1>1, AfterIs, TreeType DEF FindInv
<1>3. CallsiteTypeOK'
  BY <1>1, <1>2 DEF CallsiteInv, CallsiteTypeOK
<1>4. InputInv'
  BY <1>1 DEF InputInv, IsCall
<1>5. {n \in Outermost(tree, span) : n < at'} = {n \in Outermost(tree, span) : n < at}
  <2>1. \A n \in Outermost(tree, span) : n \in 1 .. Len(tree)
    BY <1>1, OutermostIn
  <2>2. at \notin Outermost(tree, span)
    BY <1>1 DEF Outermost, Wanted
  <2>3. ASSUME NEW n \in Outermost(tree, span), n < at' PROVE n < at
    <3>1. n \notin at + 1 .. at' - 1
      <4>1. CASE tree[at].kind = "closure"
        BY <1>1, <1>2, <2>3, <4>1, NoneBelow
      <4>2. CASE tree[at].kind # "closure"
        BY <1>1, <1>2, <4>2
      <4> QED BY <4>1, <4>2
    <3> QED BY <1>2, <2>1, <2>2, <2>3, <3>1
  <2>4. \A n \in Outermost(tree, span) : n < at => n < at'
    BY <1>2, <2>1
  <2> QED BY <2>3, <2>4
<1>6. ASSUME at' <= Len(tree), NEW a \in 1 .. at' - 1, Contains(tree, a, at')
      PROVE  ~Wanted(a) /\ tree[a].kind # "closure"
  <2>1. CASE tree[at].kind = "closure"
    BY <1>1, <1>6, <2>1, AroundAfter
  <2>2. CASE tree[at].kind # "closure" /\ a = at
    BY <1>1, <2>2
  <2>3. CASE tree[at].kind # "closure" /\ a # at
    <3>1. at' = at + 1 /\ a \in 1 .. at - 1 /\ a \in 1 .. Len(tree) /\ at' \in 1 .. Len(tree)
      BY <1>1, <1>2, <1>6, <2>3
    <3>2. \A k \in a + 1 .. at' : tree[k].parent >= a
      BY <1>1, <1>6, <3>1, ContainsIff
    <3>3. Contains(tree, a, at)
      <4>1. a <= at /\ \A k \in a + 1 .. at : tree[k].parent >= a
        BY <1>2, <3>1, <3>2
      <4> QED BY <1>1, <1>2, <3>1, <4>1, ContainsIff
    <3> QED BY <1>1, <3>1, <3>3 DEF FindInv
  <2> QED BY <2>1, <2>2, <2>3
<1>7. found' = MaxOr0({n \in Outermost(tree, span) : n < at'})
  BY <1>1, <1>5 DEF FindInv
<1>8. FindInv'
  BY <1>1, <1>2, <1>6, <1>7 DEF FindInv, IsCall, Wanted
<1> QED BY <1>1, <1>3, <1>4, <1>8 DEF CallsiteInv, ClimbInv, JudgeInv

\* At the end of the walk all outermost expressions have been seen.
LEMMA SearchEnds ==
    ASSUME CallsiteInv, stage = "find", at > Len(tree)
    PROVE  IsCall /\ found = Start /\ found \in 0 .. Len(tree)
<1>1. IsTree(tree) /\ FindInv /\ IsCall
  BY DEF CallsiteInv, InputInv, FindInv
<1>2. Len(tree) \in Nat /\ at = Len(tree) + 1
  BY <1>1, TreeType DEF FindInv
<1>3. Outermost(tree, span) \in SUBSET (1 .. Len(tree))
  BY <1>1, OutermostIn
<1>4. {n \in Outermost(tree, span) : n < at} = Outermost(tree, span)
  BY <1>2, <1>3
<1>5. found = FoundExpr(tree, span)
  BY <1>1, <1>4, OutermostIn DEF FindInv
<1> QED BY <1>1, <1>5 DEF Start, CallsiteInv, CallsiteTypeOK

LEMMA FoundKeeps == CallsiteInv /\ (Found \/ NotFoundPanic) => CallsiteInv'
<1> SUFFICES ASSUME CallsiteInv, Found \/ NotFoundPanic PROVE CallsiteInv'
  OBVIOUS
<1>1. /\ stage = "find" /\ IsCall /\ found = Start /\ found \in 0 .. Len(tree)
      /\ UNCHANGED <<tree, goal, span, conditions, found, unconsidered>>
  BY SearchEnds DEF Found, NotFoundPanic, inputs
<1>2. Start' = Start
  BY <1>1 DEF Start, IsCall
<1>3. InputInv'
  BY <1>1 DEF CallsiteInv, InputInv, IsCall
<1>4. CASE Found
  <2>1. stage' = "climb" /\ at' = found /\ found # 0
    BY <1>4 DEF Found
  <2>2. CallsiteTypeOK'
    BY <1>1, <2>1 DEF CallsiteInv, CallsiteTypeOK
  <2>3. Start \in 1 .. Len(tree)
    BY <1>1, <2>1
  <2>4. ClimbInv'
    BY <1>1, <1>2, <2>1, <2>3 DEF ClimbInv
  <2> QED BY <1>3, <2>1, <2>2, <2>4 DEF CallsiteInv, FindInv, JudgeInv
<1>5. CASE NotFoundPanic
  <2>1. stage' = "panicked" /\ at' = at /\ found = 0
    BY <1>5 DEF NotFoundPanic
  <2>2. CallsiteTypeOK'
    BY <1>1, <2>1 DEF CallsiteInv, CallsiteTypeOK
  <2>3. ClimbInv'
    BY <1>1, <1>2, <2>1 DEF ClimbInv, IsCall
  <2> QED BY <1>3, <2>1, <2>2, <2>3 DEF CallsiteInv, FindInv, JudgeInv
<1> QED BY <1>4, <1>5
-----------------------------------------------------------------------------
(* The climb and the judgement.                                            *)

LEMMA ClimbKeeps == CallsiteInv /\ Climb => CallsiteInv'
<1> SUFFICES ASSUME CallsiteInv, Climb PROVE CallsiteInv'
  OBVIOUS
<1>1. /\ stage = "climb" /\ ~Root(at) /\ ~tree[at].marked
      /\ stage' = "climb" /\ at' = tree[at].parent
      /\ UNCHANGED <<tree, goal, span, conditions, found, unconsidered>>
  BY DEF Climb, inputs
<1>2. /\ IsTree(tree) /\ at \in 1 .. Len(tree)
      /\ Start \in 1 .. Len(tree) /\ CommentFor(tree, Start) = CommentFor(tree, at)
  BY <1>1, TreeType DEF CallsiteInv, InputInv, ClimbInv, Root
<1>3. Start' = Start
  BY <1>1 DEF Start, IsCall
<1>4. /\ at' = 0 => CommentFor(tree, at) = 0
      /\ at' # 0 => at' \in 1 .. Len(tree) /\ CommentFor(tree, at) = CommentFor(tree, at')
  <2>1. CASE at = 1
    BY <1>1, <1>2, <2>1, TreeType, CommentOfParent
  <2>2. CASE at # 1
    BY <1>1, <1>2, <2>2, CommentOfParent
  <2> QED BY <2>1, <2>2
<1>5. at' \in 0 .. Len(tree)
  BY <1>2, <1>4, TreeType
<1>6. ClimbInv'
  BY <1>1, <1>2, <1>3, <1>4, <1>5 DEF ClimbInv
<1>7. CallsiteTypeOK'
  BY <1>1, <1>2, <1>5, TreeType DEF CallsiteInv, CallsiteTypeOK
<1>8. InputInv'
  BY <1>1 DEF CallsiteInv, InputInv, IsCall
<1> QED BY <1>1, <1>6, <1>7, <1>8 DEF CallsiteInv, FindInv, JudgeInv

LEMMA ClimbEndsKeeps == CallsiteInv /\ (NoAnnotation \/ Annotation) => CallsiteInv'
<1> SUFFICES ASSUME CallsiteInv, NoAnnotation \/ Annotation PROVE CallsiteInv'
  OBVIOUS
<1>1. /\ stage = "climb" /\ stage' \in {"unjustified", "judge"}
      /\ UNCHANGED <<tree, goal, span, conditions, at, found, unconsidered>>
  BY DEF NoAnnotation, Annotation, inputs
<1>2. /\ IsTree(tree) /\ Start \in 1 .. Len(tree) /\ at \in 0 .. Len(tree)
      /\ at = 0 => CommentFor(tree, Start) = 0
      /\ at # 0 => at \in 1 .. Len(tree) /\ CommentFor(tree, Start) = CommentFor(tree, at)
  BY <1>1, TreeType DEF CallsiteInv, InputInv, ClimbInv
<1>3. Start' = Start
  BY <1>1 DEF Start, IsCall
<1>4. CASE NoAnnotation
  <2>1. Root(at) /\ stage' = "unjustified"
    BY <1>4 DEF NoAnnotation
  <2>2. CommentFor(tree, Start) = 0
    BY <1>2, <2>1, RootIsOwner DEF Root
  <2> QED BY <1>1, <1>2, <1>3, <2>1, <2>2 DEF ClimbInv, CallsiteInv, CallsiteTypeOK,
                                             InputInv, IsCall, FindInv, JudgeInv
<1>5. CASE Annotation
  <2>1. ~Root(at) /\ tree[at].marked /\ stage' = "judge"
    BY <1>5 DEF Annotation
  <2>2. at \in 1 .. Len(tree) /\ CommentFor(tree, Start) = at
    BY <1>2, <2>1, CommentHere DEF Root
  <2> QED BY <1>1, <1>2, <1>3, <2>1, <2>2 DEF ClimbInv, CallsiteInv, CallsiteTypeOK,
                                             InputInv, IsCall, FindInv, JudgeInv
<1> QED BY <1>4, <1>5

LEMMA JudgeKeeps == CallsiteInv /\ Judge => CallsiteInv'
<1> SUFFICES ASSUME CallsiteInv, Judge PROVE CallsiteInv'
  OBVIOUS
<1>1. /\ stage = "judge" /\ stage' \in {"justified", "missed"}
      /\ unconsidered' = {i \in DOMAIN conditions :
                             ~BuzzwordSatisfied(tree[at].text, conditions[i])}
      /\ UNCHANGED <<tree, goal, span, conditions, at, found>>
  BY DEF Judge, inputs
<1>2. Start' = Start /\ Start \in 1 .. Len(tree)
  BY <1>1 DEF Start, IsCall, CallsiteInv, ClimbInv
<1>3. CallsiteTypeOK'
  BY <1>1 DEF CallsiteInv, CallsiteTypeOK
<1>4. InputInv'
  BY <1>1 DEF CallsiteInv, InputInv, IsCall
<1>5. ClimbInv'
  BY <1>1, <1>2 DEF CallsiteInv, ClimbInv
<1>6. JudgeInv'
  BY <1>1 DEF JudgeInv
<1> QED BY <1>1, <1>3, <1>4, <1>5, <1>6 DEF CallsiteInv, FindInv
-----------------------------------------------------------------------------
LEMMA CallsiteInvNext == CallsiteInv /\ [CallsiteNext]_callsiteVars => CallsiteInv'
<1> SUFFICES ASSUME CallsiteInv, [CallsiteNext]_callsiteVars PROVE CallsiteInv'
  OBVIOUS
<1>1. CASE VisitMatch
  BY <1>1, VisitMatchKeeps
<1>2. CASE VisitOther
  BY <1>2, VisitOtherKeeps
<1>3. CASE Found \/ NotFoundPanic
  BY <1>3, FoundKeeps
<1>4. CASE Climb
  BY <1>4, ClimbKeeps
<1>5. CASE NoAnnotation \/ Annotation
  BY <1>5, ClimbEndsKeeps
<1>6. CASE Judge
  BY <1>6, JudgeKeeps
<1>7. CASE UNCHANGED callsiteVars
  BY <1>7 DEF callsiteVars, inputs, CallsiteInv, CallsiteTypeOK, InputInv, IsCall, FindInv,
              Wanted, ClimbInv, Start, JudgeInv
<1> QED BY <1>1, <1>2, <1>3, <1>4, <1>5, <1>6, <1>7 DEF CallsiteNext

LEMMA CallsiteInvariant == CallsiteSpec => []CallsiteInv
<1> QED BY CallsiteInvInit, CallsiteInvNext, PTL DEF CallsiteSpec

\* Where no two expressions share a span, a search that finds anything finds
\* the call it was made for.
LEMMA StartIsGoal ==
    ASSUME CallsiteInv, DistinctSpans(tree), Start \in 1 .. Len(tree)
    PROVE  Start = goal
<1>1. /\ IsTree(tree) /\ goal \in 1 .. Len(tree) /\ 0 \notin 1 .. Len(tree)
      /\ DOMAIN tree = 1 .. Len(tree)
  BY TreeType DEF CallsiteInv, InputInv
<1>2. CASE ~IsCall
  BY <1>2 DEF Start
<1>3. CASE IsCall
  <2>1. Start = FoundExpr(tree, span)
    BY <1>3 DEF Start
  <2>2. span = tree[goal].span
    BY <1>1, <1>3, <2>1, ElsewhereNotFound DEF CallsiteInv, InputInv
  <2>3. tree[goal].kind \in Exprs /\ ~InClosure(tree, goal)
    BY <1>1, <1>3 DEF CallsiteInv, InputInv, MirCalls, IsTree, Exprs
  <2> QED BY <1>1, <2>1, <2>2, <2>3, DistinctFound
<1> QED BY <1>2, <1>3

\* A comment that has every word of a condition considers it.
LEMMA WordsInText ==
    ASSUME NEW text \in SUBSET Words, NEW name,
           \A j \in DOMAIN name : \E w \in text : name[j] = Lower[w]
    PROVE  BuzzwordSatisfied(text, name)
<1> SUFFICES ASSUME NEW j \in DOMAIN name
             PROVE  ContainsWordOrSynonym({Lower[w] : w \in text}, name[j])
  BY DEF BuzzwordSatisfied
<1>1. PICK w \in text : name[j] = Lower[w]
  OBVIOUS
<1>2. Lower[w] \in Words /\ <<Lower[w], Lower[w]>> \in Substr
  BY HirAssumption
<1>3. TextContains({Lower[v] : v \in text}, name[j])
  BY <1>1, <1>2 DEF TextContains
<1> QED BY <1>3 DEF ContainsWordOrSynonym

\* In lower-cased text there is no word with a capital, and none of the words
\* the table has for it.
LEMMA CapitalNotInText ==
    ASSUME NEW text \in SUBSET Words, NEW c, HasCapital(c)
    PROVE  ~ContainsWordOrSynonym({Lower[w] : w \in text}, c)
<1>1. \A w \in {Lower[v] : v \in text} : w \in Words /\ ~HasCapital(w)
  BY HirAssumption, LowerAssumption DEF HasCapital
<1>2. c \in Words /\ c # ""
  BY LowerAssumption DEF HasCapital
<1>3. ~TextContains({Lower[w] : w \in text}, c)
  BY <1>1, <1>2, LowerAssumption DEF TextContains
<1>4. Similar(c) \subseteq {"Valid", "Align"}
  <2>1. CASE c \notin DOMAIN SimilarBuzzwords
    BY <2>1 DEF Similar
  <2>2. CASE c \in DOMAIN SimilarBuzzwords
    <3>1. c \in {"Validity", "Alignment"}
      BY <2>2, LowerAssumption
    <3>2. SimilarBuzzwords["Validity"] = {"Valid"} /\ SimilarBuzzwords["Alignment"] = {"Align"}
      BY DEF SimilarBuzzwords
    <3> QED BY <2>2, <3>1, <3>2 DEF Similar
  <2> QED BY <2>1, <2>2
<1>5. ASSUME NEW u \in {"Valid", "Align"} PROVE ~TextContains({Lower[w] : w \in text}, u)
  BY <1>1, LowerAssumption DEF TextContains
<1> QED BY <1>3, <1>4, <1>5 DEF ContainsWordOrSynonym
-----------------------------------------------------------------------------
\* The walk stays within the body, and what is left unconsidered are
\* conditions of the callee: in a body of any shape the visitor of
\* check/expr.rs and the climb of parse_expr do not run off the tree.
THEOREM CallsiteTypeCorrect == CallsiteSpec => []CallsiteTypeOK
<1>1. CallsiteInv => CallsiteTypeOK
  BY DEF CallsiteInv
<1> QED BY <1>1, CallsiteInvariant, PTL

\* The visitor, which overwrites what it found and skips what it need not
\* see, comes to the last of the outermost expressions with the span; the
\* climb comes to the nearest comment below an item; the panic is met exactly
\* where there is no such expression.
THEOREM ClimbImplements == CallsiteSpec => []Implements
<1>1. CallsiteInv => Implements
  <2> SUFFICES ASSUME CallsiteInv PROVE Implements
    OBVIOUS
  <2>1. /\ ClimbInv /\ stage \in {"find", "climb", "judge", "justified", "missed",
                                   "unjustified", "panicked"}
    BY DEF CallsiteInv, CallsiteTypeOK
  <2>2. 0 \notin 1 .. Len(tree)
    BY TreeType DEF CallsiteInv, InputInv
  <2> QED BY <2>1, <2>2 DEF Implements, ClimbInv, Start
<1> QED BY <1>1, CallsiteInvariant, PTL

\* Where spans are distinct, what justifies a call is a comment around that
\* very call with no other comment between, and the doc comment of the
\* function itself only in a default method.
THEOREM NearestCommentCounts == CallsiteSpec => []OwnComment
<1>1. CallsiteInv => OwnComment
  <2> SUFFICES ASSUME CallsiteInv, stage \in {"justified", "missed"}, DistinctSpans(tree)
               PROVE  /\ Contains(tree, at, goal)
                      /\ at = 1 => tree[1].kind = "trait_item"
                      /\ \A a \in at + 1 .. goal : Contains(tree, a, goal) => ~tree[a].marked
    BY DEF OwnComment
  <2>1. Start \in 1 .. Len(tree) /\ at = CommentFor(tree, Start) /\ at # 0 /\ IsTree(tree)
    BY TreeType DEF CallsiteInv, ClimbInv, InputInv
  <2>2. Start = goal
    BY <2>1, StartIsGoal
  <2> QED BY <2>1, <2>2, NearestComment
<1> QED BY <1>1, CallsiteInvariant, PTL

\* In every body, the case of a condition's name decides what a comment can do
\* for it: unconsidered_conditions lower-cases the text of the comment and not
\* the name.
THEOREM LowerCaseDecides == CallsiteSpec => []NamedInLowerCase
<1>1. CallsiteInv => NamedInLowerCase
  <2> SUFFICES ASSUME CallsiteInv, stage \in {"justified", "missed"}, NEW i \in DOMAIN conditions
               PROVE  /\ (\E j \in DOMAIN conditions[i] : HasCapital(conditions[i][j]))
                            => i \in unconsidered
                      /\ (\A j \in DOMAIN conditions[i] :
                             \E w \in tree[at].text : conditions[i][j] = Lower[w])
                            => i \notin unconsidered
    BY DEF NamedInLowerCase
  <2>1. i \in unconsidered <=> ~BuzzwordSatisfied(tree[at].text, conditions[i])
    BY DEF CallsiteInv, JudgeInv
  <2>2. tree[at] \in Node
    BY TreeType DEF CallsiteInv, ClimbInv, InputInv
  <2>3. tree[at].text \in SUBSET Words
    BY <2>2 DEF Node
  <2>4. ASSUME NEW j \in DOMAIN conditions[i], HasCapital(conditions[i][j])
        PROVE  i \in unconsidered
    BY <2>1, <2>3, <2>4, CapitalNotInText DEF BuzzwordSatisfied
  <2>5. ASSUME \A j \in DOMAIN conditions[i] : \E w \in tree[at].text : conditions[i][j] = Lower[w]
        PROVE  i \notin unconsidered
    BY <2>1, <2>3, <2>5, WordsInText
  <2> QED BY <2>4, <2>5
<1> QED BY <1>1, CallsiteInvariant, PTL
-----------------------------------------------------------------------------
(* The justification ends.                                                 *)

\* At most so many steps are ahead: the nodes the search has not come to, then
\* the nodes a climb may pass, and the judgement.
StepsAhead ==
    IF stage = "find" THEN (Len(tree) + 1 - at) + Len(tree) + 4
    ELSE IF stage = "climb" THEN at + 3
    ELSE IF stage = "judge" THEN 2 ELSE 0

LEMMA StepAdvances ==
    CallsiteInv /\ CallsiteNext => StepsAhead \in Nat /\ StepsAhead' \in Nat /\ StepsAhead' < StepsAhead
<1> SUFFICES ASSUME CallsiteInv, CallsiteNext
             PROVE  StepsAhead \in Nat /\ StepsAhead' \in Nat /\ StepsAhead' < StepsAhead
  OBVIOUS
<1>1. IsTree(tree) /\ Len(tree) \in Nat /\ tree' = tree
  BY TreeType DEF CallsiteInv, InputInv, CallsiteNext, VisitMatch, VisitOther, Found,
                  NotFoundPanic, Climb, NoAnnotation, Annotation, Judge, inputs
<1>2. /\ stage = "find" => at \in 1 .. Len(tree) + 1
      /\ stage = "climb" => at \in 0 .. Len(tree)
  BY DEF CallsiteInv, FindInv, ClimbInv
<1>3. CASE VisitMatch \/ VisitOther
  <2>1. /\ stage = "find" /\ stage' = "find" /\ at \in 1 .. Len(tree)
        /\ at' \in {After(tree, at), at + 1}
    BY <1>1, <1>2, <1>3 DEF VisitMatch, VisitOther
  <2>2. at' \in at + 1 .. Len(tree) + 1
    BY <1>1, <2>1, AfterIs
  <2> QED BY <1>1, <2>1, <2>2 DEF StepsAhead
<1>4. CASE Found \/ NotFoundPanic
  <2>1. /\ stage = "find" /\ at \in 1 .. Len(tree) + 1
        /\ \/ stage' = "climb" /\ at' = found
           \/ stage' = "panicked" /\ at' = at
    BY <1>2, <1>4 DEF Found, NotFoundPanic
  <2>2. found \in 0 .. Len(tree)
    BY DEF CallsiteInv, CallsiteTypeOK
  <2>3. StepsAhead \in Nat /\ StepsAhead >= Len(tree) + 4
    BY <1>1, <2>1 DEF StepsAhead
  <2>4. StepsAhead' \in Nat /\ StepsAhead' <= Len(tree) + 3
    BY <1>1, <2>1, <2>2 DEF StepsAhead
  <2> QED BY <1>1, <2>3, <2>4
<1>5. CASE Climb
  <2>1. /\ stage = "climb" /\ stage' = "climb" /\ at' = tree[at].parent
        /\ at \in 1 .. Len(tree)
    BY <1>1, <1>2, <1>5 DEF Climb, Root
  <2>2. at' \in 0 .. at - 1
    <3>1. at = 1 => tree[at].parent = 0
      BY <1>1 DEF IsTree
    <3>2. at \in 2 .. Len(tree) => tree[at].parent \in 1 .. at - 1
      BY <1>1 DEF IsTree
    <3> QED BY <1>1, <2>1, <3>1, <3>2
  <2> QED BY <1>1, <2>1, <2>2 DEF StepsAhead
<1>6. CASE NoAnnotation \/ Annotation \/ Judge
  BY <1>1, <1>2, <1>6 DEF NoAnnotation, Annotation, Judge, StepsAhead
<1> QED BY <1>3, <1>4, <1>5, <1>6 DEF CallsiteNext

\* Each step brings the answer nearer: neither the walk nor the climb, which
\* the code writes as an unbounded loop over parents, can run for ever.
JustificationAdvances ==
    [][(StepsAhead \in Nat /\ StepsAhead' \in Nat /\ StepsAhead' < StepsAhead)]_callsiteVars

THEOREM JustificationsAdvance == CallsiteSpec => JustificationAdvances
<1>1. CallsiteInv /\ [CallsiteNext]_callsiteVars
         => [(StepsAhead \in Nat /\ StepsAhead' \in Nat /\ StepsAhead' < StepsAhead)]_callsiteVars
  BY StepAdvances
<1> QED BY <1>1, CallsiteInvInit, CallsiteInvNext, PTL DEF CallsiteSpec, JustificationAdvances
=============================================================================
