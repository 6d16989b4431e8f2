----------------------------- MODULE HirProofs -----------------------------
(* Facts about the trees of Hir.tla: what contains what, and what the search *)
(* for an expression and the climb to a comment come to.                     *)
EXTENDS Hir, WellFoundedInduction, TLAPS

LEMMA LeastNode ==
    ASSUME NEW T \in SUBSET Nat, T # {}
    PROVE  \E m \in T : \A k \in T : m <= k
<1> DEFINE Less == {ss \in Nat \X Nat : ss[1] < ss[2]}
<1>1. IsWellFoundedOn(Less, Nat)
  BY NatLessThanWellFounded, Zenon DEF OpToRel
<1>2. \A x, y \in Nat : x < y => <<x, y>> \in Less
  OBVIOUS
<1> HIDE DEF Less
<1>3. PICK m \in T : \A k \in T : ~(<<k, m>> \in Less)
  BY <1>1, WFMin
<1>4. \A k \in T : k \in Nat /\ m \in Nat /\ ~(k < m)
  BY <1>2, <1>3
<1> QED BY <1>4

LEMMA GreatestNode ==
    ASSUME NEW n \in Nat, NEW T \in SUBSET (1 .. n), T # {}
    PROVE  \E m \in T : \A k \in T : k <= m
<1> DEFINE D == {n - k : k \in T}
<1>1. D \in SUBSET Nat /\ D # {}
  <2>1. \A k \in T : n - k \in Nat
    OBVIOUS
  <2> QED BY <2>1
<1>2. PICK d \in D : \A e \in D : d <= e
  BY <1>1, LeastNode
<1>3. PICK m \in T : d = n - m
  OBVIOUS
<1>4. \A k \in T : n - m <= n - k
  BY <1>2, <1>3
<1>5. \A k \in T : k \in 1 .. n
  OBVIOUS
<1> QED BY <1>3, <1>4, <1>5

LEMMA MaxOr0Is ==
    ASSUME NEW n \in Nat, NEW T \in SUBSET (1 .. n)
    PROVE  /\ T = {} => MaxOr0(T) = 0
           /\ T # {} => MaxOr0(T) \in T /\ \A k \in T : k <= MaxOr0(T)
           /\ MaxOr0(T) \in 0 .. n
           /\ MaxOr0(T) = 0 <=> T = {}
<1>1. T # {} => MaxOr0(T) \in T /\ \A k \in T : k <= MaxOr0(T)
  BY GreatestNode DEF MaxOr0
<1>2. T = {} => MaxOr0(T) = 0
  BY DEF MaxOr0
<1>3. \A k \in T : k \in 1 .. n
  OBVIOUS
<1>4. CASE T = {}
  BY <1>2, <1>4
<1>5. CASE T # {}
  <2>1. MaxOr0(T) \in 1 .. n
    BY <1>1, <1>3, <1>5
  <2> QED BY <1>1, <1>5, <2>1
<1> QED BY <1>4, <1>5

\* The greatest element is what it is said to be.
LEMMA MaxOr0Unique ==
    ASSUME NEW n \in Nat, NEW T \in SUBSET (1 .. n), NEW m \in T, \A k \in T : k <= m
    PROVE  MaxOr0(T) = m
<1>1. MaxOr0(T) \in T /\ \A k \in T : k <= MaxOr0(T)
  BY MaxOr0Is
<1>2. m \in 1 .. n /\ MaxOr0(T) \in 1 .. n /\ m <= MaxOr0(T) /\ MaxOr0(T) <= m
  BY <1>1
<1> QED BY <1>2
-----------------------------------------------------------------------------
(* Subtrees.                                                               *)

LEMMA TreeType ==
    ASSUME NEW t, IsTree(t)
    PROVE  /\ Len(t) \in Nat /\ Len(t) >= 1 /\ DOMAIN t = 1 .. Len(t)
           /\ \A n \in 1 .. Len(t) : t[n] \in Node /\ t[n].parent \in Nat /\ t[n].span \in Nat
           /\ t[1].parent = 0
           /\ \A n \in 2 .. Len(t) : t[n].parent \in 1 .. n - 1
<1>1. t \in Seq(Node) /\ t # << >>
  BY DEF IsTree
<1>2. Len(t) \in Nat /\ Len(t) >= 1 /\ DOMAIN t = 1 .. Len(t)
  BY <1>1
<1>3. \A n \in 1 .. Len(t) : t[n] \in Node
  BY <1>1, <1>2
<1>4. \A x \in Node : x.parent \in Nat /\ x.span \in Nat
  BY DEF Node
<1> QED BY <1>2, <1>3, <1>4 DEF IsTree

\* There is a first node after a subtree, or the end of the tree.
LEMMA AfterIs ==
    ASSUME NEW t, IsTree(t), NEW n \in 1 .. Len(t)
    PROVE  /\ After(t, n) \in n + 1 .. Len(t) + 1
           /\ \A k \in n + 1 .. After(t, n) - 1 : t[k].parent >= n
           /\ After(t, n) <= Len(t) => t[After(t, n)].parent < n
<1> DEFINE Ends == {m \in n + 1 .. Len(t) + 1 : m <= Len(t) => t[m].parent < n}
           First(m) == /\ \A k \in n + 1 .. m - 1 : t[k].parent >= n
                       /\ m <= Len(t) => t[m].parent < n
<1>1. /\ Len(t) \in Nat /\ n \in Nat
      /\ \A k \in 1 .. Len(t) : t[k].parent \in Nat
  BY TreeType
<1>2. Ends \in SUBSET Nat /\ Ends # {}
  <2>1. Len(t) + 1 \in Ends
    BY <1>1
  <2> QED BY <1>1, <2>1
<1>3. PICK m \in Ends : \A k \in Ends : m <= k
  BY <1>2, LeastNode
<1>4. m \in n + 1 .. Len(t) + 1 /\ First(m)
  <2>1. ASSUME NEW k \in n + 1 .. m - 1 PROVE t[k].parent >= n
    <3>1. k \in n + 1 .. Len(t) /\ k < m
      BY <1>1, <1>3
    <3>2. k \notin Ends
      BY <1>1, <1>3, <3>1
    <3> QED BY <1>1, <3>1, <3>2
  <2> QED BY <1>3, <2>1
<1>5. After(t, n) = CHOOSE k \in n + 1 .. Len(t) + 1 : First(k)
  BY DEF After
<1> HIDE DEF First
<1>6. After(t, n) \in n + 1 .. Len(t) + 1 /\ First(After(t, n))
  BY <1>4, <1>5
<1> QED BY <1>6 DEF First

\* A node contains those from it on whose parents do not lie before it.
LEMMA ContainsIff ==
    ASSUME NEW t, IsTree(t), NEW a \in 1 .. Len(t), NEW n \in 1 .. Len(t)
    PROVE  Contains(t, a, n) <=> a <= n /\ \A k \in a + 1 .. n : t[k].parent >= a
<1>1. /\ After(t, a) \in a + 1 .. Len(t) + 1
      /\ \A k \in a + 1 .. After(t, a) - 1 : t[k].parent >= a
      /\ After(t, a) <= Len(t) => t[After(t, a)].parent < a
  BY AfterIs
<1>2. Len(t) \in Nat /\ \A k \in 1 .. Len(t) : t[k].parent \in Nat
  BY TreeType
<1>3. ASSUME a <= n, n < After(t, a)
      PROVE  \A k \in a + 1 .. n : t[k].parent >= a
  BY <1>1, <1>2, <1>3
<1>4. ASSUME a <= n, \A k \in a + 1 .. n : t[k].parent >= a
      PROVE  n < After(t, a)
  <2>1. SUFFICES ASSUME After(t, a) <= n PROVE FALSE
    BY <1>1, <1>2
  <2>2. After(t, a) \in a + 1 .. n /\ After(t, a) \in 1 .. Len(t)
    BY <1>1, <1>2, <2>1
  <2>3. t[After(t, a)].parent >= a /\ t[After(t, a)].parent < a
    BY <1>1, <1>4, <2>2
  <2>4. t[After(t, a)].parent \in Nat
    BY <1>2, <2>2
  <2> QED BY <2>3, <2>4
<1> QED BY <1>3, <1>4 DEF Contains

LEMMA ContainsSelf ==
    ASSUME NEW t, IsTree(t), NEW n \in 1 .. Len(t)
    PROVE  Contains(t, n, n)
<1>1. n <= n /\ \A k \in n + 1 .. n : t[k].parent >= n
  BY TreeType
<1> QED BY <1>1, ContainsIff

\* What properly contains a node is what contains its parent.
LEMMA ContainsParent ==
    ASSUME NEW t, IsTree(t), NEW n \in 2 .. Len(t), NEW a \in 1 .. n - 1
    PROVE  /\ t[n].parent \in 1 .. n - 1
           /\ Contains(t, a, n) <=> a <= t[n].parent /\ Contains(t, a, t[n].parent)
<1> DEFINE p == t[n].parent
<1>1. /\ Len(t) \in Nat /\ \A k \in 1 .. Len(t) : t[k].parent \in Nat
      /\ p \in 1 .. n - 1
  BY TreeType
<1>2. Contains(t, p, n - 1) /\ n - 1 \in 1 .. Len(t) /\ p \in 1 .. Len(t) /\ n \in 1 .. Len(t)
      /\ a \in 1 .. Len(t)
  BY <1>1 DEF IsTree
<1>3. \A k \in p + 1 .. n - 1 : t[k].parent >= p
  BY <1>2, ContainsIff
<1> HIDE DEF p
<1>4. ASSUME a <= n, \A k \in a + 1 .. n : t[k].parent >= a
      PROVE  a <= p /\ \A k \in a + 1 .. p : t[k].parent >= a
  <2>1. n \in a + 1 .. n
    BY <1>1
  <2>2. p >= a
    BY <1>4, <2>1 DEF p
  <2> QED BY <1>1, <1>4, <2>2
<1>5. ASSUME a <= p, \A k \in a + 1 .. p : t[k].parent >= a
      PROVE  \A k \in a + 1 .. n : t[k].parent >= a
  <2>1. SUFFICES ASSUME NEW k \in a + 1 .. n PROVE t[k].parent >= a
    OBVIOUS
  <2>2. CASE k \in a + 1 .. p
    BY <1>5, <2>2
  <2>3. CASE k \in p + 1 .. n - 1
    <3>1. t[k].parent >= p /\ t[k].parent \in Nat
      BY <1>1, <1>3, <2>3
    <3> QED BY <1>1, <1>5, <3>1
  <2>4. CASE k = n
    BY <1>5, <2>4 DEF p
  <2> QED BY <1>1, <2>2, <2>3, <2>4
<1>6. Contains(t, a, n) <=> a <= n /\ \A k \in a + 1 .. n : t[k].parent >= a
  BY <1>2, ContainsIff
<1>7. Contains(t, a, p) <=> a <= p /\ \A k \in a + 1 .. p : t[k].parent >= a
  BY <1>2, ContainsIff
<1> QED BY <1>1, <1>4, <1>5, <1>6, <1>7 DEF p

\* A node of a node's subtree does not contain what comes after it.
LEMMA AfterLeaves ==
    ASSUME NEW t, IsTree(t), NEW n \in 1 .. Len(t), After(t, n) <= Len(t),
           NEW a \in 1 .. After(t, n) - 1, Contains(t, a, After(t, n))
    PROVE  a < n /\ Contains(t, a, n)
<1> DEFINE m == After(t, n)
<1>1. /\ m \in n + 1 .. Len(t) + 1
      /\ m <= Len(t) => t[m].parent < n
  BY AfterIs
<1>2. Len(t) \in Nat /\ \A k \in 1 .. Len(t) : t[k].parent \in Nat
  BY TreeType
<1>3. m \in 1 .. Len(t) /\ a \in 1 .. Len(t) /\ m \in a + 1 .. m
  BY <1>1, <1>2
<1> HIDE DEF m
<1>4. Contains(t, a, m)
  BY DEF m
<1>5. \A k \in a + 1 .. m : t[k].parent >= a
  BY <1>3, <1>4, ContainsIff
<1>6. t[m].parent >= a /\ t[m].parent < n /\ t[m].parent \in Nat
  BY <1>1, <1>2, <1>3, <1>5
<1>7. a < n
  BY <1>2, <1>3, <1>6
<1>8. \A k \in a + 1 .. n : t[k].parent >= a
  BY <1>1, <1>2, <1>5
<1> QED BY <1>3, <1>7, <1>8, ContainsIff
-----------------------------------------------------------------------------
(* The climb to a comment.                                                 *)

Commented(t, n) == {a \in Climbed(t, n) : t[a].marked}

LEMMA CommentedIn ==
    ASSUME NEW t, IsTree(t), NEW n \in 1 .. Len(t)
    PROVE  /\ Commented(t, n) \in SUBSET (1 .. n) /\ n \in Nat
           /\ CommentFor(t, n) = MaxOr0(Commented(t, n))
<1> QED BY TreeType DEF Commented, Climbed, CommentFor

\* Only the owner is an item.
LEMMA RootIsOwner ==
    ASSUME NEW t, IsTree(t), NEW n \in 1 .. Len(t), t[n].kind \in {"item", "impl_item"}
    PROVE  n = 1 /\ CommentFor(t, n) = 0
<1>1. n = 1
  <2>1. n \in 2 .. Len(t) => t[n].kind \notin Owners
    BY DEF IsTree
  <2> QED BY <2>1, TreeType DEF Owners
<1>2. Commented(t, n) = {}
  BY <1>1 DEF Commented, Climbed
<1> QED BY <1>1, <1>2, CommentedIn, MaxOr0Is

LEMMA CommentHere ==
    ASSUME NEW t, IsTree(t), NEW n \in 1 .. Len(t),
           t[n].kind \notin {"item", "impl_item"}, t[n].marked
    PROVE  CommentFor(t, n) = n
<1>1. n \in Commented(t, n)
  BY ContainsSelf DEF Commented, Climbed
<1>2. \A a \in Commented(t, n) : a <= n
  BY CommentedIn
<1> QED BY <1>1, <1>2, CommentedIn, MaxOr0Unique

\* Without a comment on a node, its parent's is taken; the owner has none.
LEMMA CommentOfParent ==
    ASSUME NEW t, IsTree(t), NEW n \in 1 .. Len(t), ~t[n].marked
    PROVE  /\ n = 1 => CommentFor(t, n) = 0
           /\ n # 1 => /\ t[n].parent \in 1 .. Len(t)
                       /\ CommentFor(t, n) = CommentFor(t, t[n].parent)
<1>1. CASE n = 1
  <2>1. Commented(t, n) = {}
    BY <1>1 DEF Commented, Climbed
  <2> QED BY <1>1, <2>1, CommentedIn, MaxOr0Is
<1>2. CASE n # 1
  <2> DEFINE p == t[n].parent
  <2>1. n \in 2 .. Len(t) /\ Len(t) \in Nat
    BY <1>2, TreeType
  <2>2. p \in 1 .. n - 1 /\ p \in 1 .. Len(t)
    BY <2>1, TreeType
  <2> HIDE DEF p
  <2>3. \A a \in 1 .. n - 1 : Contains(t, a, n) <=> a <= p /\ Contains(t, a, p)
    BY <2>1, ContainsParent DEF p
  <2>4. ASSUME NEW a \in Commented(t, n) PROVE a \in Commented(t, p)
    <3>1. a \in 1 .. n - 1 /\ Contains(t, a, n)
      BY <2>1 DEF Commented, Climbed
    <3>2. a \in 1 .. p /\ Contains(t, a, p)
      BY <2>2, <2>3, <3>1
    <3> QED BY <3>2 DEF Commented, Climbed
  <2>5. ASSUME NEW a \in Commented(t, p) PROVE a \in Commented(t, n)
    <3>1. a \in 1 .. p /\ Contains(t, a, p)
      BY DEF Commented, Climbed
    <3>2. a \in 1 .. n - 1 /\ a <= p
      BY <2>2, <3>1
    <3>3. Contains(t, a, n) /\ a \in 1 .. n
      BY <2>3, <3>1, <3>2
    <3> QED BY <3>3 DEF Commented, Climbed
  <2>6. Commented(t, n) = Commented(t, p)
    BY <2>4, <2>5
  <2>7. CommentFor(t, n) = CommentFor(t, p)
    BY <2>2, <2>6, CommentedIn
  <2> QED BY <1>2, <2>2, <2>7 DEF p
<1> QED BY <1>1, <1>2

\* The comment taken is around the node, and none is nearer.
LEMMA NearestComment ==
    ASSUME NEW t, IsTree(t), NEW n \in 1 .. Len(t), NEW c, c = CommentFor(t, n), c # 0
    PROVE  /\ c \in 1 .. n /\ Contains(t, c, n) /\ t[c].marked
           /\ c = 1 => t[1].kind = "trait_item"
           /\ \A a \in c + 1 .. n : Contains(t, a, n) => ~t[a].marked
<1>1. c \in Commented(t, n) /\ \A a \in Commented(t, n) : a <= c
  BY CommentedIn, MaxOr0Is
<1>2. c \in 1 .. n /\ Contains(t, c, n) /\ t[c].marked /\ t[c].kind \notin {"item", "impl_item"}
  BY <1>1 DEF Commented, Climbed
<1>3. t[1].kind \in Owners
  BY DEF IsTree
<1>4. ASSUME NEW a \in c + 1 .. n, Contains(t, a, n), t[a].marked PROVE FALSE
  <2>1. a \in 2 .. Len(t) /\ a \in 1 .. n /\ a > c /\ c \in Nat
    BY <1>2, TreeType
  <2>2. t[a].kind \notin {"item", "impl_item"}
    BY <2>1 DEF IsTree, Owners
  <2>3. a \in Commented(t, n)
    BY <1>4, <2>1, <2>2 DEF Commented, Climbed
  <2> QED BY <1>1, <2>1, <2>3
<1> QED BY <1>2, <1>3, <1>4 DEF Owners
-----------------------------------------------------------------------------
(* The search for an expression.                                           *)

Outermost(t, span) ==
    {n \in DOMAIN t : /\ SpanIs(t, span, n) /\ ~InClosure(t, n)
                      /\ \A a \in 1 .. n - 1 : Contains(t, a, n) => ~SpanIs(t, span, a)}

LEMMA OutermostIn ==
    ASSUME NEW t, IsTree(t), NEW span
    PROVE  /\ Outermost(t, span) \in SUBSET (1 .. Len(t)) /\ Len(t) \in Nat
           /\ FoundExpr(t, span) = MaxOr0(Outermost(t, span))
<1>1. Len(t) \in Nat /\ DOMAIN t = 1 .. Len(t)
  BY TreeType
<1> QED BY <1>1 DEF Outermost, FoundExpr

\* A call with a span of its own is found by it.
LEMMA DistinctFound ==
    ASSUME NEW t, IsTree(t), DistinctSpans(t), NEW n \in 1 .. Len(t),
           t[n].kind \in Exprs, ~InClosure(t, n)
    PROVE  FoundExpr(t, t[n].span) = n
<1>1. Len(t) \in Nat /\ DOMAIN t = 1 .. Len(t)
  BY TreeType
<1>2. \A m \in 1 .. Len(t) : SpanIs(t, t[n].span, m) => m = n
  BY <1>1 DEF SpanIs, DistinctSpans
<1>3. \A a \in 1 .. n - 1 : ~SpanIs(t, t[n].span, a)
  BY <1>1, <1>2
<1>4. Outermost(t, t[n].span) = {n}
  BY <1>1, <1>2, <1>3 DEF Outermost, SpanIs
<1>5. \A k \in {n} : k <= n
  BY <1>1
<1> QED BY <1>1, <1>4, <1>5, OutermostIn, MaxOr0Unique

\* The span of a call from another body finds nothing.
LEMMA ElsewhereNotFound ==
    ASSUME NEW t, IsTree(t)
    PROVE  FoundExpr(t, 0) = 0
<1>1. \A n \in DOMAIN t : ~SpanIs(t, 0, n)
  BY DEF SpanIs, IsTree
<1>2. Outermost(t, 0) = {}
  BY <1>1 DEF Outermost
<1> QED BY <1>2, OutermostIn, MaxOr0Is
=============================================================================
