---------------------------- MODULE PlacedProofs ----------------------------
(* Theorems about Placed.tla: from the text of a crate of any size to the   *)
(* verdict of its check.                                                    *)
EXTENDS CheckProofs, Placed, HirProofs
-----------------------------------------------------------------------------
(* The nodes of a set in the order of the text.                            *)

Rising(s) == \A i, j \in DOMAIN s : i < j => s[i] < s[j]

Ordered(S) == \E s \in [1 .. Cardinality(S) -> S] : Rising(s)

\* A set whose greatest node is added last.
LEMMA OrderedByOne ==
    ASSUME NEW n \in Nat, NEW S \in SUBSET (1 .. n), n \in S, Ordered(S \ {n})
    PROVE  Ordered(S)
<1>1. IsFiniteSet(S)
  BY UpTo, FS_Subset
<1>2. PICK c : c = Cardinality(S \ {n})
  OBVIOUS
<1>3. c \in Nat /\ Cardinality(S) = c + 1
  <2>1. Cardinality(S) \in Nat /\ IsFiniteSet(S \ {n}) /\ c = Cardinality(S) - 1
    BY <1>1, <1>2, FS_CardinalityType, FS_RemoveElement
  <2>2. c \in Nat
    BY <1>2, <2>1, FS_CardinalityType
  <2> QED BY <2>1, <2>2
<1>4. PICK s \in [1 .. c -> S \ {n}] : Rising(s)
  BY <1>2 DEF Ordered
<1> DEFINE r == [i \in 1 .. c + 1 |-> IF i = c + 1 THEN n ELSE s[i]]
<1>5. ASSUME NEW i \in 1 .. c PROVE s[i] \in S /\ s[i] \in Nat /\ s[i] < n
  <2>1. s[i] \in S /\ s[i] # n
    BY <1>4
  <2>2. s[i] \in 1 .. n
    BY <2>1
  <2> QED BY <2>1, <2>2
<1>6. r \in [1 .. c + 1 -> S]
  BY <1>3, <1>5
<1>7. ASSUME NEW i \in 1 .. c + 1, NEW j \in 1 .. c + 1, i < j PROVE r[i] < r[j]
  <2>1. i \in 1 .. c /\ r[i] = s[i]
    BY <1>3, <1>7
  <2>2. CASE j = c + 1
    BY <1>5, <2>1, <2>2
  <2>3. CASE j # c + 1
    <3>1. j \in 1 .. c /\ r[j] = s[j]
      BY <1>3, <2>3
    <3> QED BY <1>4, <1>7, <2>1, <3>1 DEF Rising
  <2> QED BY <2>2, <2>3
<1>8. Rising(r)
  BY <1>7 DEF Rising
<1> QED BY <1>3, <1>6, <1>8 DEF Ordered

LEMMA OrderExists ==
    ASSUME NEW n \in Nat, NEW S \in SUBSET (1 .. n)
    PROVE  Ordered(S)
<1> DEFINE Bad == {k \in Nat : \E T \in SUBSET (1 .. k) : ~Ordered(T)}
<1>1. SUFFICES ASSUME Bad # {} PROVE FALSE
  OBVIOUS
<1>2. PICK k \in Bad : \A j \in Bad : k <= j
  <2>1. Bad \in SUBSET Nat
    OBVIOUS
  <2> HIDE DEF Bad
  <2> QED BY <1>1, <2>1, LeastNode
<1>3. PICK T \in SUBSET (1 .. k) : ~Ordered(T)
  OBVIOUS
<1>4. k # 0
  <2> SUFFICES ASSUME k = 0 PROVE FALSE
    OBVIOUS
  <2>1. T = {} /\ Cardinality(T) = 0
    <3>1. \A x \in T : x \in 1 .. 0
      OBVIOUS
    <3>2. \A x : x \notin 1 .. 0
      OBVIOUS
    <3>3. T = {}
      BY <3>1, <3>2
    <3> QED BY <3>3, FS_EmptySet
  <2>2. << >> \in [1 .. 0 -> T]
    OBVIOUS
  <2>3. Rising(<< >>)
    BY DEF Rising
  <2> QED BY <1>3, <2>1, <2>2, <2>3 DEF Ordered
<1>5. k - 1 \in Nat /\ k - 1 < k /\ k - 1 \notin Bad
  <2>1. k \in Nat
    OBVIOUS
  <2>2. k - 1 \in Nat /\ ~(k <= k - 1)
    BY <1>4, <2>1
  <2> HIDE DEF Bad
  <2> QED BY <1>2, <2>1, <2>2
<1>6. T \ {k} \in SUBSET (1 .. k - 1)
  OBVIOUS
<1>7. Ordered(T \ {k})
  BY <1>5, <1>6
<1>8. k \in T
  <2> SUFFICES ASSUME k \notin T PROVE FALSE
    OBVIOUS
  <2>1. T \ {k} = T
    OBVIOUS
  <2> QED BY <1>3, <1>7, <2>1
<1> QED BY <1>3, <1>7, <1>8, OrderedByOne

\* The order lists every node of the set.
LEMMA InOrder ==
    ASSUME NEW n \in Nat, NEW S \in SUBSET (1 .. n)
    PROVE  /\ DOMAIN InTextOrder(S) = 1 .. Cardinality(S)
           /\ \A i \in DOMAIN InTextOrder(S) : InTextOrder(S)[i] \in S
           /\ \A x \in S : \E i \in DOMAIN InTextOrder(S) : InTextOrder(S)[i] = x
<1>1. PICK s : s = InTextOrder(S)
  OBVIOUS
<1>2. s \in [1 .. Cardinality(S) -> S] /\ Rising(s)
  BY <1>1, OrderExists DEF InTextOrder, Ordered, Rising
<1>3. IsFiniteSet(S) /\ Cardinality(S) \in Nat
  BY UpTo, FS_Subset, FS_CardinalityType
<1>4. ASSUME NEW i \in 1 .. Cardinality(S), NEW j \in 1 .. Cardinality(S), s[i] = s[j]
      PROVE  i = j
  <2>1. i \in Nat /\ j \in Nat /\ s[i] \in Nat /\ s[j] \in Nat
    <3>1. s[i] \in S /\ s[j] \in S
      BY <1>2
    <3>2. S \subseteq Nat
      OBVIOUS
    <3>3. i \in Nat /\ j \in Nat
      BY <1>3
    <3> QED BY <3>1, <3>2, <3>3
  <2>2. ~(i < j) /\ ~(j < i)
    BY <1>2, <1>4, <2>1 DEF Rising
  <2> QED BY <2>1, <2>2
<1>5. s \in Injection(1 .. Cardinality(S), S)
  BY <1>2, <1>4 DEF Injection, IsInjective
<1>6. Cardinality(1 .. Cardinality(S)) = Cardinality(S)
  BY <1>3, UpTo
<1>7. s \in Surjection(1 .. Cardinality(S), S)
  BY <1>3, <1>5, <1>6, FS_Injection
<1> QED BY <1>1, <1>2, <1>7 DEF Surjection
-----------------------------------------------------------------------------
(* The notes of a crate are those of its text.                             *)

SourceInv == source \in Sources /\ crate = source.crate /\ notes = source.notes

LEMMA SourceInvNext == SourceInv /\ [PlacedNext]_<<checkVars, source>> => SourceInv'
<1> SUFFICES ASSUME SourceInv, [PlacedNext]_<<checkVars, source>> PROVE SourceInv'
  OBVIOUS
<1>1. [CheckNext]_checkVars /\ source' = source
  BY DEF PlacedNext
<1>2. crate' = crate
  BY <1>1, CheckStepIsReachStep
     DEF vars, Next, EntryPanic, New, Skip, Visit, Pop, VisitTerminator, Insert, SortByPath
<1>3. notes' = notes
  BY <1>1
     DEF checkVars, ownVars, CheckNext, LoadToml, FindReachable, Crash, ReachPanicked,
         StartPartition, PartitionFn, PartitionCrash, StartCheck, CheckGoesOn, CheckCrash,
         CheckMissed, CheckUnjustified, CheckJustified, Return
<1> QED BY <1>1, <1>2, <1>3 DEF SourceInv

\* Each call rustc sees is a call of the body, with the site of its node.
LEMMA CallHasSite ==
    ASSUME SourceInv, NEW f \in Local, NEW t, t = source.trees[f], NEW n \in MirCalls(t)
    PROVE  \E i \in DOMAIN crate.body[f] :
              crate.body[f][i] = t[n].call /\ notes.sites[f][i] = SiteOf(t, n)
<1>1. IsTree(t) /\ crate.body[f] = BodyOf(t) /\ notes.sites[f] = SitesOf(t)
  BY PlacedAssumption DEF SourceInv, Described
<1>2. Len(t) \in Nat /\ MirCalls(t) \in SUBSET (1 .. Len(t))
  BY <1>1, TreeType DEF MirCalls
<1>3. PICK i \in DOMAIN CallNodes(t) : CallNodes(t)[i] = n
  BY <1>2, InOrder DEF CallNodes
<1> QED BY <1>1, <1>3 DEF BodyOf, SitesOf

\* Each dereference, in a closure or not, is an axiom of the function.
LEMMA OperandIsAxiom ==
    ASSUME SourceInv, NEW f \in Local, NEW t, t = source.trees[f], NEW n \in FindAxioms(t)
    PROVE  \E a \in DOMAIN notes.axioms[f] : notes.axioms[f][a] <=> CommentFor(t, n) # 0
<1>1. IsTree(t) /\ notes.axioms[f] = AxiomsOf(t)
  BY PlacedAssumption DEF SourceInv, Described
<1>2. Len(t) \in Nat /\ FindAxioms(t) \in SUBSET (1 .. Len(t))
  BY <1>1, TreeType DEF FindAxioms
<1> DEFINE axioms == InTextOrder(FindAxioms(t))
<1>3. PICK a \in DOMAIN axioms : axioms[a] = n
  BY <1>2, InOrder
<1>4. AxiomsOf(t) = [i \in DOMAIN axioms |-> CommentFor(t, axioms[i]) # 0]
  BY DEF AxiomsOf
<1> HIDE DEF axioms
<1> QED BY <1>1, <1>3, <1>4

\* In a function that passes, every dereference and every call that asks for a
\* comment has its own.
LEMMA NotFaultyIsJustified ==
    ASSUME SourceInv, InForce, NEW f \in Local, ~Faulty(notes, f), ~HasObligation(f),
           NEW t, t = source.trees[f], DistinctSpans(t), NEW n \in DOMAIN t
    PROVE  /\ t[n].operand => JustifiedIn(t, n, None)
           /\ DemandsComment(t, n, FALSE) => JustifiedIn(t, n, ObligationOf(t[n].call))
<1>1. IsTree(t) /\ n \in 1 .. Len(t) /\ Len(t) \in Nat
  BY PlacedAssumption, TreeType DEF SourceInv, Described
<1>2. /\ \A a \in DOMAIN notes.axioms[f] : notes.axioms[f][a]
      /\ \A i \in DOMAIN crate.body[f] : ~BadCall(notes, f, i)
  BY DEF Faulty, HasObligation, ObligationOf, InForce
<1>3. ASSUME t[n].operand PROVE JustifiedIn(t, n, None)
  <2>1. n \in FindAxioms(t)
    BY <1>3 DEF FindAxioms, FoundAxiom
  <2>2. PICK c : c = CommentFor(t, n)
    OBVIOUS
  <2>3. c # 0
    BY <1>2, <2>1, <2>2, OperandIsAxiom
  <2>4. c \in 1 .. n /\ Contains(t, c, n) /\ t[c].marked /\ (c = 1 => t[1].kind = "trait_item")
    BY <1>1, <2>2, <2>3, NearestComment
  <2> QED BY <2>4 DEF JustifiedIn, None
<1>4. ASSUME DemandsComment(t, n, FALSE) PROVE JustifiedIn(t, n, ObligationOf(t[n].call))
  <2>1. PICK g : g = t[n].call
    OBVIOUS
  <2>2. g \in Fns /\ g # 0 /\ ObligationOf(g) # None /\ ~InClosure(t, n)
    BY <1>4, <2>1 DEF DemandsComment, HasObligation
  <2>3. n \in MirCalls(t) /\ t[n].kind \in Exprs
    BY <1>1, <2>1, <2>2 DEF MirCalls, IsTree, Exprs
  <2>4. PICK i \in DOMAIN crate.body[f] :
           crate.body[f][i] = g /\ notes.sites[f][i] = SiteOf(t, n)
    BY <2>1, <2>3, CallHasSite
  <2>5. ObligationOf(g) = Obligation(notes, FromFile(notes), g)
    BY DEF ObligationOf, InForce
  <2>6. /\ SiteOf(t, n).comment
        /\ ObligationOf(g).kind = "conditions" => Unconsidered(ObligationOf(g), SiteOf(t, n)) = {}
    BY <1>2, <2>2, <2>4, <2>5 DEF BadCall
  <2>7. PICK c : c = CommentFor(t, n)
    OBVIOUS
  <2>8. FoundExpr(t, t[n].span) = n /\ n # 0
    BY <1>1, <2>2, <2>3, DistinctFound
  <2>9. c # 0 /\ SiteOf(t, n).covers = Considers(t, c)
    BY <2>6, <2>7, <2>8 DEF SiteOf
  <2>10. ObligationOf(g).kind = "conditions" =>
            Unconsidered(ObligationOf(g), [covers |-> Considers(t, c)]) = {}
    BY <2>6, <2>9 DEF Unconsidered
  <2>11. c \in 1 .. n /\ Contains(t, c, n) /\ t[c].marked /\ (c = 1 => t[1].kind = "trait_item")
    BY <1>1, <2>7, <2>9, NearestComment
  <2> QED BY <2>1, <2>10, <2>11 DEF JustifiedIn
<1> QED BY <1>3, <1>4

\* From text to verdict, for a crate of any size: when it passes, every
\* dereference and every call of a function with obligations, in the functions
\* reachable from the entry points, has a comment around it that considers what
\* is asked.
THEOREM TextJustifiesPass == PlacedSpec => []PassIsJustified
<1>1. PlacedInit => ReachInv /\ CheckInv /\ RestInv /\ SourceInv
  BY CheckInvInit, RestInvInit DEF PlacedInit, SourceInv
<1>2. [PlacedNext]_<<checkVars, source>> => [CheckNext]_checkVars
  BY DEF PlacedNext
<1>3. /\ ReachInv /\ CheckInv /\ RestInv /\ SourceInv
      /\ [PlacedNext]_<<checkVars, source>>
      => ReachInv' /\ CheckInv' /\ RestInv' /\ SourceInv'
  BY <1>2, CheckInvNext, RestInvNext, SourceInvNext
<1>4. ReachInv /\ CheckInv /\ RestInv /\ SourceInv => PassIsJustified
  <2> SUFFICES ASSUME ReachInv, CheckInv, RestInv, SourceInv, stage = "ok",
                      NEW f \in Analyzed(crate), NEW t, t = source.trees[f],
                      ~HasObligation(f), DistinctSpans(t), NEW n \in DOMAIN t
               PROVE  /\ t[n].operand => JustifiedIn(t, n, None)
                      /\ DemandsComment(t, n, FALSE) =>
                            JustifiedIn(t, n, ObligationOf(t[n].call))
    BY DEF PassIsJustified, AllJustified
  <2>1. f \in Local /\ InForce
    BY AnalyzedOrder DEF CheckInv
  <2>2. ~Faulty(notes, f)
    BY DEF CheckInv, RestInv, ReportExact
  <2> QED BY <2>1, <2>2, NotFaultyIsJustified
<1> QED BY <1>1, <1>3, <1>4, PTL DEF PlacedSpec
=============================================================================
