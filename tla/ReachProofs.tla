---------------------------- MODULE ReachProofs ----------------------------
(* Theorems about Reach.tla and Twice.tla, for every set of definitions and *)
(* every crate.                                                             *)
EXTENDS Twice, FiniteSetTheorems, WellFoundedInduction, TLAPS

LEMMA EntryPointsLocal ==
    ASSUME NEW c \in Crates PROVE EntryPoints(c) \subseteq Local
<1> QED BY DEF EntryPoints, AllLocalFnDefs, AllPubLocalFnDefs, AnnotatedLocalDefs,
              BodyOwners

LEMMA CrateFacts ==
    ASSUME NEW c \in Crates
    PROVE  /\ c.body \in [Local -> Seq(Fns \cup {NotFn})]
           /\ c.kind \in [Local -> Kinds]
           /\ \A f \in Local : ~HasTypeck(c, f) => c.body[f] = << >>
<1> QED BY CrateAssumption DEF CrateType, HasTypeck

\* The worklist is created with one item per entry point, none recording a call.
LEMMA EntryOrder ==
    ASSUME NEW c \in Crates, NEW s \in AnalysisEntryPoints(c)
    PROVE  /\ s \in Seq(EntryPoints(c))
           /\ \A f \in EntryPoints(c) : \E k \in DOMAIN s : s[k] = f
<1>1. IsFiniteSet(EntryPoints(c))
  BY EntryPointsLocal, FS_Subset, CrateAssumption
<1>2. Cardinality(EntryPoints(c)) \in Nat
  BY <1>1, FS_CardinalityType
<1> QED BY <1>2 DEF AnalysisEntryPoints, Orderings
-----------------------------------------------------------------------------
(* Type correctness.                                                       *)

LEMMA ExtendedType ==
    ASSUME NEW item \in Item, NEW g \in Local, NEW i \in Nat
    PROVE  ExtendedTo(item, g, i) \in Item
<1> QED BY DEF ExtendedTo, Item

LEMMA TypeInit == Init => TypeOK
<1> QED BY DEF Init, TypeOK, NoItem, NoCalls

LEMMA TypeNext == TypeOK /\ [Next]_vars => TypeOK'
<1> SUFFICES ASSUME TypeOK, [Next]_vars PROVE TypeOK'
  OBVIOUS
<1> USE DEF TypeOK
<1>1. CASE EntryPanic
  BY <1>1 DEF EntryPanic
<1>2. CASE New
  <2>1. PICK entry \in AnalysisEntryPoints(crate) :
           to_visit' = [k \in DOMAIN entry |-> [reach |-> entry[k], through |-> << >>]]
    BY <1>2 DEF New
  <2>2. entry \in Seq(Local)
    BY EntryOrder, EntryPointsLocal
  <2>3. to_visit' \in Seq(Item)
    <3>1. \A k \in DOMAIN entry : [reach |-> entry[k], through |-> << >>] \in Item
      BY <2>2 DEF Item
    <3>2. DOMAIN entry = 1 .. Len(entry) /\ Len(entry) \in Nat
      BY <2>2
    <3> QED BY <2>1, <3>1, <3>2
  <2> QED BY <1>2, <2>3 DEF New
<1>3. CASE Skip
  <2>1. d' \in Item /\ to_visit' \in Seq(Item)
    BY <1>3 DEF Skip, Pop
  <2> QED BY <1>3, <2>1 DEF Skip, Pop
<1>4. CASE Visit
  <2>1. d' \in Item /\ to_visit' \in Seq(Item)
    BY <1>4 DEF Visit, Pop
  <2>2. calls_to' \in [Fns -> Seq(Nat)]
    BY <1>4 DEF Visit, NoCalls
  <2> QED BY <1>4, <2>1, <2>2 DEF Visit, Pop
<1>5. CASE VisitTerminator
  <2>1. d \in Item /\ pos' \in Nat
    BY <1>5 DEF VisitTerminator
  <2>2. to_visit' \in Seq(Item)
    BY <1>5, <2>1, ExtendedType DEF VisitTerminator
  <2>3. calls_to' \in [Fns -> Seq(Nat)]
    BY <1>5, <2>1 DEF VisitTerminator
  <2>4. all_reachable' \in [Extern -> Seq(Local \X Nat)]
    BY <1>5, <2>1 DEF VisitTerminator, Item
  <2> QED BY <1>5, <2>1, <2>2, <2>3, <2>4 DEF VisitTerminator
<1>6. CASE Insert
  <2>1. d \in Item
    BY <1>6 DEF Insert
  <2>2. [through |-> d.through, calls_to |-> calls_to] \in Visited
    BY <2>1 DEF Item, Visited
  <2>3. /\ DOMAIN locally_reachable' \subseteq Local
        /\ locally_reachable' \in [DOMAIN locally_reachable' -> Visited]
    BY <1>6, <2>1, <2>2 DEF Insert, Item
  <2> QED BY <1>6, <2>1, <2>3 DEF Insert
<1>7. CASE SortByPath
  <2>1. IsFiniteSet(DOMAIN locally_reachable)
    BY FS_Subset, CrateAssumption
  <2>2. Cardinality(DOMAIN locally_reachable) \in Nat
    BY <2>1, FS_CardinalityType
  <2>3. order' \in Seq(Local)
    <3>1. PICK S, n : S = DOMAIN locally_reachable /\ n = Cardinality(S)
      OBVIOUS
    <3>2. order' \in [1 .. n -> S]
      BY <1>7, <3>1 DEF SortByPath, Orderings
    <3>3. n \in Nat /\ S \subseteq Local
      BY <2>2, <3>1
    <3> QED BY <3>2, <3>3
  <2> QED BY <1>7, <2>3 DEF SortByPath
<1>8. CASE UNCHANGED vars
  BY <1>8 DEF vars
<1> QED BY <1>1, <1>2, <1>3, <1>4, <1>5, <1>6, <1>7, <1>8 DEF Next

\* Every variable keeps its type in every behaviour.
THEOREM TypeCorrect == Spec => []TypeOK
<1> QED BY TypeInit, TypeNext, PTL DEF Spec
-----------------------------------------------------------------------------
(* The search visits exactly what is reachable.                            *)

LEMMA HeadAndTail ==
    ASSUME NEW S, NEW q \in Seq(S), q # << >>
    PROVE  /\ Head(q) = q[1] /\ 1 \in DOMAIN q
           /\ Tail(q) \in Seq(S) /\ Len(Tail(q)) = Len(q) - 1
           /\ \A k \in DOMAIN q : k # 1 => k - 1 \in DOMAIN Tail(q) /\ Tail(q)[k - 1] = q[k]
           /\ \A k \in DOMAIN Tail(q) : k + 1 \in DOMAIN q /\ Tail(q)[k] = q[k + 1]
<1> QED OBVIOUS

LEMMA Appended ==
    ASSUME NEW S, NEW q \in Seq(S), NEW x \in S
    PROVE  /\ \A k \in DOMAIN q : k \in DOMAIN Append(q, x) /\ Append(q, x)[k] = q[k]
           /\ \A k \in DOMAIN Append(q, x) : k \in DOMAIN q \/ k = Len(q) + 1
           /\ Len(q) + 1 \in DOMAIN Append(q, x) /\ Append(q, x)[Len(q) + 1] = x
<1> QED OBVIOUS

LEMMA ReachableEntry ==
    ASSUME NEW c \in Crates, NEW f \in EntryPoints(c)
    PROVE  f \in Reachable(c)
<1> QED BY EntryPointsLocal DEF Reachable, Closed

LEMMA ReachableCallee ==
    ASSUME NEW c \in Crates, NEW f \in Reachable(c),
           NEW i \in DOMAIN c.body[f], c.body[f][i] \in Local
    PROVE  c.body[f][i] \in Reachable(c)
<1> QED BY DEF Reachable, Closed

\* Everything reachable with a body is in any set closed under calls once the
\* functions without a body, which call nothing, are added to it.
LEMMA ClosedCoversAnalyzed ==
    ASSUME NEW c \in Crates, NEW S \in SUBSET Local,
           \A f \in EntryPoints(c) : HasTypeck(c, f) => f \in S,
           \A f \in S : \A i \in DOMAIN c.body[f] :
              /\ c.body[f][i] \in Local
              /\ HasTypeck(c, c.body[f][i])
              => c.body[f][i] \in S
    PROVE  Analyzed(c) \subseteq S
<1> DEFINE T == S \cup {f \in Local : ~HasTypeck(c, f)}
<1>1. T \in SUBSET Local
  OBVIOUS
<1>2. Closed(c, T)
  BY EntryPointsLocal, CrateFacts DEF Closed
<1>3. Reachable(c) \subseteq T
  BY <1>1, <1>2 DEF Reachable
<1> QED BY <1>3 DEF Analyzed
\* Taking the first item off the queue leaves every other one in it.
LEMMA PopKeeps ==
    ASSUME TypeOK, Pop
    PROVE  /\ d' = to_visit[1] /\ 1 \in DOMAIN to_visit /\ d' \in Item
           /\ to_visit' \in Seq(Item)
           /\ \A k \in DOMAIN to_visit :
                 k # 1 => k - 1 \in DOMAIN to_visit' /\ to_visit'[k - 1] = to_visit[k]
           /\ \A k \in DOMAIN to_visit' :
                 k + 1 \in DOMAIN to_visit /\ to_visit'[k] = to_visit[k + 1]
           /\ Len(to_visit') = Len(to_visit) - 1
<1>1. to_visit \in Seq(Item) /\ to_visit # << >>
  BY DEF TypeOK, Pop
<1> QED BY <1>1, HeadAndTail DEF Pop

LEMMA SearchInit == Init => SearchInv
<1> QED BY DEF Init, SearchInv, NothingLost, WithinReach, IdleOutsideLoop

LEMMA SearchNext == TypeOK /\ SearchInv /\ [Next]_vars => SearchInv'
<1> SUFFICES ASSUME TypeOK, SearchInv, [Next]_vars PROVE SearchInv'
  OBVIOUS
<1>c. crate \in Crates /\ crate' = crate
  BY DEF TypeOK, Next, vars, EntryPanic, New, Skip, Visit, Pop, VisitTerminator,
         Insert, SortByPath
<1>1. CASE EntryPanic
  BY <1>1, <1>c DEF EntryPanic, SearchInv, NothingLost, WithinReach, IdleOutsideLoop
<1>2. CASE New
  <2>1. PICK entry \in AnalysisEntryPoints(crate) :
           to_visit' = [k \in DOMAIN entry |-> [reach |-> entry[k], through |-> << >>]]
    BY <1>2 DEF New
  <2>2. /\ locally_reachable' = << >> /\ locally_reachable = << >> /\ pc' = "loop"
    BY <1>2 DEF New, SearchInv, IdleOutsideLoop
  <2>3. /\ entry \in Seq(EntryPoints(crate))
        /\ \A f \in EntryPoints(crate) : \E k \in DOMAIN entry : entry[k] = f
    BY <1>c, EntryOrder
  <2>4. NothingLost'
    <3>1. \A f \in EntryPoints(crate) : \E k \in DOMAIN to_visit' : to_visit'[k].reach = f
      BY <2>1, <2>3
    <3>2. \A f \in Local : Passed(f)' = {}
      BY <2>2 DEF Passed
    <3> QED BY <1>c, <3>1, <3>2 DEF NothingLost, Accounted
  <2>5. WithinReach'
    BY <1>c, <2>1, <2>2, <2>3, ReachableEntry DEF WithinReach
  <2> QED BY <2>2, <2>4, <2>5 DEF SearchInv, IdleOutsideLoop
<1>3. CASE Skip
  <2>1. Pop /\ pc = "loop" /\ pc' = "loop" /\ locally_reachable' = locally_reachable
    BY <1>3 DEF Skip, Pop
  <2>2. NothingLost'
    <3>1. \A f \in Local : Accounted(f) => Accounted(f)'
      <4>1. d'.reach \in DOMAIN locally_reachable \/ ~HasTypeck(crate, d'.reach)
        BY <1>3 DEF Skip
      <4> QED BY <1>c, <2>1, <4>1, PopKeeps DEF Accounted
    <3>2. \A f \in Local : Passed(f)' = Passed(f)
      BY <1>c, <2>1 DEF Passed
    <3> QED BY <1>c, <2>1, <3>1, <3>2, EntryPointsLocal DEF SearchInv, NothingLost
  <2>3. WithinReach'
    BY <1>c, <2>1, PopKeeps DEF SearchInv, WithinReach
  <2> QED BY <2>1, <2>2, <2>3 DEF SearchInv, IdleOutsideLoop
<1>4. CASE Visit
  <2>1. /\ Pop /\ pc = "loop" /\ pc' = "body" /\ pos' = 0
        /\ locally_reachable' = locally_reachable
        /\ d'.reach \notin DOMAIN locally_reachable /\ HasTypeck(crate, d'.reach)
    BY <1>4 DEF Visit, Pop
  <2>2. NothingLost'
    <3>1. \A f \in Local : Accounted(f) => Accounted(f)'
      BY <1>c, <2>1, PopKeeps DEF Accounted
    <3>2. \A f \in Local : Passed(f)' = Passed(f)
      BY <1>c, <2>1 DEF Passed
    <3> QED BY <1>c, <2>1, <3>1, <3>2, EntryPointsLocal DEF SearchInv, NothingLost
  <2>3. WithinReach'
    <3>1. d'.reach \in Analyzed(crate)
      BY <2>1, PopKeeps DEF SearchInv, WithinReach, Analyzed
    <3>2. pos' <= Len(crate.body[d'.reach])
      BY <1>c, <2>1, CrateFacts, PopKeeps DEF Item
    <3> QED BY <1>c, <2>1, <3>1, <3>2, PopKeeps DEF SearchInv, WithinReach, Body
  <2> QED BY <2>1, <2>2, <2>3 DEF SearchInv, IdleOutsideLoop
<1>5. CASE VisitTerminator
  <2>1. /\ pc = "body" /\ pc' = "body" /\ d' = d /\ d \in Item /\ d.reach \in Local
        /\ locally_reachable' = locally_reachable
        /\ pos \in Nat /\ pos' = pos + 1 /\ pos < Len(Body)
        /\ to_visit \in Seq(Item)
    BY <1>5 DEF VisitTerminator, TypeOK, Item
  <2>2. Body \in Seq(Fns \cup {NotFn}) /\ pos' \in DOMAIN Body /\ Body' = Body
    BY <1>c, <2>1, CrateFacts DEF Body
  <2>g. PICK g : g = Body[pos']
    OBVIOUS
  <2>3. /\ g \in Local => to_visit' = Append(to_visit, ExtendedTo(d, g, pos'))
        /\ g \notin Local => to_visit' = to_visit
    BY <1>5, <2>g DEF VisitTerminator
  <2>4. g \in Local =>
           /\ ExtendedTo(d, g, pos') \in Item
           /\ ExtendedTo(d, g, pos').reach = g
    <3>1. pos' \in Nat
      BY <2>1
    <3>2. g \in Local => ExtendedTo(d, g, pos') \in Item
      BY <2>1, <3>1, ExtendedType
    <3> QED BY <3>2 DEF ExtendedTo
  <2>5. NothingLost'
    <3>1. \A f \in Local : Accounted(f) => Accounted(f)'
      BY <1>c, <2>1, <2>3, <2>4, Appended DEF Accounted
    <3>2. g \in Local => Accounted(g)'
      BY <1>c, <2>1, <2>3, <2>4, Appended DEF Accounted
    <3>3. \A f \in Local : \A i \in Passed(f)' :
             i \in Passed(f) \/ (f = d.reach /\ i = pos + 1)
      BY <1>c, <2>1 DEF Passed
    <3>4. \A f \in Local : \A i \in Passed(f)' :
             crate.body[f][i] \in Local => Accounted(crate.body[f][i])'
      BY <1>c, <2>1, <2>g, <3>1, <3>2, <3>3 DEF SearchInv, NothingLost, Body
    <3> QED BY <1>c, <2>1, <3>1, <3>4, EntryPointsLocal DEF SearchInv, NothingLost
  <2>6. WithinReach'
    <3>1. g \in Local => g \in Reachable(crate)
      BY <1>c, <2>1, <2>2, <2>g, ReachableCallee DEF SearchInv, WithinReach, Analyzed, Body
    <3>2. \A k \in DOMAIN to_visit' : to_visit'[k].reach \in Reachable(crate)
      BY <2>1, <2>3, <2>4, <3>1, Appended DEF SearchInv, WithinReach
    <3>3. pos' <= Len(Body)'
      BY <2>1, <2>2
    <3> QED BY <1>c, <2>1, <3>2, <3>3 DEF SearchInv, WithinReach
  <2> QED BY <2>1, <2>5, <2>6 DEF SearchInv, IdleOutsideLoop
<1>6. CASE Insert
  <2>1. /\ pc = "body" /\ pc' = "loop" /\ to_visit' = to_visit /\ d' = d
        /\ pos = Len(Body) /\ d \in Item /\ d.reach \in Local
        /\ DOMAIN locally_reachable' = DOMAIN locally_reachable \cup {d.reach}
    BY <1>6 DEF Insert, TypeOK, Item
  <2>2. DOMAIN Body = 1 .. pos
    BY <1>c, <2>1, CrateFacts DEF Body
  <2>3. NothingLost'
    <3>1. \A f \in Local : Accounted(f) => Accounted(f)'
      BY <1>c, <2>1 DEF Accounted
    <3>2. \A f \in Local : Passed(f)' = Passed(f)
      BY <1>c, <2>1, <2>2 DEF Passed, Body, SearchInv, WithinReach
    <3> QED BY <1>c, <2>1, <3>1, <3>2, EntryPointsLocal DEF SearchInv, NothingLost
  <2>4. WithinReach'
    BY <1>c, <2>1 DEF SearchInv, WithinReach
  <2> QED BY <2>1, <2>3, <2>4 DEF SearchInv, IdleOutsideLoop
<1>7. CASE SortByPath
  <2>1. /\ pc = "loop" /\ pc' = "done" /\ to_visit' = to_visit /\ to_visit = << >>
        /\ d' = d /\ locally_reachable' = locally_reachable
    BY <1>7 DEF SortByPath
  <2>2. \A f \in Local : (Accounted(f) => Accounted(f)') /\ Passed(f)' = Passed(f)
    BY <1>c, <2>1 DEF Accounted, Passed
  <2>3. NothingLost'
    BY <1>c, <2>1, <2>2, EntryPointsLocal DEF SearchInv, NothingLost
  <2> QED BY <1>c, <2>1, <2>3 DEF SearchInv, WithinReach, IdleOutsideLoop
<1>8. CASE UNCHANGED vars
  BY <1>8 DEF vars, SearchInv, NothingLost, WithinReach, IdleOutsideLoop, Accounted,
              Passed, Body
<1> QED BY <1>1, <1>2, <1>3, <1>4, <1>5, <1>6, <1>7, <1>8 DEF Next

\* The loop invariant of the search holds for every crate.
THEOREM SearchInvariant == Spec => []SearchInv
<1>1. Init => TypeOK /\ SearchInv
  BY TypeInit, SearchInit
<1>2. TypeOK /\ SearchInv /\ [Next]_vars => TypeOK' /\ SearchInv'
  BY TypeNext, SearchNext
<1> QED BY <1>1, <1>2, PTL DEF Spec

LEMMA DoneVisited == TypeOK /\ SearchInv => VisitedExactly
<1> SUFFICES ASSUME TypeOK, SearchInv, pc = "done"
             PROVE  DOMAIN locally_reachable = Analyzed(crate)
  BY DEF VisitedExactly
<1> DEFINE S == DOMAIN locally_reachable
<1>1. S \in SUBSET Local /\ crate \in Crates
  BY DEF TypeOK
<1>2. \A f \in Local : Accounted(f) => f \in S \/ ~HasTypeck(crate, f)
  BY DEF SearchInv, IdleOutsideLoop, Accounted
<1>3. \A f \in EntryPoints(crate) : HasTypeck(crate, f) => f \in S
  BY <1>1, <1>2, EntryPointsLocal DEF SearchInv, NothingLost
<1>4. \A f \in S : \A i \in DOMAIN crate.body[f] :
         crate.body[f][i] \in Local /\ HasTypeck(crate, crate.body[f][i])
         => crate.body[f][i] \in S
  BY <1>1, <1>2 DEF SearchInv, NothingLost, Passed
<1>5. Analyzed(crate) \subseteq S
  BY <1>1, <1>3, <1>4, ClosedCoversAnalyzed
<1> QED BY <1>5 DEF SearchInv, WithinReach

\* When the analysis returns, the visited functions are exactly those with a
\* body that the entry points reach by local calls.
THEOREM VisitedExactlyReachable == Spec => []VisitedExactly
<1> QED BY DoneVisited, TypeCorrect, SearchInvariant, PTL
-----------------------------------------------------------------------------
(* The recorded chains are real.                                           *)

LEMMA ExtendCallPath ==
    ASSUME NEW c \in Crates, NEW f \in Local, NEW p \in Seq(Local \X Nat),
           IsCallPath(c, p, f), NEW i \in DOMAIN c.body[f]
    PROVE  IsCallPath(c, Append(p, <<f, i>>), c.body[f][i])
<1>1. i \in Nat
  BY CrateFacts
<1> DEFINE q == Append(p, <<f, i>>)
<1>2. /\ q \in Seq(Local \X Nat) /\ q # << >> /\ Len(q) = Len(p) + 1
      /\ q[Len(q)] = <<f, i>> /\ \A k \in 1 .. Len(p) : q[k] = p[k]
  BY <1>1
<1>3. Callee(c, q[Len(q)]) = c.body[f][i] /\ q[Len(q)] \in Calls(c)
  BY <1>2 DEF Callee, Calls
<1>4. CASE p = << >>
  <2>1. f \in EntryPoints(c) /\ Len(p) = 0
    BY <1>4 DEF IsCallPath
  <2>2. \A k \in DOMAIN q : q[k] \in Calls(c)
    BY <1>2, <1>3, <2>1
  <2> QED BY <1>2, <1>3, <2>1, <2>2 DEF IsCallPath
<1>5. CASE p # << >>
  <2>1. /\ p[1][1] \in EntryPoints(c) /\ Callee(c, p[Len(p)]) = f
        /\ \A k \in 1 .. Len(p) - 1 : Callee(c, p[k]) = p[k + 1][1]
        /\ \A k \in 1 .. Len(p) : p[k] \in Calls(c)
    BY <1>5 DEF IsCallPath
  <2>2. Len(p) \in Nat /\ Len(p) >= 1
    BY <1>5
  <2>5. \A k \in DOMAIN q : q[k] \in Calls(c)
    <3> SUFFICES ASSUME NEW k \in DOMAIN q PROVE q[k] \in Calls(c)
      OBVIOUS
    <3>1. k \in 1 .. Len(p) \/ k = Len(q)
      BY <1>2, <2>2
    <3> QED BY <1>2, <1>3, <2>1, <3>1
  <2>3. q[1][1] \in EntryPoints(c)
    BY <1>2, <2>1, <2>2
  <2>4. \A k \in 1 .. Len(q) - 1 : Callee(c, q[k]) = q[k + 1][1]
    <3> SUFFICES ASSUME NEW k \in 1 .. Len(p) PROVE Callee(c, q[k]) = q[k + 1][1]
      BY <1>2, <2>2
    <3>1. CASE k = Len(p)
      BY <1>2, <2>1, <2>2, <3>1 DEF Callee
    <3>2. CASE k < Len(p)
      <4>1. k \in 1 .. Len(p) - 1 /\ k + 1 \in 1 .. Len(p)
        BY <2>2, <3>2
      <4> QED BY <1>2, <2>1, <4>1
    <3> QED BY <2>2, <3>1, <3>2
  <2> QED BY <1>2, <1>3, <2>3, <2>4, <2>5 DEF IsCallPath
<1> QED BY <1>4, <1>5

LEMMA PathInit == Init => PathInv
<1> QED BY DEF Init, PathInv, ThroughIsCallPath

LEMMA PathNext == TypeOK /\ SearchInv /\ PathInv /\ [Next]_vars => PathInv'
<1> SUFFICES ASSUME TypeOK, SearchInv, PathInv, [Next]_vars PROVE PathInv'
  OBVIOUS
<1>c. crate \in Crates /\ crate' = crate
  BY DEF TypeOK, Next, vars, EntryPanic, New, Skip, Visit, Pop, VisitTerminator,
         Insert, SortByPath
<1>1. CASE EntryPanic
  BY <1>1, <1>c DEF EntryPanic, PathInv, ThroughIsCallPath
<1>2. CASE New
  <2>1. PICK entry \in AnalysisEntryPoints(crate) :
           to_visit' = [k \in DOMAIN entry |-> [reach |-> entry[k], through |-> << >>]]
    BY <1>2 DEF New
  <2>2. entry \in Seq(EntryPoints(crate))
    BY <1>c, EntryOrder
  <2>3. \A k \in DOMAIN to_visit' :
           IsCallPath(crate, to_visit'[k].through, to_visit'[k].reach)
    BY <2>1, <2>2 DEF IsCallPath
  <2> QED BY <1>2, <1>c, <2>3 DEF New, PathInv, ThroughIsCallPath
<1>3. CASE Skip
  BY <1>3, <1>c, PopKeeps DEF Skip, Pop, PathInv, ThroughIsCallPath
<1>4. CASE Visit
  BY <1>4, <1>c, PopKeeps DEF Visit, Pop, PathInv, ThroughIsCallPath
<1>5. CASE VisitTerminator
  <2>1. /\ pc = "body" /\ pc' = "body" /\ d' = d /\ d \in Item
        /\ d.reach \in Local /\ d.through \in Seq(Local \X Nat)
        /\ locally_reachable' = locally_reachable
        /\ pos \in Nat /\ pos' = pos + 1 /\ pos < Len(Body)
        /\ to_visit \in Seq(Item)
    BY <1>5 DEF VisitTerminator, TypeOK, Item
  <2>2. Body \in Seq(Fns \cup {NotFn}) /\ pos' \in DOMAIN Body
    BY <1>c, <2>1, CrateFacts DEF Body
  <2>3. CASE Body[pos'] \notin Local
    BY <1>5, <1>c, <2>1, <2>3 DEF VisitTerminator, PathInv, ThroughIsCallPath
  <2>4. CASE Body[pos'] \in Local
    <3> DEFINE item == ExtendedTo(d, Body[pos'], pos')
    <3>1. to_visit' = Append(to_visit, item)
      BY <1>5, <2>4 DEF VisitTerminator
    <3>2. item \in Item
      <4>1. pos' \in Nat
        BY <2>1
      <4> QED BY <2>1, <2>4, <4>1, ExtendedType
    <3>3. IsCallPath(crate, d.through, d.reach)
      BY <2>1 DEF PathInv
    <3>4. IsCallPath(crate, item.through, item.reach)
      <4>1. IsCallPath(crate, Append(d.through, <<d.reach, pos'>>), Body[pos'])
        BY <1>c, <2>1, <2>2, <3>3, ExtendCallPath DEF Body
      <4> QED BY <4>1 DEF ExtendedTo
    <3>5. \A k \in DOMAIN to_visit' :
             IsCallPath(crate, to_visit'[k].through, to_visit'[k].reach)
      <4> HIDE DEF item
      <4> QED BY <2>1, <3>1, <3>2, <3>4, Appended DEF PathInv
    <3> QED BY <1>c, <2>1, <3>3, <3>5 DEF PathInv, ThroughIsCallPath
  <2> QED BY <2>3, <2>4
<1>6. CASE Insert
  <2>1. \A f \in DOMAIN locally_reachable' :
           IF f = d.reach THEN locally_reachable'[f].through = d.through
           ELSE f \in DOMAIN locally_reachable /\ locally_reachable'[f] = locally_reachable[f]
    BY <1>6 DEF Insert
  <2> QED BY <1>6, <1>c, <2>1 DEF Insert, PathInv, ThroughIsCallPath
<1>7. CASE SortByPath
  BY <1>7, <1>c DEF SortByPath, PathInv, ThroughIsCallPath
<1>8. CASE UNCHANGED vars
  BY <1>8 DEF vars, PathInv, ThroughIsCallPath
<1> QED BY <1>1, <1>2, <1>3, <1>4, <1>5, <1>6, <1>7, <1>8 DEF Next

\* Every chain held by the worklist, and so every chain an error message
\* prints, is a chain of real calls from an entry point.
THEOREM PathsAreReal == Spec => []PathInv
<1>1. Init => TypeOK /\ SearchInv /\ PathInv
  BY TypeInit, SearchInit, PathInit
<1>2. TypeOK /\ SearchInv /\ PathInv /\ [Next]_vars => TypeOK' /\ SearchInv' /\ PathInv'
  BY TypeNext, SearchNext, PathNext
<1> QED BY <1>1, <1>2, PTL DEF Spec
-----------------------------------------------------------------------------
(* The recorded chains are the shortest.                                   *)

LEMMA LeastNat ==
    ASSUME NEW T \in SUBSET Nat, T # {}
    PROVE  \E m \in T : \A k \in T : m <= k
<1> DEFINE R == {ss \in Nat \X Nat : ss[1] < ss[2]}
<1>1. IsWellFoundedOn(R, Nat)
  BY NatLessThanWellFounded, Zenon DEF OpToRel
<1>2. PICK m \in T : \A k \in T : ~(<<k, m>> \in R)
  <2> HIDE DEF R
  <2> QED BY <1>1, WFMin
<1>3. \A x, y \in Nat : x < y => <<x, y>> \in R
  OBVIOUS
<1>4. \A x \in T : x \in Nat
  OBVIOUS
<1> HIDE DEF R
<1>5. \A k \in T : ~(k < m)
  BY <1>2, <1>3, <1>4
<1> QED BY <1>4, <1>5

LEMMA DepthInit == Init => DepthInv
<1> QED BY DEF Init, DepthInv, NoItem, Depth

LEMMA DepthType ==
    ASSUME TypeOK
    PROVE  /\ \A k \in DOMAIN to_visit : Depth(to_visit[k]) \in Nat
           /\ Depth(d) \in Nat
           /\ \A f \in DOMAIN locally_reachable : Depth(locally_reachable[f]) \in Nat
<1>1. \A item \in Item \cup {NoItem} : Depth(item) \in Nat
  BY DEF Item, NoItem, Depth
<1>2. \A v \in Visited : Depth(v) \in Nat
  BY DEF Visited, Depth
<1> QED BY <1>1, <1>2 DEF TypeOK

\* Popping the queue keeps its order: the popped item is as deep as what was
\* popped before it or one call deeper, and no deeper than what is left.
LEMMA PopDepths ==
    ASSUME TypeOK, DepthInv, Pop
    PROVE  /\ Depth(d)' \in Nat /\ Depth(d) <= Depth(d)'
           /\ \A k \in DOMAIN to_visit' : Depth(to_visit'[k]) \in Nat
           /\ \A j, k \in DOMAIN to_visit' :
                 j < k => Depth(to_visit'[j]) <= Depth(to_visit'[k])
           /\ \A k \in DOMAIN to_visit' :
                 Depth(d)' <= Depth(to_visit'[k]) /\ Depth(to_visit'[k]) <= Depth(d)' + 1
           /\ \A g, n : (\E k \in DOMAIN to_visit :
                               to_visit[k].reach = g /\ Depth(to_visit[k]) <= n)
                       => \/ g = d'.reach /\ Depth(d)' <= n
                          \/ \E k \in DOMAIN to_visit' :
                                to_visit'[k].reach = g /\ Depth(to_visit'[k]) <= n
<1>1. /\ d' = to_visit[1] /\ 1 \in DOMAIN to_visit
      /\ to_visit \in Seq(Item) /\ to_visit' \in Seq(Item)
      /\ \A k \in DOMAIN to_visit :
            k # 1 => k - 1 \in DOMAIN to_visit' /\ to_visit'[k - 1] = to_visit[k]
      /\ \A k \in DOMAIN to_visit' :
            k + 1 \in DOMAIN to_visit /\ to_visit'[k] = to_visit[k + 1]
  BY PopKeeps DEF TypeOK
<1>2. Depth(d)' = Depth(to_visit[1])
  BY <1>1 DEF Depth
<1>3. \A k \in DOMAIN to_visit : k \in Nat /\ 1 <= k /\ Depth(to_visit[k]) \in Nat
  BY <1>1, DepthType
<1>4. \A k \in DOMAIN to_visit' : k \in Nat /\ 1 <= k
  BY <1>1
<1>5. Depth(d) \in Nat
  BY DepthType
<1>6. \A j, k \in DOMAIN to_visit : j < k => Depth(to_visit[j]) <= Depth(to_visit[k])
  BY DEF DepthInv
<1>7. \A k \in DOMAIN to_visit :
         Depth(d) <= Depth(to_visit[k]) /\ Depth(to_visit[k]) <= Depth(d) + 1
  BY DEF DepthInv
<1>8. \A j, k \in DOMAIN to_visit' : j < k => Depth(to_visit'[j]) <= Depth(to_visit'[k])
  BY <1>1, <1>4, <1>6
<1>9. \A k \in DOMAIN to_visit' :
         Depth(d)' <= Depth(to_visit'[k]) /\ Depth(to_visit'[k]) <= Depth(d)' + 1
  <2> SUFFICES ASSUME NEW k \in DOMAIN to_visit'
               PROVE  /\ Depth(d)' <= Depth(to_visit'[k])
                      /\ Depth(to_visit'[k]) <= Depth(d)' + 1
    OBVIOUS
  <2>1. k + 1 \in DOMAIN to_visit /\ to_visit'[k] = to_visit[k + 1] /\ 1 < k + 1
    BY <1>1, <1>4
  <2>2. Depth(to_visit[1]) <= Depth(to_visit[k + 1])
    BY <1>1, <1>6, <2>1
  <2>3. Depth(to_visit[k + 1]) <= Depth(to_visit[1]) + 1
    BY <1>1, <1>3, <1>5, <1>7, <2>1
  <2> QED BY <1>2, <2>1, <2>2, <2>3
<1> QED BY <1>1, <1>2, <1>3, <1>4, <1>7, <1>8, <1>9

LEMMA DepthNext == TypeOK /\ SearchInv /\ DepthInv /\ [Next]_vars => DepthInv'
<1> SUFFICES ASSUME TypeOK, SearchInv, DepthInv, [Next]_vars PROVE DepthInv'
  OBVIOUS
<1>c. crate \in Crates /\ crate' = crate
  BY DEF TypeOK, Next, vars, EntryPanic, New, Skip, Visit, Pop, VisitTerminator,
         Insert, SortByPath
<1>1. CASE EntryPanic
  <2>1. to_visit' = to_visit /\ to_visit = << >> /\ d' = d /\ pc' = "panicked"
        /\ locally_reachable' = locally_reachable /\ locally_reachable = << >>
    BY <1>1 DEF EntryPanic, SearchInv, IdleOutsideLoop
  <2> QED BY <2>1 DEF DepthInv
<1>2. CASE New
  <2>1. PICK entry \in AnalysisEntryPoints(crate) :
           to_visit' = [k \in DOMAIN entry |-> [reach |-> entry[k], through |-> << >>]]
    BY <1>2 DEF New
  <2>2. /\ entry \in Seq(EntryPoints(crate))
        /\ \A f \in EntryPoints(crate) : \E k \in DOMAIN entry : entry[k] = f
    BY <1>c, EntryOrder
  <2>3. \A k \in DOMAIN to_visit' : Depth(to_visit'[k]) = 0
    BY <2>1 DEF Depth
  <2>4. d' = d /\ pc' = "loop" /\ locally_reachable' = << >>
    BY <1>2 DEF New, SearchInv, IdleOutsideLoop
  <2>5. Depth(d)' = 0
    <3>1. d = NoItem
      BY <1>2 DEF New, SearchInv, IdleOutsideLoop
    <3> QED BY <2>4, <3>1 DEF Depth, NoItem
  <2>6. \A f \in EntryPoints(crate) : ReachedWithin(f, 0)'
    <3>1. \A f \in EntryPoints(crate) : \E k \in DOMAIN to_visit' :
             to_visit'[k].reach = f /\ Depth(to_visit'[k]) <= 0
      BY <2>1, <2>2, <2>3
    <3> QED BY <3>1 DEF ReachedWithin, Depth
  <2> QED BY <1>c, <2>3, <2>4, <2>5, <2>6 DEF DepthInv, Depth
<1>3. CASE Skip
  <2>1. /\ Pop /\ pc = "loop" /\ pc' = "loop" /\ locally_reachable' = locally_reachable
        /\ d'.reach \in DOMAIN locally_reachable \/ ~HasTypeck(crate, d'.reach)
    BY <1>3 DEF Skip, Pop
  <2>2. ASSUME NEW g \in Local, NEW n \in Nat, ReachedWithin(g, n)
        PROVE  ReachedWithin(g, n)'
    <3>1. CASE \E k \in DOMAIN to_visit :
                  to_visit[k].reach = g /\ Depth(to_visit[k]) <= n
      <4>1. CASE g = d'.reach /\ Depth(d)' <= n
        <5>1. CASE g \in DOMAIN locally_reachable
          <6>1. Depth(locally_reachable[g]) <= Depth(d) /\ Depth(d) <= Depth(d)'
            BY <2>1, <5>1, PopDepths DEF DepthInv
          <6>2. Depth(locally_reachable[g]) <= n
            BY <2>1, <4>1, <5>1, <6>1, PopDepths, DepthType
          <6> QED BY <2>1, <5>1, <6>2 DEF ReachedWithin
        <5>2. CASE ~HasTypeck(crate, g)
          BY <1>c, <5>2 DEF ReachedWithin
        <5> QED BY <2>1, <4>1, <5>1, <5>2
      <4>2. CASE \E k \in DOMAIN to_visit' :
                    to_visit'[k].reach = g /\ Depth(to_visit'[k]) <= n
        BY <4>2 DEF ReachedWithin, Depth
      <4> QED BY <2>1, <3>1, <4>1, <4>2, PopDepths
    <3>2. CASE ~HasTypeck(crate, g)
      BY <1>c, <3>2 DEF ReachedWithin
    <3>3. CASE g \in DOMAIN locally_reachable /\ Depth(locally_reachable[g]) <= n
      BY <2>1, <3>3 DEF ReachedWithin
    <3> QED BY <2>1, <2>2, <3>1, <3>2, <3>3 DEF ReachedWithin
  <2>3. \A f \in EntryPoints(crate) : ReachedWithin(f, 0)'
    BY <1>c, <2>1, <2>2, EntryPointsLocal DEF DepthInv
  <2>4. \A f \in DOMAIN locally_reachable : \A i \in DOMAIN crate.body[f] :
           crate.body[f][i] \in Local =>
               ReachedWithin(crate.body[f][i], Depth(locally_reachable[f]) + 1)'
    BY <1>c, <2>1, <2>2, DepthType DEF DepthInv
  <2>5. \A f \in DOMAIN locally_reachable : Depth(locally_reachable[f]) <= Depth(d)'
    <3>1. \A f \in DOMAIN locally_reachable : Depth(locally_reachable[f]) <= Depth(d)
      BY DEF DepthInv
    <3> QED BY <2>1, <3>1, PopDepths, DepthType
  <2> QED BY <1>c, <2>1, <2>3, <2>4, <2>5, PopDepths DEF DepthInv, Depth
<1>4. CASE Visit
  <2>1. /\ Pop /\ pc = "loop" /\ pc' = "body" /\ pos' = 0
        /\ locally_reachable' = locally_reachable
    BY <1>4 DEF Visit, Pop
  <2>2. ASSUME NEW g \in Local, NEW n \in Nat, ReachedWithin(g, n)
        PROVE  ReachedWithin(g, n)'
    <3>1. CASE \E k \in DOMAIN to_visit :
                  to_visit[k].reach = g /\ Depth(to_visit[k]) <= n
      <4>1. CASE g = d'.reach /\ Depth(d)' <= n
        BY <2>1, <4>1 DEF ReachedWithin
      <4>2. CASE \E k \in DOMAIN to_visit' :
                    to_visit'[k].reach = g /\ Depth(to_visit'[k]) <= n
        BY <4>2 DEF ReachedWithin, Depth
      <4> QED BY <2>1, <3>1, <4>1, <4>2, PopDepths
    <3>2. CASE ~HasTypeck(crate, g)
      BY <1>c, <3>2 DEF ReachedWithin
    <3>3. CASE g \in DOMAIN locally_reachable /\ Depth(locally_reachable[g]) <= n
      BY <2>1, <3>3 DEF ReachedWithin
    <3> QED BY <2>1, <2>2, <3>1, <3>2, <3>3 DEF ReachedWithin
  <2>3. \A f \in EntryPoints(crate) : ReachedWithin(f, 0)'
    BY <1>c, <2>1, <2>2, EntryPointsLocal DEF DepthInv
  <2>4. \A f \in DOMAIN locally_reachable : \A i \in DOMAIN crate.body[f] :
           crate.body[f][i] \in Local =>
               ReachedWithin(crate.body[f][i], Depth(locally_reachable[f]) + 1)'
    BY <1>c, <2>1, <2>2, DepthType DEF DepthInv
  <2>5. \A f \in DOMAIN locally_reachable : Depth(locally_reachable[f]) <= Depth(d)'
    <3>1. \A f \in DOMAIN locally_reachable : Depth(locally_reachable[f]) <= Depth(d)
      BY DEF DepthInv
    <3> QED BY <2>1, <3>1, PopDepths, DepthType
  <2> QED BY <1>c, <2>1, <2>3, <2>4, <2>5, PopDepths DEF DepthInv, Depth
<1>5. CASE VisitTerminator
  <2>1. /\ pc = "body" /\ pc' = "body" /\ d' = d /\ d \in Item /\ d.reach \in Local
        /\ d.through \in Seq(Local \X Nat)
        /\ locally_reachable' = locally_reachable
        /\ pos \in Nat /\ pos' = pos + 1 /\ pos < Len(Body)
        /\ to_visit \in Seq(Item)
    BY <1>5 DEF VisitTerminator, TypeOK, Item
  <2>2. Body \in Seq(Fns \cup {NotFn}) /\ pos' \in DOMAIN Body /\ Body' = Body
    BY <1>c, <2>1, CrateFacts DEF Body
  <2>g. PICK g : g = Body[pos']
    OBVIOUS
  <2>i. PICK item : item = ExtendedTo(d, g, pos')
    OBVIOUS
  <2>3. /\ g \in Local => to_visit' = Append(to_visit, item)
        /\ g \notin Local => to_visit' = to_visit
    BY <1>5, <2>g, <2>i DEF VisitTerminator
  <2>4. g \in Local => item \in Item /\ item.reach = g /\ Depth(item) = Depth(d) + 1
    <3>1. pos' \in Nat
      BY <2>1
    <3>2. g \in Local => item \in Item
      BY <2>1, <2>i, <3>1, ExtendedType
    <3>3. Depth(item) = Depth(d) + 1
      BY <2>1, <2>i, <3>1 DEF ExtendedTo, Depth
    <3> QED BY <2>i, <3>2, <3>3 DEF ExtendedTo
  <2>5. Depth(d) \in Nat /\ \A k \in DOMAIN to_visit : Depth(to_visit[k]) \in Nat
    BY DepthType
  <2>6. ASSUME NEW h \in Local, NEW n \in Nat, ReachedWithin(h, n)
        PROVE  ReachedWithin(h, n)'
    <3>1. CASE \E k \in DOMAIN to_visit :
                  to_visit[k].reach = h /\ Depth(to_visit[k]) <= n
      <4>1. \E k \in DOMAIN to_visit' :
               to_visit'[k].reach = h /\ Depth(to_visit'[k]) <= n
        <5>1. \A k \in DOMAIN to_visit : k \in DOMAIN to_visit' /\ to_visit'[k] = to_visit[k]
          BY <2>1, <2>3, <2>4, Appended
        <5> QED BY <3>1, <5>1
      <4> QED BY <4>1 DEF ReachedWithin, Depth
    <3>2. CASE ~HasTypeck(crate, h)
      BY <1>c, <3>2 DEF ReachedWithin
    <3>3. CASE h \in DOMAIN locally_reachable /\ Depth(locally_reachable[h]) <= n
      BY <2>1, <3>3 DEF ReachedWithin, Depth
    <3>4. CASE h = d.reach /\ Depth(d) <= n
      BY <2>1, <3>4 DEF ReachedWithin, Depth
    <3> QED BY <2>1, <2>6, <3>1, <3>2, <3>3, <3>4 DEF ReachedWithin
  <2>7. g \in Local => ReachedWithin(g, Depth(d) + 1)'
    <3> SUFFICES ASSUME g \in Local PROVE ReachedWithin(g, Depth(d) + 1)'
      OBVIOUS
    <3>1. \E k \in DOMAIN to_visit' : to_visit'[k] = item
      BY <2>1, <2>3, <2>4, Appended
    <3>2. \E k \in DOMAIN to_visit' : to_visit'[k].reach = g /\ Depth(to_visit'[k]) <= Depth(d) + 1
      BY <2>4, <2>5, <3>1
    <3> QED BY <2>1, <3>2 DEF ReachedWithin, Depth
  <2>8. /\ \A j, k \in DOMAIN to_visit' : j < k => Depth(to_visit'[j]) <= Depth(to_visit'[k])
        /\ \A k \in DOMAIN to_visit' :
              Depth(d) <= Depth(to_visit'[k]) /\ Depth(to_visit'[k]) <= Depth(d) + 1
    <3>1. CASE g \in Local
      <4> DEFINE Q == Append(to_visit, item)
      <4>1. /\ \A k \in DOMAIN to_visit : k \in DOMAIN Q /\ Q[k] = to_visit[k]
            /\ \A k \in DOMAIN Q : k \in DOMAIN to_visit \/ k = Len(to_visit) + 1
            /\ Q[Len(to_visit) + 1] = item
        BY <2>1, <2>4, <3>1, Appended
      <4>2. \A k \in DOMAIN to_visit : k < Len(to_visit) + 1 /\ k \in Nat
        BY <2>1
      <4>3. Len(to_visit) \in Nat
        BY <2>1
      <4> HIDE DEF Q
      <4>4. \A k \in DOMAIN Q :
               Depth(d) <= Depth(Q[k]) /\ Depth(Q[k]) <= Depth(d) + 1
        BY <2>4, <2>5, <3>1, <4>1 DEF DepthInv
      <4>5. \A j, k \in DOMAIN Q : j < k => Depth(Q[j]) <= Depth(Q[k])
        BY <2>4, <2>5, <3>1, <4>1, <4>2, <4>3 DEF DepthInv
      <4> QED BY <2>3, <3>1, <4>4, <4>5 DEF Q
    <3>2. CASE g \notin Local
      BY <2>3, <3>2 DEF DepthInv
    <3> QED BY <3>1, <3>2
  <2>9. \A f \in EntryPoints(crate) : ReachedWithin(f, 0)'
    BY <1>c, <2>1, <2>6, EntryPointsLocal DEF DepthInv
  <2>10. \A f \in DOMAIN locally_reachable : \A i \in DOMAIN crate.body[f] :
            crate.body[f][i] \in Local =>
                ReachedWithin(crate.body[f][i], Depth(locally_reachable[f]) + 1)'
    BY <1>c, <2>1, <2>6, DepthType DEF DepthInv
  <2>m. PICK m : m = Depth(d) + 1
    OBVIOUS
  <2>11. \A i \in 1 .. pos', h \in Local : Body[i] = h => ReachedWithin(h, m)'
    <3>1. \A i \in 1 .. pos, h \in Local : Body[i] = h => ReachedWithin(h, m)
      BY <2>1, <2>m DEF DepthInv
    <3>2. \A i \in 1 .. pos, h \in Local : Body[i] = h => ReachedWithin(h, m)'
      BY <2>5, <2>6, <2>m, <3>1
    <3>3. g \in Local => ReachedWithin(g, m)'
      BY <2>1, <2>7, <2>m DEF Depth
    <3>4. \A i \in 1 .. pos' : i \in 1 .. pos \/ i = pos'
      BY <2>1
    <3> QED BY <2>g, <3>2, <3>3, <3>4
  <2>12. (\A i \in 1 .. pos : Body[i] \in Local => ReachedWithin(Body[i], Depth(d) + 1))'
    BY <2>1, <2>2, <2>m, <2>11 DEF Depth
  <2> QED BY <1>c, <2>1, <2>8, <2>9, <2>10, <2>12 DEF DepthInv, Depth
<1>6. CASE Insert
  <2>1. /\ pc = "body" /\ pc' = "loop" /\ to_visit' = to_visit /\ d' = d
        /\ pos = Len(Body) /\ d \in Item /\ d.reach \in Local
        /\ d.reach \notin DOMAIN locally_reachable
        /\ DOMAIN locally_reachable' = DOMAIN locally_reachable \cup {d.reach}
    BY <1>6 DEF Insert, TypeOK, Item, SearchInv, WithinReach
  <2>2. /\ Depth(locally_reachable'[d.reach]) = Depth(d)
        /\ \A f \in DOMAIN locally_reachable : locally_reachable'[f] = locally_reachable[f]
    BY <1>6, <2>1 DEF Insert, Depth
  <2>3. DOMAIN Body = 1 .. pos
    BY <1>c, <2>1, CrateFacts DEF Body
  <2>4. /\ Depth(d) \in Nat /\ Depth(d)' = Depth(d)
        /\ \A f \in DOMAIN locally_reachable : Depth(locally_reachable[f]) \in Nat
    BY <2>1, DepthType DEF Depth
  <2>5. ASSUME NEW h \in Local, NEW n \in Nat, ReachedWithin(h, n)
        PROVE  ReachedWithin(h, n)'
    <3>1. CASE h = d.reach /\ Depth(d) <= n
      BY <2>1, <2>2, <3>1 DEF ReachedWithin, Depth
    <3>2. CASE h \in DOMAIN locally_reachable /\ Depth(locally_reachable[h]) <= n
      BY <2>1, <2>2, <3>2 DEF ReachedWithin, Depth
    <3>3. CASE \/ \E k \in DOMAIN to_visit :
                     to_visit[k].reach = h /\ Depth(to_visit[k]) <= n
               \/ ~HasTypeck(crate, h)
      BY <1>c, <2>1, <3>3 DEF ReachedWithin, Depth
    <3> QED BY <2>5, <3>1, <3>2, <3>3 DEF ReachedWithin
  <2>6. \A f \in EntryPoints(crate) : ReachedWithin(f, 0)'
    BY <1>c, <2>1, <2>5, EntryPointsLocal DEF DepthInv
  <2>7. ASSUME NEW f \in DOMAIN locally_reachable', NEW i \in DOMAIN crate.body[f],
               NEW h \in Local, h = crate.body[f][i],
               NEW n, n = Depth(locally_reachable'[f]) + 1
        PROVE  ReachedWithin(h, n)'
    <3>1. CASE f = d.reach
      <4>1. ReachedWithin(h, n)
        BY <2>1, <2>2, <2>3, <2>7, <3>1 DEF DepthInv, Body
      <4> QED BY <2>2, <2>4, <2>5, <2>7, <3>1, <4>1
    <3>2. CASE f \in DOMAIN locally_reachable
      <4>1. ReachedWithin(h, n)
        BY <2>2, <2>7, <3>2 DEF DepthInv
      <4> QED BY <2>2, <2>4, <2>5, <2>7, <3>2, <4>1
    <3> QED BY <2>1, <3>1, <3>2
  <2>8. \A f \in DOMAIN locally_reachable' : Depth(locally_reachable'[f]) <= Depth(d)
    BY <2>1, <2>2, <2>4 DEF DepthInv
  <2>9. (\A f \in DOMAIN locally_reachable : \A i \in DOMAIN crate.body[f] :
           crate.body[f][i] \in Local =>
               ReachedWithin(crate.body[f][i], Depth(locally_reachable[f]) + 1))'
    BY <1>c, <2>7 DEF Depth
  <2> QED BY <1>c, <2>1, <2>4, <2>6, <2>8, <2>9 DEF DepthInv, Depth
<1>7. CASE SortByPath
  <2>1. /\ pc = "loop" /\ pc' = "done" /\ to_visit' = to_visit
        /\ d' = d /\ locally_reachable' = locally_reachable
    BY <1>7 DEF SortByPath
  <2>2. \A h, n : ReachedWithin(h, n) => ReachedWithin(h, n)'
    BY <1>c, <2>1 DEF ReachedWithin, Depth
  <2> QED BY <1>c, <2>1, <2>2 DEF DepthInv, Depth
<1>8. CASE UNCHANGED vars
  <2>1. \A h, n : ReachedWithin(h, n) => ReachedWithin(h, n)'
    BY <1>8 DEF vars, ReachedWithin, Depth
  <2> QED BY <1>8, <2>1 DEF vars, DepthInv, Depth, Body
<1> QED BY <1>1, <1>2, <1>3, <1>4, <1>5, <1>6, <1>7, <1>8 DEF Next

LEMMA CallFacts ==
    ASSUME NEW c \in Crates, NEW call \in Calls(c)
    PROVE  /\ call[1] \in Local /\ call[2] \in DOMAIN c.body[call[1]]
           /\ HasTypeck(c, call[1])
<1>1. PICK f \in Local : \E i \in DOMAIN c.body[f] : call = <<f, i>>
  BY DEF Calls
<1>2. ~HasTypeck(c, f) => c.body[f] = << >>
  BY CrateFacts
<1> QED BY <1>1, <1>2

\* An item within reach of fewer calls than the item popped last has been
\* visited already: it is neither in hand nor in the queue.
LEMMA WithinReachIsVisited ==
    ASSUME TypeOK, DepthInv, NEW g \in Local, HasTypeck(crate, g),
           NEW n \in Nat, n < Depth(d), NEW m \in Nat, m <= n, ReachedWithin(g, m)
    PROVE  g \in DOMAIN locally_reachable /\ Depth(locally_reachable[g]) <= n
<1>1. /\ Depth(d) \in Nat
      /\ \A k \in DOMAIN to_visit : Depth(to_visit[k]) \in Nat
      /\ \A f \in DOMAIN locally_reachable : Depth(locally_reachable[f]) \in Nat
  BY DepthType
<1>2. ~(g = d.reach /\ Depth(d) <= m)
  BY <1>1
<1>3. ~\E k \in DOMAIN to_visit : to_visit[k].reach = g /\ Depth(to_visit[k]) <= m
  BY <1>1 DEF DepthInv
<1>4. g \in DOMAIN locally_reachable /\ Depth(locally_reachable[g]) <= m
  BY <1>2, <1>3 DEF ReachedWithin
<1> QED BY <1>1, <1>4

\* No chain of calls to a visited function is shorter than its own: follow the
\* chain from its entry point and take the first function on it that is not
\* visited within its distance.  Its predecessor is, so it should be.
LEMMA NoShorterPath ==
    ASSUME TypeOK, SearchInv, DepthInv,
           NEW f \in DOMAIN locally_reachable, NEW n \in Nat,
           n < Depth(locally_reachable[f]),
           NEW p \in [1 .. n -> Calls(crate)]
    PROVE  ~IsCallPath(crate, p, f)
<1> SUFFICES ASSUME IsCallPath(crate, p, f) PROVE FALSE
  OBVIOUS
<1>1. /\ n \in Nat /\ n < Depth(locally_reachable[f]) /\ n < Depth(d)
      /\ crate \in Crates /\ f \in Local /\ HasTypeck(crate, f)
  <2>1. /\ Depth(locally_reachable[f]) \in Nat /\ Depth(d) \in Nat
        /\ Depth(locally_reachable[f]) <= Depth(d)
    BY DepthType DEF DepthInv
  <2> QED BY <2>1 DEF TypeOK, SearchInv, WithinReach, Analyzed
<1>2. p \in Seq(Calls(crate)) /\ Len(p) = n /\ \A k \in 1 .. n : p[k] \in Calls(crate)
  BY <1>1
<1> DEFINE Node(k) == IF k < n THEN p[k + 1][1] ELSE f
           Late == {k \in 0 .. n : ~(/\ Node(k) \in DOMAIN locally_reachable
                                      /\ Depth(locally_reachable[Node(k)]) <= k)}
<1>3. \A k \in 0 .. n : Node(k) \in Local /\ HasTypeck(crate, Node(k))
  <2> SUFFICES ASSUME NEW k \in 0 .. n
               PROVE  Node(k) \in Local /\ HasTypeck(crate, Node(k))
    OBVIOUS
  <2>1. CASE k < n
    <3>1. p[k + 1] \in Calls(crate)
      BY <1>1, <1>2, <2>1
    <3> QED BY <1>1, <2>1, <3>1, CallFacts
  <2>2. CASE ~(k < n)
    BY <1>1, <2>2
  <2> QED BY <2>1, <2>2
<1>4. Node(0) \in EntryPoints(crate)
  <2>1. CASE n = 0
    BY <1>1, <1>2, <2>1 DEF IsCallPath
  <2>2. CASE n > 0
    BY <1>1, <1>2, <2>2 DEF IsCallPath
  <2> QED BY <1>1, <2>1, <2>2
<1>5. \A k \in 1 .. n : /\ p[k][1] = Node(k - 1)
                         /\ crate.body[Node(k - 1)][p[k][2]] = Node(k)
                         /\ p[k][2] \in DOMAIN crate.body[Node(k - 1)]
  <2> SUFFICES ASSUME NEW k \in 1 .. n
               PROVE  /\ p[k][1] = Node(k - 1)
                      /\ crate.body[Node(k - 1)][p[k][2]] = Node(k)
                      /\ p[k][2] \in DOMAIN crate.body[Node(k - 1)]
    OBVIOUS
  <2>1. p[k] \in Calls(crate) /\ p[k][1] = Node(k - 1)
    BY <1>1, <1>2
  <2>2. Callee(crate, p[k]) = Node(k)
    <3>1. p # << >>
      BY <1>1, <1>2
    <3>2. /\ \A j \in 1 .. n - 1 : Callee(crate, p[j]) = p[j + 1][1]
          /\ Callee(crate, p[n]) = f
      BY <1>2, <3>1 DEF IsCallPath
    <3> QED BY <1>1, <3>2
  <2> QED BY <1>1, <2>1, <2>2, CallFacts DEF Callee
<1>6. pc \in {"loop", "body", "done"}
  BY DEF TypeOK, SearchInv, IdleOutsideLoop
<1>7. CASE Late = {}
  <2>1. Node(n) = f /\ n \in 0 .. n
    BY <1>1
  <2>2. Depth(locally_reachable[f]) <= n
    BY <1>7, <2>1
  <2>3. Depth(locally_reachable[f]) \in Nat
    BY DepthType
  <2> QED BY <1>1, <2>2, <2>3
<1>8. CASE Late # {}
  <2>1. Late \in SUBSET Nat
    BY <1>1
  <2>2. PICK m \in Late : \A k \in Late : m <= k
    BY <1>8, <2>1, LeastNat
  <2>3. m \in 0 .. n /\ ~(/\ Node(m) \in DOMAIN locally_reachable
                           /\ Depth(locally_reachable[Node(m)]) <= m)
    BY <2>2
  <2> HIDE DEF Node
  <2>4. ReachedWithin(Node(m), m)
    <3>1. CASE m = 0
      BY <1>4, <1>6, <3>1 DEF DepthInv
    <3>2. CASE m > 0
      <4>1. m - 1 \in 0 .. n /\ m \in 1 .. n /\ m - 1 < m
        BY <1>1, <2>3, <3>2
      <4>2. m - 1 \notin Late
        BY <2>2, <2>3, <4>1
      <4>3. /\ Node(m - 1) \in DOMAIN locally_reachable
            /\ Depth(locally_reachable[Node(m - 1)]) <= m - 1
        BY <4>1, <4>2
      <4>4. ReachedWithin(Node(m), Depth(locally_reachable[Node(m - 1)]) + 1)
        BY <1>3, <1>5, <2>3, <4>1, <4>3 DEF DepthInv
      <4>5. Depth(locally_reachable[Node(m - 1)]) \in Nat
        BY <4>3, DepthType
      <4>6. Depth(locally_reachable[Node(m - 1)]) + 1 \in Nat
        BY <4>5
      <4>7. Depth(locally_reachable[Node(m - 1)]) + 1 <= m /\ m \in Nat /\ m <= n
        BY <1>1, <2>3, <4>3, <4>5
      <4> DEFINE b == Depth(locally_reachable[Node(m - 1)]) + 1
      <4>9. /\ Depth(d) \in Nat
            /\ \A k \in DOMAIN to_visit : Depth(to_visit[k]) \in Nat
            /\ \A g \in DOMAIN locally_reachable : Depth(locally_reachable[g]) \in Nat
        BY DepthType
      <4>10. ReachedWithin(Node(m), b) /\ b \in Nat /\ b <= m
        BY <4>4, <4>6, <4>7
      <4> HIDE DEF b
      <4> QED BY <4>7, <4>9, <4>10 DEF ReachedWithin
    <3> QED BY <1>1, <2>3, <3>1, <3>2
  <2>5. m \in Nat /\ m <= m /\ m < Depth(d) /\ Node(m) \in Local /\ HasTypeck(crate, Node(m))
    <3>1. Depth(d) \in Nat
      BY DepthType
    <3> QED BY <1>1, <1>3, <2>3, <3>1
  <2>6. Node(m) \in DOMAIN locally_reachable /\ Depth(locally_reachable[Node(m)]) <= m
    BY <2>4, <2>5, WithinReachIsVisited
  <2> QED BY <2>3, <2>6
<1> QED BY <1>7, <1>8

\* The loop invariant of the breadth-first order holds for every crate.
THEOREM BreadthFirst == Spec => []DepthInv
<1>1. Init => TypeOK /\ SearchInv /\ DepthInv
  BY TypeInit, SearchInit, DepthInit
<1>2. TypeOK /\ SearchInv /\ DepthInv /\ [Next]_vars => TypeOK' /\ SearchInv' /\ DepthInv'
  BY TypeNext, SearchNext, DepthNext
<1> QED BY <1>1, <1>2, PTL DEF Spec

LEMMA DepthIsLeast == TypeOK /\ SearchInv /\ DepthInv => ShortestThrough
<1> SUFFICES ASSUME TypeOK, SearchInv, DepthInv,
                    NEW f \in DOMAIN locally_reachable,
                    NEW n \in 0 .. Depth(locally_reachable[f]) - 1,
                    NEW p \in [1 .. n -> Calls(crate)]
             PROVE  ~IsCallPath(crate, p, f)
  BY DEF ShortestThrough, Depth
<1>1. n \in Nat /\ n < Depth(locally_reachable[f])
  BY DepthType
<1> QED BY <1>1, NoShorterPath

\* The chain recorded for a function is a shortest one: "BFS to get the
\* shortest path to each item" (reach.rs:85).
THEOREM ShortestPaths == Spec => []ShortestThrough
<1> QED BY DepthIsLeast, TypeCorrect, SearchInvariant, BreadthFirst, PTL
-----------------------------------------------------------------------------
(* Each call site is recorded once.                                        *)

LEMMA ElementsAppend ==
    ASSUME NEW T, NEW vec \in Seq(T), NEW x \in T
    PROVE  /\ Append(vec, x) \in Seq(T)
           /\ Elements(Append(vec, x)) = Elements(vec) \cup {x}
<1>1. /\ DOMAIN vec = 1 .. Len(vec) /\ Len(vec) \in Nat
      /\ DOMAIN Append(vec, x) = 1 .. Len(vec) + 1
      /\ \A k \in 1 .. Len(vec) : Append(vec, x)[k] = vec[k]
      /\ Append(vec, x)[Len(vec) + 1] = x
      /\ Append(vec, x) \in Seq(T)
  OBVIOUS
<1>2. \A k : k \in 1 .. Len(vec) + 1 <=> k \in 1 .. Len(vec) \/ k = Len(vec) + 1
  BY <1>1
<1> QED BY <1>1, <1>2 DEF Elements

LEMMA OnceAppend ==
    ASSUME NEW T, NEW vec \in Seq(T), NEW x \in T, NEW S, HasOnce(vec, S), x \notin S
    PROVE  HasOnce(Append(vec, x), S \cup {x})
<1>1. /\ DOMAIN vec = 1 .. Len(vec) /\ Len(vec) \in Nat
      /\ DOMAIN Append(vec, x) = 1 .. Len(vec) + 1
      /\ \A k \in 1 .. Len(vec) : Append(vec, x)[k] = vec[k] /\ vec[k] # x
      /\ Append(vec, x)[Len(vec) + 1] = x
  BY DEF HasOnce, Elements
<1>2. \A k : k \in 1 .. Len(vec) + 1 <=> k \in 1 .. Len(vec) \/ k = Len(vec) + 1
  BY <1>1
<1>3. \A j, k \in 1 .. Len(vec) : vec[j] = vec[k] => j = k
  BY <1>1 DEF HasOnce
<1>4. \A j, k \in DOMAIN Append(vec, x) : Append(vec, x)[j] = Append(vec, x)[k] => j = k
  BY <1>1, <1>2, <1>3
<1> QED BY <1>4, ElementsAppend DEF HasOnce

LEMMA AscendingAppend ==
    ASSUME NEW vec \in Seq(Nat), NEW x \in Nat, Ascending(vec), \A y \in Elements(vec) : y < x
    PROVE  Ascending(Append(vec, x))
<1>1. /\ DOMAIN vec = 1 .. Len(vec) /\ Len(vec) \in Nat
      /\ DOMAIN Append(vec, x) = 1 .. Len(vec) + 1
      /\ \A k \in 1 .. Len(vec) : Append(vec, x)[k] = vec[k] /\ vec[k] < x
      /\ Append(vec, x)[Len(vec) + 1] = x
  BY DEF Elements
<1> QED BY <1>1 DEF Ascending

LEMMA CallsInit == Init => CallSitesExact
<1> QED BY DEF Init, CallSitesExact, Passed, HasOnce, Elements

LEMMA CallsNext ==
    TypeOK /\ SearchInv /\ CallSitesExact /\ [Next]_vars => CallSitesExact'
<1> SUFFICES ASSUME TypeOK, SearchInv, CallSitesExact, [Next]_vars
             PROVE  CallSitesExact'
  OBVIOUS
<1>c. crate \in Crates /\ crate' = crate
  BY DEF TypeOK, Next, vars, EntryPanic, New, Skip, Visit, Pop, VisitTerminator,
         Insert, SortByPath
<1>1. CASE \/ EntryPanic \/ New \/ Skip \/ SortByPath
  <2>1. /\ pc # "body" /\ pc' # "body" /\ all_reachable' = all_reachable
        /\ locally_reachable' = locally_reachable
    BY <1>1 DEF EntryPanic, New, Skip, Pop, SortByPath
  <2>2. \A f : Passed(f)' = Passed(f)
    BY <1>c, <2>1 DEF Passed
  <2> QED BY <1>c, <2>1, <2>2 DEF CallSitesExact
<1>2. CASE Visit
  <2>1. /\ pc # "body" /\ pc' = "body" /\ pos' = 0 /\ calls_to' = NoCalls
        /\ all_reachable' = all_reachable /\ locally_reachable' = locally_reachable
    BY <1>2 DEF Visit, Pop
  <2>2. \A f : Passed(f)' = Passed(f)
    BY <1>c, <2>1 DEF Passed
  <2>3. \A g \in Fns :
           /\ Ascending(calls_to'[g])
           /\ Elements(calls_to'[g]) = {i \in 1 .. pos' : Body'[i] = g}
    BY <2>1 DEF NoCalls, Ascending, Elements
  <2>4. /\ \A f \in DOMAIN locally_reachable, g \in Fns :
              LET vec == locally_reachable[f].calls_to[g]
              IN  /\ Ascending(vec)
                  /\ Elements(vec) = {i \in DOMAIN crate.body[f] : crate.body[f][i] = g}
        /\ \A g \in Extern :
              HasOnce(all_reachable[g],
                      {call \in Calls(crate) :
                         call[2] \in Passed(call[1]) /\ Callee(crate, call) = g})
    BY DEF CallSitesExact
  <2> QED BY <1>c, <2>1, <2>2, <2>3, <2>4 DEF CallSitesExact
<1>3. CASE VisitTerminator
  <2>1. /\ pc = "body" /\ pc' = "body" /\ d' = d /\ d.reach \in Local
        /\ d.reach \notin DOMAIN locally_reachable
        /\ locally_reachable' = locally_reachable
        /\ pos \in Nat /\ pos' = pos + 1 /\ pos < Len(Body)
    BY <1>3 DEF VisitTerminator, TypeOK, Item, SearchInv, WithinReach
  <2>2. /\ Body \in Seq(Fns \cup {NotFn}) /\ pos' \in DOMAIN Body /\ Body' = Body
        /\ 1 .. pos' = 1 .. pos \cup {pos'}
    BY <1>c, <2>1, CrateFacts DEF Body
  <2>3. /\ \A f : f = d.reach => Passed(f) = 1 .. pos /\ Passed(f)' = 1 .. pos'
        /\ \A f : f # d.reach => Passed(f)' = Passed(f)
    BY <1>c, <2>1 DEF Passed
  <2>4. ASSUME NEW g \in Fns
        PROVE  Ascending(calls_to'[g]) /\ Elements(calls_to'[g]) = {i \in 1 .. pos' : Body[i] = g}
    <3>1. PICK vec : vec = calls_to[g]
      OBVIOUS
    <3>2. /\ calls_to'[g] = IF g = Body[pos'] THEN Append(vec, pos') ELSE vec
          /\ vec \in Seq(Nat) /\ pos' \in Nat
      BY <1>3, <2>1, <3>1 DEF VisitTerminator, TypeOK
    <3>3. Ascending(vec) /\ Elements(vec) = {i \in 1 .. pos : Body[i] = g}
      BY <2>1, <3>1 DEF CallSitesExact
    <3>4. \A i : (i \in 1 .. pos') <=> (i \in 1 .. pos \/ i = pos')
      BY <2>2
    <3>5. CASE g = Body[pos']
      <4>1. \A y \in Elements(vec) : y < pos'
        BY <2>1, <3>3
      <4>2. Ascending(Append(vec, pos'))
        BY <3>2, <3>3, <4>1, AscendingAppend
      <4>3. Elements(Append(vec, pos')) = Elements(vec) \cup {pos'}
        BY <3>2, ElementsAppend
      <4> QED BY <3>2, <3>3, <3>4, <3>5, <4>2, <4>3
    <3>6. CASE g # Body[pos']
      BY <3>2, <3>3, <3>4, <3>6
    <3> QED BY <3>5, <3>6
  <2>5. ASSUME NEW g \in Extern
        PROVE  HasOnce(all_reachable'[g],
                       {call \in Calls(crate) :
                          call[2] \in Passed(call[1])' /\ Callee(crate, call) = g})
    <3> DEFINE new == <<d.reach, pos'>>
               S   == {call \in Calls(crate) :
                          call[2] \in Passed(call[1]) /\ Callee(crate, call) = g}
    <3>1. /\ all_reachable'[g] = IF g = Body[pos'] THEN Append(all_reachable[g], new)
                                 ELSE all_reachable[g]
          /\ all_reachable[g] \in Seq(Local \X Nat) /\ new \in Local \X Nat
      <4>1. all_reachable \in [Extern -> Seq(Local \X Nat)]
        BY DEF TypeOK
      <4>2. all_reachable' = IF Body[pos'] \in Extern
                                THEN [all_reachable EXCEPT
                                         ![Body[pos']] = Append(all_reachable[Body[pos']], new)]
                                ELSE all_reachable
        BY <1>3 DEF VisitTerminator
      <4>3. new \in Local \X Nat
        BY <2>1
      <4> HIDE DEF new
      <4> QED BY <4>1, <4>2, <4>3
    <3>2. HasOnce(all_reachable[g], S)
      BY DEF CallSitesExact
    <3>3. new \in Calls(crate) /\ Callee(crate, new) = Body[pos']
      BY <2>1, <2>2 DEF Calls, Callee, Body
    <3>4. \A call \in Calls(crate) :
             call[2] \in Passed(call[1])' <=> (call[2] \in Passed(call[1]) \/ call = new)
      <4> SUFFICES ASSUME NEW f \in Local, NEW i \in DOMAIN crate.body[f]
                   PROVE  i \in Passed(f)' <=> (i \in Passed(f) \/ <<f, i>> = new)
        BY DEF Calls
      <4>1. CASE f = d.reach
        <5>1. (<<f, i>> = new) <=> (i = pos')
          BY <4>1
        <5>2. (i \in 1 .. pos') <=> (i \in 1 .. pos \/ i = pos')
          BY <2>2
        <5>3. Passed(f) = 1 .. pos /\ Passed(f)' = 1 .. pos'
          BY <2>3, <4>1
        <5> HIDE DEF new
        <5> QED BY <5>1, <5>2, <5>3
      <4>2. CASE f # d.reach
        BY <2>3, <4>2
      <4> QED BY <4>1, <4>2
    <3>5. new \notin S
      <4>1. Passed(d.reach) = 1 .. pos
        BY <2>3
      <4>2. pos' \notin Passed(d.reach)
        BY <2>1, <4>1
      <4> QED BY <4>2
    <3>6. {call \in Calls(crate) : call[2] \in Passed(call[1])' /\ Callee(crate, call) = g}
            = IF g = Body[pos'] THEN S \cup {new} ELSE S
      <4> HIDE DEF new
      <4> QED BY <3>3, <3>4
    <3> HIDE DEF new, S
    <3>7. HasOnce(Append(all_reachable[g], new), S \cup {new})
      BY <3>1, <3>2, <3>5, OnceAppend
    <3> QED BY <3>1, <3>2, <3>6, <3>7
  <2>6. \A f \in DOMAIN locally_reachable', g \in Fns :
           LET vec == locally_reachable'[f].calls_to[g]
           IN  /\ Ascending(vec)
               /\ Elements(vec) = {i \in DOMAIN crate.body[f] : crate.body[f][i] = g}
    BY <2>1 DEF CallSitesExact
  <2>7. crate' = crate /\ Body' = Body
    BY <1>c, <2>2
  <2> QED BY <2>4, <2>5, <2>6, <2>7 DEF CallSitesExact
<1>4. CASE Insert
  <2>1. /\ pc = "body" /\ pc' = "loop" /\ d.reach \in Local
        /\ d.reach \notin DOMAIN locally_reachable /\ all_reachable' = all_reachable
        /\ DOMAIN locally_reachable' = DOMAIN locally_reachable \cup {d.reach}
        /\ locally_reachable'[d.reach].calls_to = calls_to
        /\ \A f \in DOMAIN locally_reachable : locally_reachable'[f] = locally_reachable[f]
        /\ pos = Len(Body)
    BY <1>4 DEF Insert, TypeOK, Item, SearchInv, WithinReach
  <2>2. DOMAIN Body = 1 .. pos
    BY <1>c, <2>1, CrateFacts DEF Body
  <2>3. \A f : Passed(f)' = Passed(f)
    BY <1>c, <2>1, <2>2 DEF Passed, Body
  <2>4. \A g \in Fns :
           /\ Ascending(calls_to[g])
           /\ Elements(calls_to[g]) = {i \in DOMAIN crate.body[d.reach] : crate.body[d.reach][i] = g}
    BY <2>1, <2>2 DEF CallSitesExact, Body
  <2>5. ASSUME NEW f \in DOMAIN locally_reachable', NEW g \in Fns
        PROVE  LET vec == locally_reachable'[f].calls_to[g]
               IN  /\ Ascending(vec)
                   /\ Elements(vec) = {i \in DOMAIN crate.body[f] : crate.body[f][i] = g}
    <3>1. CASE f = d.reach
      BY <2>1, <2>4, <3>1
    <3>2. CASE f # d.reach
      BY <2>1, <3>2 DEF CallSitesExact
    <3> QED BY <3>1, <3>2
  <2>6. \A g \in Extern :
           HasOnce(all_reachable'[g],
                   {call \in Calls(crate) :
                      call[2] \in Passed(call[1])' /\ Callee(crate, call) = g})
    BY <2>1, <2>3 DEF CallSitesExact
  <2> HIDE DEF CallSitesExact
  <2>7. pc' # "body" /\ crate' = crate
    BY <1>c, <2>1
  <2> QED BY <2>5, <2>6, <2>7 DEF CallSitesExact
<1>5. CASE UNCHANGED vars
  <2>1. /\ pc' = pc /\ pos' = pos /\ calls_to' = calls_to /\ d' = d
        /\ all_reachable' = all_reachable /\ locally_reachable' = locally_reachable
    BY <1>5 DEF vars
  <2>2. Body' = Body
    BY <1>c, <2>1 DEF Body
  <2>3. \A f : Passed(f)' = Passed(f)
    BY <1>c, <2>1, <2>2 DEF Passed
  <2> QED BY <1>c, <2>1, <2>2, <2>3 DEF CallSitesExact
<1> QED BY <1>1, <1>2, <1>3, <1>4, <1>5 DEF Next

\* In every crate, however often a function is queued, each call site visited
\* is pushed once, in body order in the Vecs of its function.
THEOREM CallSitesRecorded == Spec => []CallSitesExact
<1>1. Init => TypeOK /\ SearchInv /\ CallSitesExact
  BY TypeInit, SearchInit, CallsInit
<1>2. TypeOK /\ SearchInv /\ CallSitesExact /\ [Next]_vars
      => TypeOK' /\ SearchInv' /\ CallSitesExact'
  BY TypeNext, SearchNext, CallsNext
<1> QED BY <1>1, <1>2, PTL DEF Spec
-----------------------------------------------------------------------------
(* The worklist implements the abstract search.                            *)

LEMMA OriginInit == Init => OriginInv
<1> QED BY DEF Init, OriginInv

LEMMA OriginNext == TypeOK /\ SearchInv /\ OriginInv /\ [Next]_vars => OriginInv'
<1> SUFFICES ASSUME TypeOK, SearchInv, OriginInv, [Next]_vars PROVE OriginInv'
  OBVIOUS
<1>c. crate \in Crates /\ crate' = crate
  BY DEF TypeOK, Next, vars, EntryPanic, New, Skip, Visit, Pop, VisitTerminator,
         Insert, SortByPath
<1>1. CASE EntryPanic
  BY <1>1, <1>c DEF EntryPanic, OriginInv, Caller
<1>2. CASE New
  <2>1. PICK entry \in AnalysisEntryPoints(crate) :
           to_visit' = [k \in DOMAIN entry |-> [reach |-> entry[k], through |-> << >>]]
    BY <1>2 DEF New
  <2> QED BY <1>2, <1>c, <2>1 DEF New, OriginInv
<1>3. CASE Skip
  BY <1>3, <1>c, PopKeeps DEF Skip, Pop, OriginInv, Caller
<1>4. CASE Visit
  BY <1>4, <1>c, PopKeeps DEF Visit, Pop, OriginInv, Caller
<1>5. CASE VisitTerminator
  <2>1. /\ pc = "body" /\ pc' = "body" /\ d' = d /\ d \in Item /\ d.reach \in Local
        /\ d.through \in Seq(Local \X Nat)
        /\ locally_reachable' = locally_reachable /\ to_visit \in Seq(Item)
        /\ pos' \in Nat
    BY <1>5 DEF VisitTerminator, TypeOK, Item
  <2>2. PICK item : item = ExtendedTo(d, Body[pos'], pos')
    OBVIOUS
  <2>3. /\ Body[pos'] \in Local => to_visit' = Append(to_visit, item)
        /\ Body[pos'] \notin Local => to_visit' = to_visit
    BY <1>5, <2>2 DEF VisitTerminator
  <2>4. Body[pos'] \in Local => item \in Item
    BY <2>1, <2>2, ExtendedType
  <2>5. Caller(item) = d.reach
    BY <2>1, <2>2 DEF Caller, ExtendedTo
  <2>6. \A k \in DOMAIN to_visit' :
           \/ k \in DOMAIN to_visit /\ to_visit'[k] = to_visit[k]
           \/ to_visit'[k] = item
    BY <2>1, <2>3, <2>4, Appended
  <2>7. \A k \in DOMAIN to_visit' : to_visit'[k].through # << >> =>
            \/ Caller(to_visit'[k]) \in DOMAIN locally_reachable
            \/ Caller(to_visit'[k]) = d.reach
    BY <2>5, <2>6 DEF OriginInv
  <2> QED BY <1>c, <2>1, <2>7 DEF OriginInv, Caller
<1>6. CASE Insert
  <2>1. /\ pc = "body" /\ pc' = "loop" /\ to_visit' = to_visit /\ d' = d
        /\ DOMAIN locally_reachable' = DOMAIN locally_reachable \cup {d.reach}
    BY <1>6 DEF Insert
  <2> QED BY <1>c, <2>1 DEF OriginInv, Caller
<1>7. CASE SortByPath
  BY <1>7, <1>c DEF SortByPath, OriginInv, Caller
<1>8. CASE UNCHANGED vars
  BY <1>8 DEF vars, OriginInv, Caller
<1> QED BY <1>1, <1>2, <1>3, <1>4, <1>5, <1>6, <1>7, <1>8 DEF Next

\* The operators of Crate.tla mean the same in the abstract specification.
LEMMA AbsOperators ==
    ASSUME NEW c
    PROVE  /\ Abs!EntryPoints(c) = EntryPoints(c)
           /\ Abs!EntryPanics(c) <=> EntryPanics(c)
           /\ \A f : Abs!HasTypeck(c, f) <=> HasTypeck(c, f)
<1>1. \A name : Abs!HasGlobal(c, name) <=> HasGlobal(c, name)
  BY DEF Abs!HasGlobal, HasGlobal, Abs!GlobalAnnots, GlobalAnnots
<1>2. /\ Abs!AllLocalFnDefs(c) = AllLocalFnDefs(c)
      /\ Abs!AllPubLocalFnDefs(c) = AllPubLocalFnDefs(c)
      /\ Abs!AnnotatedLocalDefs(c) = AnnotatedLocalDefs(c)
  BY DEF Abs!AllLocalFnDefs, AllLocalFnDefs, Abs!AllPubLocalFnDefs, AllPubLocalFnDefs,
         Abs!AnnotatedLocalDefs, AnnotatedLocalDefs, Abs!BodyOwners, BodyOwners,
         Abs!IsDefAnalyzeable, IsDefAnalyzeable, Abs!IsDirectlyAnnotated, IsDirectlyAnnotated
<1>3. Abs!EntryPoints(c) = EntryPoints(c)
  BY <1>1, <1>2 DEF Abs!EntryPoints, EntryPoints
<1>4. Abs!FindGlobalPanics(c) <=> FindGlobalPanics(c)
  BY DEF Abs!FindGlobalPanics, FindGlobalPanics, Abs!GlobalAnnots, GlobalAnnots,
         Abs!TryFromStringPubPanics, TryFromStringPubPanics
<1>5. Abs!EntryPanics(c) <=> EntryPanics(c)
  BY <1>3, <1>4 DEF Abs!EntryPanics, EntryPanics
<1>6. \A f : Abs!HasTypeck(c, f) <=> HasTypeck(c, f)
  BY DEF Abs!HasTypeck, HasTypeck
<1> QED BY <1>3, <1>5, <1>6

LEMMA StepImplements ==
    TypeOK /\ SearchInv /\ PathInv /\ OriginInv /\ [Next]_vars => [Abs!Next]_(Abs!vars)
<1> SUFFICES ASSUME TypeOK, SearchInv, PathInv, OriginInv, [Next]_vars
             PROVE  [Abs!Next]_(Abs!vars)
  OBVIOUS
<1>c. crate \in Crates /\ crate' = crate
  BY DEF TypeOK, Next, vars, EntryPanic, New, Skip, Visit, Pop, VisitTerminator,
         Insert, SortByPath
<1>1. CASE EntryPanic
  <2>1. /\ pc = "entry" /\ pc' = "panicked" /\ EntryPanics(crate)
        /\ locally_reachable = << >> /\ locally_reachable' = locally_reachable
    BY <1>1 DEF EntryPanic, SearchInv, IdleOutsideLoop
  <2>2. DOMAIN locally_reachable = {}
    BY <2>1
  <2>3. Abs!Panic
    BY <1>c, <2>1, <2>2, AbsOperators DEF Abs!Panic
  <2> QED BY <2>3 DEF Abs!Next
<1>2. CASE New \/ Skip \/ Visit \/ VisitTerminator
  BY <1>2, <1>c DEF New, Skip, Visit, Pop, VisitTerminator, Abs!vars
<1>3. CASE Insert
  <2>1. /\ pc = "body" /\ pc' = "loop" /\ d \in Item
        /\ d.reach \in Local /\ d.through \in Seq(Local \X Nat)
        /\ d.reach \notin DOMAIN locally_reachable
        /\ HasTypeck(crate, d.reach)
        /\ DOMAIN locally_reachable' = DOMAIN locally_reachable \cup {d.reach}
    BY <1>3 DEF Insert, TypeOK, Item, SearchInv, WithinReach, Analyzed
  <2>2. IsCallPath(crate, d.through, d.reach)
    BY <2>1 DEF PathInv
  <2>3. \/ d.reach \in EntryPoints(crate)
        \/ \E g \in DOMAIN locally_reachable : \E i \in DOMAIN crate.body[g] :
              crate.body[g][i] = d.reach
    <3>1. CASE d.through = << >>
      BY <2>2, <3>1 DEF IsCallPath
    <3>2. CASE d.through # << >>
      <4> DEFINE last == d.through[Len(d.through)]
      <4>1. /\ last \in Calls(crate) /\ Callee(crate, last) = d.reach
        <5>1. Len(d.through) \in DOMAIN d.through
          BY <2>1, <3>2
        <5> QED BY <2>2, <3>2, <5>1 DEF IsCallPath
      <4>2. last[1] \in DOMAIN locally_reachable
        BY <2>1, <3>2 DEF OriginInv, Caller
      <4>3. last[2] \in DOMAIN crate.body[last[1]] /\ crate.body[last[1]][last[2]] = d.reach
        BY <1>c, <4>1, CallFacts DEF Callee
      <4> QED BY <4>2, <4>3
    <3> QED BY <3>1, <3>2
  <2>4. Abs!Discoverable(d.reach)
    BY <2>1, <2>3, AbsOperators DEF Abs!Discoverable
  <2>5. ~Abs!EntryPanics(crate)
    BY <2>1, AbsOperators DEF OriginInv
  <2>6. Abs!Discover
    BY <1>c, <2>1, <2>4, <2>5 DEF Abs!Discover
  <2> QED BY <2>6 DEF Abs!Next
<1>4. CASE SortByPath
  <2>1. /\ pc = "loop" /\ pc' = "done" /\ to_visit = << >>
        /\ locally_reachable' = locally_reachable
    BY <1>4 DEF SortByPath
  <2>2. \A f \in Local : Accounted(f) => f \in DOMAIN locally_reachable \/ ~HasTypeck(crate, f)
    BY <2>1 DEF Accounted
  <2>3. ~\E f \in Local : Abs!Discoverable(f)
    <3> SUFFICES ASSUME NEW f \in Local, Abs!Discoverable(f) PROVE FALSE
      OBVIOUS
    <3>1. /\ f \notin DOMAIN locally_reachable /\ HasTypeck(crate, f)
          /\ \/ f \in EntryPoints(crate)
             \/ \E g \in DOMAIN locally_reachable : \E i \in DOMAIN crate.body[g] :
                   crate.body[g][i] = f
      BY AbsOperators DEF Abs!Discoverable
    <3>2. Accounted(f)
      BY <2>1, <3>1 DEF TypeOK, SearchInv, NothingLost, Passed
    <3> QED BY <2>2, <3>1, <3>2
  <2>4. ~Abs!EntryPanics(crate)
    BY <2>1, AbsOperators DEF OriginInv
  <2>5. Abs!Finish
    BY <1>c, <2>1, <2>3, <2>4 DEF Abs!Finish
  <2> QED BY <2>5 DEF Abs!Next
<1>5. CASE UNCHANGED vars
  BY <1>5 DEF vars, Abs!vars
<1> QED BY <1>1, <1>2, <1>3, <1>4, <1>5 DEF Next

\* Every behaviour of the worklist is, step by step, one of the abstract search.
THEOREM ImplementsSearchSafety == Spec => Abs!SafeSpec
<1>1. Init => Abs!Init
  BY DEF Init, Abs!Init
<1>2. Init => TypeOK /\ SearchInv /\ PathInv /\ OriginInv
  BY TypeInit, SearchInit, PathInit, OriginInit
<1>3. TypeOK /\ SearchInv /\ PathInv /\ OriginInv /\ [Next]_vars
      => TypeOK' /\ SearchInv' /\ PathInv' /\ OriginInv'
  BY TypeNext, SearchNext, PathNext, OriginNext
<1>4. Spec => Abs!Init /\ [][Abs!Next]_(Abs!vars)
  BY <1>1, <1>2, <1>3, StepImplements, PTL DEF Spec
<1> QED BY <1>4 DEF Abs!SafeSpec

\* An entry of the map is final: neither how a function was first reached nor
\* its calls are overwritten by a longer way to it found later.
THEOREM EntriesAreFinal == Spec => FirstPathKept
<1>1. TypeOK /\ SearchInv /\ [Next]_vars
      => [\A f \in DOMAIN locally_reachable :
            /\ f \in DOMAIN locally_reachable'
            /\ locally_reachable'[f] = locally_reachable[f]]_vars
  <2> SUFFICES ASSUME TypeOK, SearchInv, Next
               PROVE  \A f \in DOMAIN locally_reachable :
                         /\ f \in DOMAIN locally_reachable'
                         /\ locally_reachable'[f] = locally_reachable[f]
    OBVIOUS
  <2>1. CASE Insert
    <3>1. d.reach \notin DOMAIN locally_reachable
      BY <2>1 DEF Insert, SearchInv, WithinReach
    <3> QED BY <2>1, <3>1 DEF Insert
  <2>2. CASE ~Insert
    BY <2>2 DEF Next, EntryPanic, New, Skip, Visit, Pop, VisitTerminator, SortByPath
  <2> QED BY <2>1, <2>2
<1> QED BY <1>1, TypeCorrect, SearchInvariant, PTL DEF Spec, FirstPathKept

-----------------------------------------------------------------------------
(* What is asked for.                                                      *)

\* A function an annotation asks for is an entry point.
LEMMA RequestedEntry ==
    ASSUME crate \in Crates, NEW f \in Local, Requested(f)
    PROVE  f \in EntryPoints(crate) /\ HasTypeck(crate, f)
<1>1. f \in AllLocalFnDefs(crate) /\ HasTypeck(crate, f)
  BY DEF Requested, AllLocalFnDefs, BodyOwners, IsDefAnalyzeable, HasTypeck
<1>2. CASE crate.is_dependency
  BY <1>1, <1>2 DEF Requested, EntryPoints, AllPubLocalFnDefs
<1>3. CASE ~crate.is_dependency /\ HasGlobal(crate, "check_unsafe")
  BY <1>1, <1>3 DEF EntryPoints
<1>4. CASE ~crate.is_dependency /\ ~HasGlobal(crate, "check_unsafe")
  BY <1>1, <1>4 DEF Requested, EntryPoints, AllPubLocalFnDefs, AnnotatedLocalDefs, AllLocalFnDefs
<1> QED BY <1>1, <1>2, <1>3, <1>4

\* Every function the annotations of any crate ask for is analyzed, however the
\* entry points come out of their hash set and whatever is visited before it.
THEOREM AllRequestedAnalyzed == Spec => []RequestedAnalyzed
<1>1. Init => TypeOK /\ SearchInv
  BY TypeInit, SearchInit
<1>2. TypeOK /\ SearchInv /\ [Next]_vars => TypeOK' /\ SearchInv'
  BY TypeNext, SearchNext
<1>3. TypeOK /\ SearchInv => RequestedAnalyzed
  <2> SUFFICES ASSUME TypeOK, SearchInv, pc = "done", NEW f \in Local, Requested(f)
               PROVE  f \in DOMAIN locally_reachable
    BY DEF RequestedAnalyzed
  <2>1. f \in EntryPoints(crate) /\ HasTypeck(crate, f) /\ crate \in Crates
    BY RequestedEntry DEF TypeOK
  <2>2. f \in Analyzed(crate)
    BY <2>1, ReachableEntry DEF Analyzed
  <2> QED BY <2>2, DoneVisited DEF VisitedExactly
<1> QED BY <1>1, <1>2, <1>3, PTL DEF Spec

\* No dependency brings the compilation down while its entry points are found,
\* whatever attributes its author has put on it.
THEOREM DependenciesNeverPanic == Spec => []DependencyNeverPanics
<1> DEFINE Inv == crate \in Crates /\ DependencyNeverPanics
<1>1. Init => Inv
  BY DEF Init, DependencyNeverPanics
<1>2. Inv /\ [Next]_vars => Inv'
  <2> SUFFICES ASSUME Inv, [Next]_vars PROVE Inv'
    OBVIOUS
  <2>1. crate' = crate
    BY DEF Next, vars, EntryPanic, New, Skip, Visit, Pop, VisitTerminator, Insert, SortByPath
  <2>2. CASE EntryPanic
    <3>1. EntryPanics(crate)
      BY <2>2 DEF EntryPanic
    <3>2. ~crate.is_dependency
      BY <3>1 DEF EntryPanics, EntryPoints, AllPubLocalFnDefs, AllLocalFnDefs, IsDefAnalyzeable
    <3> QED BY <2>1, <3>2 DEF DependencyNeverPanics
  <2>3. ASSUME New \/ Skip \/ Visit \/ VisitTerminator \/ Insert \/ SortByPath \/ UNCHANGED vars
        PROVE  pc' # "panicked" \/ pc' = pc
    BY <2>3 DEF vars, New, Skip, Visit, Pop, VisitTerminator, Insert, SortByPath
  <2> QED BY <2>1, <2>2, <2>3 DEF Next, DependencyNeverPanics
<1>3. Inv => DependencyNeverPanics
  OBVIOUS
<1> QED BY <1>1, <1>2, <1>3, PTL DEF Spec
-----------------------------------------------------------------------------
(* The sorted list.                                                        *)

Distinct(s) == \A i, j \in DOMAIN s : s[i] = s[j] => i = j

LEMMA UpTo ==
    ASSUME NEW n \in Nat
    PROVE  IsFiniteSet(1 .. n) /\ Cardinality(1 .. n) = n
<1>1. 1 \in Int /\ n \in Int /\ (1 > n => n = 0)
  OBVIOUS
<1>2. IsFiniteSet(1 .. n) /\ Cardinality(1 .. n) = IF 1 > n THEN 0 ELSE n - 1 + 1
  BY <1>1, FS_Interval
<1> QED BY <1>1, <1>2

\* A sequence that lists a finite set in as many positions lists nothing twice.
LEMMA OrderingDistinct ==
    ASSUME NEW S, IsFiniteSet(S), NEW s \in Orderings(S)
    PROVE  /\ s \in Seq(S) /\ Len(s) = Cardinality(S) /\ Len(s) \in Nat
           /\ DOMAIN s = 1 .. Len(s) /\ Distinct(s)
<1>1. Cardinality(S) \in Nat
  BY FS_CardinalityType
<1>2. /\ s \in [1 .. Cardinality(S) -> S]
      /\ \A x \in S : \E i \in 1 .. Cardinality(S) : s[i] = x
  BY DEF Orderings
<1>3. s \in Surjection(1 .. Cardinality(S), S)
  BY <1>2 DEF Surjection
<1>4. s \in Injection(1 .. Cardinality(S), S)
  BY <1>1, <1>3, UpTo, FS_SurjSameCardinalityImpliesInj
<1> QED BY <1>1, <1>2, <1>4 DEF Injection, IsInjective, Distinct

\* What locally_reachable_from returns: the map's functions, each once, sorted.
OrderInv ==
    pc = "done" => order \in Orderings(DOMAIN locally_reachable) /\ Sorted(order)

LEMMA OrderNext == OrderInv /\ [Next]_vars => OrderInv'
<1> QED BY DEF OrderInv, Next, vars, EntryPanic, New, Skip, Visit, Pop, VisitTerminator,
              Insert, SortByPath, Sorted

\* Sorted lists of one set agree on the path at each position: were a smaller
\* one in the first list at k, the k elements up to there would have to be
\* among the fewer than k that come before position k in the second.
LEMMA NotSmaller ==
    ASSUME NEW S \in SUBSET Local, NEW a \in Orderings(S), NEW b \in Orderings(S),
           Sorted(a), Sorted(b), NEW k \in DOMAIN a
    PROVE  ~(Path[a[k]] < Path[b[k]])
<1>1. IsFiniteSet(S)
  BY CrateAssumption, FS_Subset
<1>2. PICK n : n = Cardinality(S)
  OBVIOUS
<1>3. /\ n \in Nat /\ a \in [1 .. n -> S] /\ b \in [1 .. n -> S] /\ Distinct(a)
      /\ DOMAIN a = 1 .. n /\ k \in 1 .. n
      /\ \A x \in S : \E i \in 1 .. n : b[i] = x
  BY <1>1, <1>2, OrderingDistinct, FS_CardinalityType DEF Orderings
<1>4. \A x \in S : Path[x] \in Nat
  BY CrateAssumption DEF Fns
<1>5. SUFFICES ASSUME Path[a[k]] < Path[b[k]] PROVE FALSE
  OBVIOUS
<1>6. ASSUME NEW j \in 1 .. k PROVE \E i \in 1 .. k - 1 : b[i] = a[j]
  <2>1. j \in 1 .. n /\ a[j] \in S /\ a[k] \in S /\ b[k] \in S
    BY <1>3
  <2>2. PICK i \in 1 .. n : b[i] = a[j]
    BY <1>3, <2>1
  <2>3. Path[a[j]] <= Path[a[k]]
    <3>1. j = k \/ j < k
      BY <1>3
    <3>2. CASE j = k
      BY <1>4, <2>1, <3>2
    <3>3. CASE j < k
      BY <1>3, <2>1, <3>3 DEF Sorted
    <3> QED BY <3>1, <3>2, <3>3
  <2>4. Path[b[i]] < Path[b[k]]
    BY <1>4, <1>5, <2>1, <2>2, <2>3
  <2>5. ~(k <= i)
    <3> SUFFICES ASSUME k <= i PROVE FALSE
      OBVIOUS
    <3>1. k = i \/ k < i
      BY <1>3
    <3>2. Path[b[k]] <= Path[b[i]]
      BY <1>3, <1>4, <2>1, <3>1 DEF Sorted
    <3> QED BY <1>4, <2>1, <2>2, <2>4, <3>2
  <2>6. i \in 1 .. k - 1
    BY <1>3, <2>5
  <2> QED BY <2>2, <2>6
<1> DEFINE where == [j \in 1 .. k |-> CHOOSE i \in 1 .. k - 1 : b[i] = a[j]]
<1>7. \A j \in 1 .. k : where[j] \in 1 .. k - 1 /\ b[where[j]] = a[j]
  BY <1>6
<1>8. where \in [1 .. k -> 1 .. k - 1]
  BY <1>7
<1>9. /\ IsFiniteSet(1 .. k) /\ IsFiniteSet(1 .. k - 1)
      /\ Cardinality(1 .. k - 1) < Cardinality(1 .. k)
  <2>1. k \in Nat /\ k - 1 \in Nat /\ k - 1 < k
    BY <1>3
  <2> QED BY <2>1, UpTo
<1> HIDE DEF where
<1>10. PICK x \in 1 .. k, y \in 1 .. k : x # y /\ where[x] = where[y]
  BY <1>8, <1>9, FS_PigeonHole
<1>11. a[x] = a[y]
  BY <1>7, <1>10
<1>12. x \in 1 .. n /\ y \in 1 .. n
  BY <1>3
<1> QED BY <1>3, <1>10, <1>11, <1>12 DEF Distinct

LEMMA SortedAgree ==
    ASSUME NEW S \in SUBSET Local, NEW a \in Orderings(S), NEW b \in Orderings(S),
           Sorted(a), Sorted(b)
    PROVE  /\ Len(a) = Len(b)
           /\ \A k \in DOMAIN a : Path[a[k]] = Path[b[k]]
<1>1. /\ IsFiniteSet(S) /\ DOMAIN a = DOMAIN b /\ Len(a) = Len(b)
      /\ \A k \in DOMAIN a : a[k] \in S /\ b[k] \in S
  <2>1. IsFiniteSet(S)
    BY CrateAssumption, FS_Subset
  <2> QED BY <2>1, OrderingDistinct DEF Orderings
<1>2. \A x \in S : Path[x] \in Nat
  BY CrateAssumption DEF Fns
<1> SUFFICES ASSUME NEW k \in DOMAIN a PROVE Path[a[k]] = Path[b[k]]
  BY <1>1
<1>3. ~(Path[a[k]] < Path[b[k]]) /\ ~(Path[b[k]] < Path[a[k]])
  BY <1>1, NotSmaller
<1> QED BY <1>1, <1>2, <1>3
-----------------------------------------------------------------------------
(* Analyzed twice.                                                         *)

\* A list without repetitions of what another one has is no longer.
LEMMA OnceNoLonger ==
    ASSUME NEW T, NEW v \in Seq(T), NEW w \in Seq(T),
           Elements(v) \subseteq Elements(w), \A j, k \in DOMAIN v : v[j] = v[k] => j = k
    PROVE  Len(v) <= Len(w)
<1>1. PICK m, n : m = Len(v) /\ n = Len(w)
  OBVIOUS
<1>2. m \in Nat /\ n \in Nat /\ DOMAIN v = 1 .. m /\ DOMAIN w = 1 .. n
  BY <1>1
<1>3. ASSUME n < m PROVE FALSE
  <2> DEFINE where == [j \in 1 .. m |-> CHOOSE i \in 1 .. n : w[i] = v[j]]
  <2>1. \A j \in 1 .. m : \E i \in 1 .. n : w[i] = v[j]
    BY <1>2 DEF Elements
  <2>2. \A j \in 1 .. m : where[j] \in 1 .. n /\ w[where[j]] = v[j]
    BY <2>1
  <2>3. where \in [1 .. m -> 1 .. n]
    BY <2>2
  <2>4. /\ IsFiniteSet(1 .. m) /\ IsFiniteSet(1 .. n)
        /\ Cardinality(1 .. n) < Cardinality(1 .. m)
    BY <1>2, <1>3, UpTo
  <2> HIDE DEF where
  <2>5. PICK x \in 1 .. m, y \in 1 .. m : x # y /\ where[x] = where[y]
    BY <2>3, <2>4, FS_PigeonHole
  <2>6. v[x] = v[y]
    BY <2>2, <2>5
  <2> QED BY <1>2, <2>5, <2>6
<1> QED BY <1>1, <1>2, <1>3

LEMMA AscendingOnce ==
    ASSUME NEW v \in Seq(Nat), Ascending(v)
    PROVE  \A j, k \in DOMAIN v : v[j] = v[k] => j = k
<1> SUFFICES ASSUME NEW j \in DOMAIN v, NEW k \in DOMAIN v, j # k PROVE v[j] # v[k]
  OBVIOUS
<1>1. v[j] \in Nat /\ v[k] \in Nat /\ (j < k \/ k < j)
  OBVIOUS
<1> QED BY <1>1 DEF Ascending

\* The first k elements of v would be among the fewer than k of w before k.
LEMMA AscendingNotSmaller ==
    ASSUME NEW v \in Seq(Nat), NEW w \in Seq(Nat), Ascending(v), Ascending(w),
           Elements(v) \subseteq Elements(w), NEW k \in DOMAIN v, k \in DOMAIN w
    PROVE  ~(v[k] < w[k])
<1> SUFFICES ASSUME v[k] < w[k] PROVE FALSE
  OBVIOUS
<1>1. PICK m, n : m = Len(v) /\ n = Len(w)
  OBVIOUS
<1>2. /\ m \in Nat /\ n \in Nat /\ v \in [1 .. m -> Nat] /\ w \in [1 .. n -> Nat]
      /\ k \in 1 .. m /\ k \in 1 .. n
      /\ \A x, y \in 1 .. m : x < y => v[x] < v[y]
      /\ \A x, y \in 1 .. n : x < y => w[x] < w[y]
  <2>1. DOMAIN v = 1 .. m /\ DOMAIN w = 1 .. n /\ m \in Nat /\ n \in Nat
    BY <1>1
  <2>2. v \in [1 .. m -> Nat] /\ w \in [1 .. n -> Nat]
    BY <1>1
  <2> QED BY <2>1, <2>2 DEF Ascending
<1>3. ASSUME NEW j \in 1 .. k PROVE \E i \in 1 .. k - 1 : w[i] = v[j]
  <2>1. j \in 1 .. m /\ (j = k \/ j < k)
    BY <1>2
  <2>2. PICK i \in 1 .. n : w[i] = v[j]
    BY <1>2, <2>1 DEF Elements
  <2>3. v[j] <= v[k]
    BY <1>2, <2>1
  <2>4. w[i] < w[k]
    BY <1>2, <2>1, <2>2, <2>3
  <2>5. i < k
    BY <1>2, <2>4
  <2> QED BY <1>2, <2>2, <2>5
<1> DEFINE a == [j \in 1 .. k |-> v[j]]
           b == [j \in 1 .. k - 1 |-> w[j]]
<1>4. /\ a \in Seq(Nat) /\ b \in Seq(Nat) /\ Len(a) = k /\ Len(b) = k - 1
      /\ DOMAIN a = 1 .. k /\ DOMAIN b = 1 .. k - 1
  BY <1>2
<1>5. /\ \A j \in 1 .. k : a[j] = v[j] /\ j \in 1 .. m
      /\ \A j \in 1 .. k - 1 : b[j] = w[j]
  BY <1>2
<1> HIDE DEF a, b
<1>6. Elements(a) \subseteq Elements(b)
  <2>1. ASSUME NEW j \in 1 .. k PROVE \E i \in 1 .. k - 1 : b[i] = a[j]
    <3>1. PICK i \in 1 .. k - 1 : w[i] = v[j]
      BY <1>3
    <3> QED BY <1>5, <3>1
  <2> SUFFICES ASSUME NEW j \in 1 .. k PROVE a[j] \in Elements(b)
    BY <1>4 DEF Elements
  <2> QED BY <1>4, <2>1 DEF Elements
<1>7. \A x, y \in DOMAIN a : a[x] = a[y] => x = y
  BY <1>1, <1>2, <1>4, <1>5, AscendingOnce
<1>8. Len(a) <= Len(b)
  BY <1>4, <1>6, <1>7, OnceNoLonger
<1> QED BY <1>2, <1>4, <1>8

\* A set of numbers is listed in order in one way.
LEMMA AscendingAgree ==
    ASSUME NEW v \in Seq(Nat), NEW w \in Seq(Nat), Ascending(v), Ascending(w),
           Elements(v) = Elements(w)
    PROVE  v = w
<1>1. Len(v) <= Len(w) /\ Len(w) <= Len(v)
  BY AscendingOnce, OnceNoLonger
<1>2. Len(v) = Len(w) /\ DOMAIN v = DOMAIN w
  BY <1>1
<1>3. ASSUME NEW k \in DOMAIN v PROVE v[k] = w[k]
  <2>1. ~(v[k] < w[k])
    BY <1>2, AscendingNotSmaller
  <2>2. ~(w[k] < v[k])
    BY <1>2, AscendingNotSmaller
  <2> QED BY <1>2, <2>1, <2>2
<1> QED BY <1>2, <1>3

\* The worklist, with all that is known of it.
WorklistInv ==
    /\ TypeOK /\ SearchInv /\ PathInv /\ DepthInv /\ CallSitesExact /\ OriginInv /\ OrderInv
    /\ pc = "panicked" => EntryPanics(crate)

\* What an analysis returns, as far as the crate determines it.
Returned(map, calls, list) ==
    /\ DOMAIN map = Analyzed(crate)
    /\ \A f \in Analyzed(crate) :
          /\ map[f].calls_to \in [Fns -> Seq(Nat)]
          /\ \A g \in Fns :
                /\ Ascending(map[f].calls_to[g])
                /\ Elements(map[f].calls_to[g])
                      = {i \in DOMAIN crate.body[f] : crate.body[f][i] = g}
          /\ IsCallPath(crate, map[f].through, f)
          /\ Len(map[f].through) \in Nat
          /\ map[f].through \in [1 .. Len(map[f].through) -> Calls(crate)]
          /\ \A n \in 0 .. Len(map[f].through) - 1 :
                \A p \in [1 .. n -> Calls(crate)] : ~IsCallPath(crate, p, f)
    /\ calls \in [Extern -> Seq(Local \X Nat)]
    /\ \A g \in Extern :
          HasOnce(calls[g], {call \in Calls(crate) :
                               call[1] \in Analyzed(crate) /\ Callee(crate, call) = g})
    /\ list \in Orderings(Analyzed(crate)) /\ Sorted(list)

FirstInv ==
    first.done => /\ ~EntryPanics(crate)
                  /\ Returned(first.locally_reachable, first.all_reachable, first.order)

LEMMA WorklistInit == Init => WorklistInv
<1> QED BY TypeInit, SearchInit, PathInit, DepthInit, CallsInit, OriginInit
           DEF Init, WorklistInv, OrderInv

LEMMA WorklistNext == WorklistInv /\ [Next]_vars => WorklistInv'
<1> SUFFICES ASSUME WorklistInv, [Next]_vars PROVE WorklistInv'
  OBVIOUS
<1>1. /\ TypeOK' /\ SearchInv' /\ PathInv' /\ DepthInv' /\ CallSitesExact' /\ OriginInv'
      /\ OrderInv'
  BY TypeNext, SearchNext, PathNext, DepthNext, CallsNext, OriginNext, OrderNext DEF WorklistInv
<1>2. pc' = "panicked" => EntryPanics(crate')
  BY DEF WorklistInv, Next, vars, EntryPanic, New, Skip, Visit, Pop, VisitTerminator, Insert,
         SortByPath
<1> QED BY <1>1, <1>2 DEF WorklistInv

LEMMA WhenDone ==
    ASSUME WorklistInv, pc = "done"
    PROVE  ~EntryPanics(crate) /\ Returned(locally_reachable, all_reachable, order)
<1>1. ~EntryPanics(crate) /\ DOMAIN locally_reachable = Analyzed(crate)
  BY DoneVisited DEF WorklistInv, OriginInv, VisitedExactly
<1>2. Analyzed(crate) \in SUBSET Local /\ crate \in Crates
  BY DEF Analyzed, Reachable, WorklistInv, TypeOK
<1>3. ASSUME NEW f \in Analyzed(crate)
      PROVE  /\ locally_reachable[f].calls_to \in [Fns -> Seq(Nat)]
             /\ \A g \in Fns :
                   /\ Ascending(locally_reachable[f].calls_to[g])
                   /\ Elements(locally_reachable[f].calls_to[g])
                         = {i \in DOMAIN crate.body[f] : crate.body[f][i] = g}
             /\ Len(locally_reachable[f].through) \in Nat
             /\ locally_reachable[f].through
                   \in [1 .. Len(locally_reachable[f].through) -> Calls(crate)]
             /\ IsCallPath(crate, locally_reachable[f].through, f)
             /\ \A n \in 0 .. Len(locally_reachable[f].through) - 1 :
                   \A p \in [1 .. n -> Calls(crate)] : ~IsCallPath(crate, p, f)
  <2>1. PICK e : e = locally_reachable[f]
    OBVIOUS
  <2>2. e \in Visited
    BY <1>1, <1>3, <2>1 DEF WorklistInv, TypeOK
  <2>3. e.calls_to \in [Fns -> Seq(Nat)] /\ e.through \in Seq(Local \X Nat)
    BY <2>2 DEF Visited
  <2>4. \A g \in Fns :
           /\ Ascending(e.calls_to[g])
           /\ Elements(e.calls_to[g]) = {i \in DOMAIN crate.body[f] : crate.body[f][i] = g}
    BY <1>1, <1>3, <2>1 DEF WorklistInv, CallSitesExact
  <2>6. IsCallPath(crate, e.through, f)
    BY <1>1, <2>1 DEF WorklistInv, PathInv, ThroughIsCallPath
  <2>7. Len(e.through) \in Nat /\ e.through \in [1 .. Len(e.through) -> Calls(crate)]
    <3>1. Len(e.through) \in Nat /\ DOMAIN e.through = 1 .. Len(e.through)
      BY <2>3
    <3>2. \A k \in DOMAIN e.through : e.through[k] \in Calls(crate)
      BY <2>3, <2>6 DEF IsCallPath
    <3> QED BY <2>3, <3>1, <3>2
  <2>8. \A n \in 0 .. Len(e.through) - 1 :
           \A p \in [1 .. n -> Calls(crate)] : ~IsCallPath(crate, p, f)
    BY <1>1, <2>1, DepthIsLeast DEF WorklistInv, ShortestThrough
  <2> QED BY <2>1, <2>3, <2>4, <2>6, <2>7, <2>8
<1>4. /\ all_reachable \in [Extern -> Seq(Local \X Nat)]
      /\ \A g \in Extern :
            HasOnce(all_reachable[g],
                    {call \in Calls(crate) :
                       call[1] \in Analyzed(crate) /\ Callee(crate, call) = g})
  <2>1. \A call \in Calls(crate) : call[2] \in DOMAIN crate.body[call[1]]
    BY DEF Calls
  <2>2. \A call \in Calls(crate) : call[2] \in Passed(call[1]) <=> call[1] \in Analyzed(crate)
    BY <1>1, <2>1 DEF Passed
  <2>3. ASSUME NEW g \in Extern
        PROVE  HasOnce(all_reachable[g],
                       {call \in Calls(crate) :
                          call[1] \in Analyzed(crate) /\ Callee(crate, call) = g})
    <3>1. {call \in Calls(crate) : call[2] \in Passed(call[1]) /\ Callee(crate, call) = g}
            = {call \in Calls(crate) : call[1] \in Analyzed(crate) /\ Callee(crate, call) = g}
      BY <2>2
    <3>2. HasOnce(all_reachable[g],
                  {call \in Calls(crate) :
                     call[2] \in Passed(call[1]) /\ Callee(crate, call) = g})
      BY DEF WorklistInv, CallSitesExact
    <3> QED BY <3>1, <3>2
  <2>4. all_reachable \in [Extern -> Seq(Local \X Nat)]
    BY DEF WorklistInv, TypeOK
  <2> QED BY <2>3, <2>4
<1>5. order \in Orderings(Analyzed(crate)) /\ Sorted(order)
  BY <1>1 DEF WorklistInv, OrderInv
<1> QED BY <1>1, <1>3, <1>4, <1>5 DEF Returned

LEMMA TwiceInvInit == TwiceInit => WorklistInv /\ FirstInv
<1> QED BY WorklistInit DEF TwiceInit, FirstInv, NotYet

LEMMA AgainInits == WorklistInv /\ Again => Init'
<1> QED BY DEF WorklistInv, SearchInv, IdleOutsideLoop, TypeOK, Again, Init

LEMMA TwiceInvNext ==
    WorklistInv /\ FirstInv /\ [TwiceNext]_<<vars, first>> => WorklistInv' /\ FirstInv'
<1> SUFFICES ASSUME WorklistInv, FirstInv, [TwiceNext]_<<vars, first>>
             PROVE  WorklistInv' /\ FirstInv'
  OBVIOUS
<1>1. CASE Analyze \/ UNCHANGED <<vars, first>>
  <2>1. [Next]_vars /\ first' = first
    BY <1>1 DEF Analyze
  <2>2. crate' = crate
    BY <2>1 DEF Next, vars, EntryPanic, New, Skip, Visit, Pop, VisitTerminator, Insert, SortByPath
  <2>3. FirstInv'
    BY <2>1, <2>2 DEF FirstInv, Returned, Sorted, HasOnce, Ascending, Elements
  <2> QED BY <2>1, <2>3, WorklistNext
<1>2. CASE Again
  <2>1. WorklistInv'
    <3>1. Init'
      BY <1>2, AgainInits
    <3>2. Init' => WorklistInv'
      BY WorklistInit, PTL
    <3> QED BY <3>1, <3>2
  <2>2. /\ crate' = crate /\ pc = "done"
        /\ first' = [done |-> TRUE, order |-> order, locally_reachable |-> locally_reachable,
                     all_reachable |-> all_reachable]
    BY <1>2 DEF Again
  <2>3. ~EntryPanics(crate) /\ Returned(locally_reachable, all_reachable, order)
    BY <2>2, WhenDone
  <2>4. FirstInv'
    BY <2>2, <2>3 DEF FirstInv, Returned, Sorted, HasOnce, Ascending, Elements
  <2> QED BY <2>1, <2>4
<1> QED BY <1>1, <1>2 DEF TwiceNext

\* Two results agree: neither chain to a function can be the shorter one, and
\* lists sorted by path differ among equal paths only.
LEMMA ReturnedAgree ==
    ASSUME NEW m1, NEW m2, NEW c1, NEW c2, NEW l1, NEW l2,
           Returned(m1, c1, l1), Returned(m2, c2, l2)
    PROVE  /\ DOMAIN m1 = DOMAIN m2
           /\ \A f \in DOMAIN m1 : /\ m1[f].calls_to = m2[f].calls_to
                                   /\ Len(m1[f].through) = Len(m2[f].through)
           /\ \A g \in Extern : /\ Elements(c1[g]) = Elements(c2[g])
                                 /\ Len(c1[g]) = Len(c2[g])
           /\ Len(l1) = Len(l2)
           /\ \A k \in DOMAIN l1 : Path[l1[k]] = Path[l2[k]]
<1>1. ASSUME NEW f \in Analyzed(crate)
      PROVE  Len(m1[f].through) = Len(m2[f].through)
  <2>1. Len(m1[f].through) \in Nat /\ Len(m2[f].through) \in Nat
    BY DEF Returned
  <2>2. ~(Len(m1[f].through) < Len(m2[f].through))
    <3> SUFFICES ASSUME Len(m1[f].through) < Len(m2[f].through) PROVE FALSE
      OBVIOUS
    <3>1. Len(m1[f].through) \in 0 .. Len(m2[f].through) - 1
      BY <2>1
    <3> QED BY <3>1 DEF Returned
  <2>3. ~(Len(m2[f].through) < Len(m1[f].through))
    <3> SUFFICES ASSUME Len(m2[f].through) < Len(m1[f].through) PROVE FALSE
      OBVIOUS
    <3>1. Len(m2[f].through) \in 0 .. Len(m1[f].through) - 1
      BY <2>1
    <3> QED BY <3>1 DEF Returned
  <2> QED BY <2>1, <2>2, <2>3
<1>2. Analyzed(crate) \in SUBSET Local
  BY DEF Analyzed, Reachable
<1>3. Len(l1) = Len(l2) /\ \A k \in DOMAIN l1 : Path[l1[k]] = Path[l2[k]]
  BY <1>2, SortedAgree DEF Returned
<1>4. ASSUME NEW f \in Analyzed(crate) PROVE m1[f].calls_to = m2[f].calls_to
  <2>1. PICK v, w : v = m1[f].calls_to /\ w = m2[f].calls_to
    OBVIOUS
  <2>2. /\ v \in [Fns -> Seq(Nat)] /\ w \in [Fns -> Seq(Nat)]
        /\ \A g \in Fns : Ascending(v[g]) /\ Ascending(w[g]) /\ Elements(v[g]) = Elements(w[g])
    <3>1. /\ v \in [Fns -> Seq(Nat)]
          /\ \A g \in Fns :
                /\ Ascending(v[g])
                /\ Elements(v[g]) = {i \in DOMAIN crate.body[f] : crate.body[f][i] = g}
      BY <2>1 DEF Returned
    <3>2. /\ w \in [Fns -> Seq(Nat)]
          /\ \A g \in Fns :
                /\ Ascending(w[g])
                /\ Elements(w[g]) = {i \in DOMAIN crate.body[f] : crate.body[f][i] = g}
      BY <2>1 DEF Returned
    <3> QED BY <3>1, <3>2
  <2>3. ASSUME NEW g \in Fns PROVE v[g] = w[g]
    BY <2>2, AscendingAgree
  <2> QED BY <2>1, <2>2, <2>3
<1>5. ASSUME NEW g \in Extern
      PROVE  Elements(c1[g]) = Elements(c2[g]) /\ Len(c1[g]) = Len(c2[g])
  <2>1. PICK v, w : v = c1[g] /\ w = c2[g]
    OBVIOUS
  <2>2. /\ v \in Seq(Local \X Nat) /\ w \in Seq(Local \X Nat) /\ Elements(v) = Elements(w)
        /\ \A j, k \in DOMAIN v : v[j] = v[k] => j = k
        /\ \A j, k \in DOMAIN w : w[j] = w[k] => j = k
    BY <2>1 DEF Returned, HasOnce
  <2>3. Len(v) <= Len(w) /\ Len(w) <= Len(v)
    BY <2>2, OnceNoLonger
  <2>4. Len(v) = Len(w)
    BY <2>2, <2>3
  <2> QED BY <2>1, <2>2, <2>4
<1> QED BY <1>1, <1>3, <1>4, <1>5 DEF Returned

\* A second analysis of an unchanged crate finds what the first one found, and
\* does not panic where that one did not, whatever the order in which its hash
\* maps are iterated: for crates of any size.
THEOREM AnalysesAgree == TwiceSpec => []SameAnalysis
<1>1. WorklistInv /\ FirstInv => SameAnalysis
  <2> SUFFICES ASSUME WorklistInv, FirstInv, first.done PROVE SameAnalysis
    BY DEF SameAnalysis, Both
  <2>1. pc # "panicked"
    BY DEF WorklistInv, FirstInv
  <2>2. CASE pc = "done"
    <3>1. /\ Returned(locally_reachable, all_reachable, order)
          /\ Returned(first.locally_reachable, first.all_reachable, first.order)
      BY <2>2, WhenDone DEF FirstInv
    <3> QED BY <2>1, <3>1, ReturnedAgree DEF SameAnalysis
  <2> QED BY <2>1, <2>2 DEF SameAnalysis, Both
<1> QED BY <1>1, TwiceInvInit, TwiceInvNext, PTL DEF TwiceSpec
-----------------------------------------------------------------------------
(* The analysis ends.                                                      *)

\* Lists of n numbers, the smaller one at the first difference before the other.
Nearer(n) == LexProductOrdering(OpToRel(<, Nat), Nat, n)

LEMMA NearerWellFounded ==
    ASSUME NEW n \in Nat PROVE IsWellFoundedOn(Nearer(n), [1 .. n -> Nat])
<1> DEFINE R == OpToRel(<, Nat)
<1>1. IsWellFoundedOn(R, Nat)
  BY NatLessThanWellFounded, Zenon
<1>2. Nearer(n) = LexProductOrdering(R, Nat, n)
  BY Zenon DEF Nearer
<1> HIDE DEF R
<1> QED BY <1>1, <1>2, WFLexProductOrdering

LEMMA NearerAt ==
    ASSUME NEW n \in Nat, NEW x \in [1 .. n -> Nat], NEW y \in [1 .. n -> Nat],
           NEW j \in 1 .. n, \A i \in 1 .. j - 1 : x[i] = y[i], x[j] < y[j]
    PROVE  <<x, y>> \in Nearer(n)
<1> DEFINE R == OpToRel(<, Nat)
<1>1. Nearer(n) = LexProductOrdering(R, Nat, n)
  BY Zenon DEF Nearer
<1>2. <<x[j], y[j]>> \in R
  <2>1. R = {ss \in Nat \X Nat : ss[1] < ss[2]}
    BY Zenon DEF OpToRel
  <2> HIDE DEF R
  <2> QED BY <2>1
<1> HIDE DEF R
<1> QED BY <1>1, <1>2 DEF LexProductOrdering

LEMMA NearerIs ==
    ASSUME NEW n \in Nat, NEW x, NEW y, <<x, y>> \in Nearer(n)
    PROVE  \E j \in 1 .. n : (\A i \in 1 .. j - 1 : x[i] = y[i]) /\ x[j] < y[j]
<1> DEFINE R == OpToRel(<, Nat)
<1>1. Nearer(n) = LexProductOrdering(R, Nat, n)
  BY Zenon DEF Nearer
<1>2. \A a, b : <<a, b>> \in R => a < b
  <2>1. R = {ss \in Nat \X Nat : ss[1] < ss[2]}
    BY Zenon DEF OpToRel
  <2> HIDE DEF R
  <2> QED BY <2>1
<1> HIDE DEF R
<1> QED BY <1>1, <1>2 DEF LexProductOrdering

\* What lies ahead of the analysis: its phases, the functions not visited, and
\* the calls of the body in hand or else the queue, which these made longer.
Unvisited == Local \ DOMAIN locally_reachable

Ahead ==
    <<IF pc = "entry" THEN 2 ELSE IF pc \in {"loop", "body"} THEN 1 ELSE 0,
      Cardinality(Unvisited),
      IF pc = "body" THEN 0 ELSE 1,
      IF pc = "body" THEN Len(Body) - pos ELSE Len(to_visit)>>

LEMMA AheadType ==
    ASSUME TypeOK, SearchInv
    PROVE  /\ Ahead \in [1 .. 4 -> Nat]
           /\ IsFiniteSet(Unvisited) /\ Cardinality(Unvisited) \in Nat
<1>1. IsFiniteSet(Unvisited) /\ Cardinality(Unvisited) \in Nat
  <2>1. Unvisited \in SUBSET Local /\ IsFiniteSet(Local)
    BY CrateAssumption DEF Unvisited
  <2> QED BY <2>1, FS_Subset, FS_CardinalityType
<1>2. (IF pc = "body" THEN Len(Body) - pos ELSE Len(to_visit)) \in Nat
  <2>1. CASE pc = "body"
    <3>1. pos \in Nat /\ pos <= Len(Body)
      BY <2>1 DEF TypeOK, SearchInv, WithinReach
    <3>2. Body \in Seq(Fns \cup {NotFn})
      BY <2>1, CrateFacts DEF TypeOK, Body, Item
    <3> QED BY <2>1, <3>1, <3>2
  <2>2. CASE pc # "body"
    BY <2>2 DEF TypeOK
  <2> QED BY <2>1, <2>2
<1>3. \A a, b, c, e \in Nat : <<a, b, c, e>> \in [1 .. 4 -> Nat]
  OBVIOUS
<1> QED BY <1>1, <1>2, <1>3 DEF Ahead

LEMMA NextAdvances == TypeOK /\ SearchInv /\ Next => <<Ahead', Ahead>> \in Nearer(4)
<1> SUFFICES ASSUME TypeOK, SearchInv, Next PROVE <<Ahead', Ahead>> \in Nearer(4)
  OBVIOUS
<1>1. TypeOK' /\ SearchInv'
  BY TypeNext, SearchNext
<1>2. PICK x, y : x = Ahead' /\ y = Ahead
  OBVIOUS
<1>3. x \in [1 .. 4 -> Nat] /\ y \in [1 .. 4 -> Nat]
  <2>1. Ahead \in [1 .. 4 -> Nat]
    BY AheadType
  <2>2. (Ahead \in [1 .. 4 -> Nat])'
    BY <1>1, AheadType, PTL
  <2> QED BY <1>2, <2>1, <2>2
<1>n. ASSUME NEW j \in 1 .. 4, \A i \in 1 .. j - 1 : x[i] = y[i], x[j] < y[j]
      PROVE  <<Ahead', Ahead>> \in Nearer(4)
  <2>1. <<x, y>> \in Nearer(4)
    BY <1>3, <1>n, NearerAt
  <2> QED BY <1>2, <2>1
<1>4. /\ y[1] = (IF pc = "entry" THEN 2 ELSE IF pc \in {"loop", "body"} THEN 1 ELSE 0)
      /\ y[2] = Cardinality(Unvisited)
      /\ y[3] = (IF pc = "body" THEN 0 ELSE 1)
      /\ y[4] = (IF pc = "body" THEN Len(Body) - pos ELSE Len(to_visit))
  BY <1>2 DEF Ahead
<1>5. /\ x[1] = (IF pc' = "entry" THEN 2 ELSE IF pc' \in {"loop", "body"} THEN 1 ELSE 0)
      /\ x[2] = Cardinality(Unvisited)'
      /\ x[3] = (IF pc' = "body" THEN 0 ELSE 1)
      /\ x[4] = (IF pc' = "body" THEN Len(Body)' - pos' ELSE Len(to_visit'))
  BY <1>2 DEF Ahead
<1>6. locally_reachable' = locally_reachable => x[2] = y[2]
  BY <1>4, <1>5 DEF Unvisited
<1>7. CASE EntryPanic \/ New \/ SortByPath
  <2>1. x[1] < y[1]
    BY <1>4, <1>5, <1>7 DEF EntryPanic, New, SortByPath
  <2> QED BY <1>n, <2>1
<1>8. CASE Skip
  <2>1. /\ pc = "loop" /\ pc' = "loop" /\ to_visit' = Tail(to_visit) /\ to_visit # << >>
        /\ to_visit \in Seq(Item) /\ locally_reachable' = locally_reachable
    BY <1>8 DEF Skip, Pop, TypeOK
  <2>2. x[1] = y[1] /\ x[2] = y[2] /\ x[3] = y[3]
    BY <1>4, <1>5, <1>6, <2>1
  <2>3. x[4] < y[4]
    <3>1. Len(to_visit') = Len(to_visit) - 1 /\ Len(to_visit) \in Nat
      BY <2>1, HeadAndTail
    <3> QED BY <1>4, <1>5, <2>1, <3>1
  <2>4. \A i \in 1 .. 4 - 1 : x[i] = y[i]
    BY <2>2
  <2> QED BY <1>n, <2>3, <2>4
<1>9. CASE Visit
  <2>1. pc = "loop" /\ pc' = "body" /\ locally_reachable' = locally_reachable
    BY <1>9 DEF Visit, Pop
  <2>2. x[1] = y[1] /\ x[2] = y[2] /\ x[3] < y[3]
    BY <1>4, <1>5, <1>6, <2>1
  <2>3. \A i \in 1 .. 3 - 1 : x[i] = y[i]
    BY <2>2
  <2> QED BY <1>n, <2>2, <2>3
<1>10. CASE VisitTerminator
  <2>1. /\ pc = "body" /\ pc' = "body" /\ pos' = pos + 1 /\ pos \in Nat
        /\ locally_reachable' = locally_reachable /\ Len(Body)' = Len(Body)
        /\ pos < Len(Body)
    BY <1>10 DEF VisitTerminator, TypeOK, Body
  <2>2. x[1] = y[1] /\ x[2] = y[2] /\ x[3] = y[3]
    BY <1>4, <1>5, <1>6, <2>1
  <2>3. x[4] < y[4]
    <3>1. x[4] = Len(Body) - (pos + 1) /\ y[4] = Len(Body) - pos /\ y[4] \in Nat
      BY <1>3, <1>4, <1>5, <2>1
    <3>2. Len(Body) \in Nat
      BY <2>1, CrateFacts DEF TypeOK, Body, Item
    <3> QED BY <2>1, <3>1, <3>2
  <2>4. \A i \in 1 .. 4 - 1 : x[i] = y[i]
    BY <2>2
  <2> QED BY <1>n, <2>3, <2>4
<1>11. CASE Insert
  <2>1. /\ pc = "body" /\ pc' = "loop"
        /\ DOMAIN locally_reachable' = DOMAIN locally_reachable \cup {d.reach}
        /\ d.reach \in Local /\ d.reach \notin DOMAIN locally_reachable
    BY <1>11 DEF Insert, TypeOK, Item, SearchInv, WithinReach
  <2>2. Unvisited' = Unvisited \ {d.reach} /\ d.reach \in Unvisited
    BY <2>1 DEF Unvisited
  <2>3. x[1] = y[1] /\ x[2] < y[2]
    <3>1. IsFiniteSet(Unvisited) /\ Cardinality(Unvisited) \in Nat
      BY AheadType
    <3>2. Cardinality(Unvisited') = Cardinality(Unvisited) - 1
      BY <2>2, <3>1, FS_RemoveElement
    <3> QED BY <1>4, <1>5, <2>1, <3>1, <3>2
  <2>4. \A i \in 1 .. 2 - 1 : x[i] = y[i]
    BY <2>3
  <2> QED BY <1>n, <2>3, <2>4
<1> QED BY <1>7, <1>8, <1>9, <1>10, <1>11 DEF Next

\* However the functions of a crate call each other, each step of the worklist
\* brings its end nearer, in an order without infinite descents: the guard at
\* reach.rs:111 is enough for recursive crates, although every call is queued.
AnalysisAdvances == [][(<<Ahead', Ahead>> \in Nearer(4))]_vars

THEOREM AnalysesAdvance ==
    IsWellFoundedOn(Nearer(4), [1 .. 4 -> Nat]) /\ (Spec => AnalysisAdvances)
<1>1. IsWellFoundedOn(Nearer(4), [1 .. 4 -> Nat])
  BY NearerWellFounded
<1>2. TypeOK /\ SearchInv /\ [Next]_vars => [(<<Ahead', Ahead>> \in Nearer(4))]_vars
  BY NextAdvances
<1>3. Spec => AnalysisAdvances
  BY <1>2, TypeInit, TypeNext, SearchInit, SearchNext, PTL DEF Spec, AnalysisAdvances
<1> QED BY <1>1, <1>3
=============================================================================
