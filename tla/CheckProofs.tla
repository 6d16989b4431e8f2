---------------------------- MODULE CheckProofs ----------------------------
(* Theorems about Check.tla: the check of a crate, for every crate and every *)
(* annotation of it.                                                         *)
EXTENDS ReachProofs, Check

Elems(s)    == {s[k] : k \in DOMAIN s}
Upto(s, n)  == {s[k] : k \in 1 .. n}
Funcs(errs) == {errs[k].func : k \in DOMAIN errs}

\* A sequence has finitely many positions.
LEMMA FiniteDomain ==
    ASSUME NEW S, NEW s \in Seq(S)
    PROVE  IsFiniteSet(DOMAIN s)
<1>1. DOMAIN s = 1 .. Len(s) /\ Len(s) \in Nat
  OBVIOUS
<1>2. \A n \in Nat : IsFiniteSet(1 .. n)
  BY FS_Interval
<1> QED BY <1>1, <1>2

LEMMA ElemsOfAppend ==
    ASSUME NEW S, NEW s \in Seq(S), NEW x \in S
    PROVE  Elems(Append(s, x)) = Elems(s) \cup {x}
<1>1. Elems(Append(s, x)) \subseteq Elems(s) \cup {x}
  BY Appended DEF Elems
<1>2. Elems(s) \cup {x} \subseteq Elems(Append(s, x))
  BY Appended DEF Elems
<1> QED BY <1>1, <1>2

LEMMA UptoNext ==
    ASSUME NEW S, NEW s \in Seq(S), NEW n \in Nat, n < Len(s)
    PROVE  /\ n + 1 \in DOMAIN s
           /\ Upto(s, n + 1) = Upto(s, n) \cup {s[n + 1]}
<1>1. 1 .. n + 1 = (1 .. n) \cup {n + 1}
  OBVIOUS
<1> QED BY <1>1 DEF Upto

LEMMA UptoLen ==
    ASSUME NEW S, NEW s \in Seq(S)
    PROVE  Upto(s, Len(s)) = Elems(s) /\ Upto(s, 0) = {}
<1> QED BY DEF Upto, Elems

LEMMA FuncsOfConcat ==
    ASSUME NEW s \in Seq(LocalError), NEW t \in Seq(LocalError)
    PROVE  /\ s \o t \in Seq(LocalError)
           /\ Funcs(s \o t) = Funcs(s) \cup Funcs(t)
<1>1. /\ s \o t \in Seq(LocalError) /\ Len(s \o t) = Len(s) + Len(t)
      /\ Len(s) \in Nat /\ Len(t) \in Nat
      /\ DOMAIN s = 1 .. Len(s) /\ DOMAIN t = 1 .. Len(t)
      /\ DOMAIN (s \o t) = 1 .. Len(s) + Len(t)
  OBVIOUS
<1>2. \A k \in DOMAIN s : k \in DOMAIN (s \o t) /\ (s \o t)[k] = s[k]
  BY <1>1
<1>3. \A k \in DOMAIN t : Len(s) + k \in DOMAIN (s \o t) /\ (s \o t)[Len(s) + k] = t[k]
  BY <1>1
<1>4. \A k \in DOMAIN (s \o t) :
          \/ k \in DOMAIN s
          \/ k - Len(s) \in DOMAIN t /\ k = Len(s) + (k - Len(s))
  BY <1>1
<1>5. Funcs(s) \cup Funcs(t) \subseteq Funcs(s \o t)
  BY <1>2, <1>3 DEF Funcs
<1>6. ASSUME NEW k \in DOMAIN (s \o t)
      PROVE  (s \o t)[k].func \in Funcs(s) \cup Funcs(t)
  <2>1. CASE k \in DOMAIN s
    BY <2>1, <1>2 DEF Funcs
  <2>2. CASE k - Len(s) \in DOMAIN t /\ k = Len(s) + (k - Len(s))
    BY <2>2, <1>3 DEF Funcs
  <2> QED BY <2>1, <2>2, <1>4
<1>7. Funcs(s \o t) \subseteq Funcs(s) \cup Funcs(t)
  BY <1>6 DEF Funcs
<1> QED BY <1>1, <1>5, <1>7

LEMMA FuncsOfAppend ==
    ASSUME NEW s \in Seq(LocalError), NEW e \in LocalError
    PROVE  /\ Append(s, e) \in Seq(LocalError)
           /\ Funcs(Append(s, e)) = Funcs(s) \cup {e.func}
<1>1. Funcs(Append(s, e)) \subseteq Funcs(s) \cup {e.func}
  BY Appended DEF Funcs
<1>2. Funcs(s) \cup {e.func} \subseteq Funcs(Append(s, e))
  BY Appended DEF Funcs
<1> QED BY <1>1, <1>2
-----------------------------------------------------------------------------
(* The worklist inside the check.                                          *)

\* What the check relies on of the analysis it runs.
ReachInv == TypeOK /\ SearchInv /\ VisitedExactly /\ CallSitesExact /\ OrderInv

LEMMA ReachInvInit == Init => ReachInv
<1>1. Init => OrderInv
  BY DEF Init, OrderInv
<1> QED BY <1>1, TypeInit, SearchInit, CallsInit, DoneVisited DEF ReachInv

LEMMA ReachInvNext == ReachInv /\ [Next]_vars => ReachInv'
<1>1. TypeOK /\ SearchInv /\ [Next]_vars => TypeOK' /\ SearchInv'
  BY TypeNext, SearchNext
<1>2. TypeOK' /\ SearchInv' => VisitedExactly'
  BY DoneVisited, PTL
<1> QED BY <1>1, <1>2, CallsNext, OrderNext DEF ReachInv

LEMMA CheckStepIsReachStep == [CheckNext]_checkVars => [Next]_vars
<1> QED BY DEF checkVars, ownVars, CheckNext, LoadToml, FindReachable, Crash,
              ReachPanicked, StartPartition, PartitionFn, PartitionCrash, StartCheck,
              CheckGoesOn, CheckCrash, CheckMissed, CheckUnjustified, CheckJustified,
              Return
-----------------------------------------------------------------------------
(* What each step says of the function in hand.                            *)

InForce == toml_annotations = FromFile(notes)

LEMMA SitesAreCalls ==
    ASSUME ReachInv, NEW f \in DOMAIN locally_reachable, NEW g \in Fns
    PROVE  /\ Sites(f, g) = {i \in DOMAIN crate.body[f] : crate.body[f][i] = g}
           /\ Sites(f, g) \subseteq Nat
           /\ Sites(f, g) # {} <=> FromSpans(f, g) # << >>
           /\ FromSpans(f, g) \in Seq(Nat) /\ Ascending(FromSpans(f, g))
           /\ f \in Local
<1>1. /\ Sites(f, g) = {i \in DOMAIN crate.body[f] : crate.body[f][i] = g}
      /\ Ascending(FromSpans(f, g))
  BY DEF ReachInv, CallSitesExact, Sites, FromSpans
<1>2. crate \in Crates /\ f \in Local
  BY DEF ReachInv, TypeOK
<1>3. crate.body[f] \in Seq(Fns \cup {NotFn})
  BY <1>2, CrateFacts
<1>4. FromSpans(f, g) \in Seq(Nat)
  <2>1. locally_reachable[f] \in Visited
    BY DEF ReachInv, TypeOK
  <2> QED BY <2>1 DEF Visited, FromSpans
<1>5. Sites(f, g) # {} <=> FromSpans(f, g) # << >>
  <2>1. PICK vec : vec = FromSpans(f, g)
    OBVIOUS
  <2>2. vec # << >> <=> DOMAIN vec # {}
    BY <1>4, <2>1
  <2>3. DOMAIN vec # {} <=> Elements(vec) # {}
    BY DEF Elements
  <2> QED BY <2>1, <2>2, <2>3 DEF Sites
<1> QED BY <1>1, <1>2, <1>3, <1>4, <1>5

\* A definition has errors exactly if it is faulty, and they name it.
LEMMA DefErrorsExact ==
    ASSUME InForce, NEW f \in Local, HasObligation(f)
    PROVE  /\ DefErrors(f) \in Seq(LocalError)
           /\ Funcs(DefErrors(f)) = IF Faulty(notes, f) THEN {f} ELSE {}
<1>1. Faulty(notes, f) <=> Inconsistent(f) \/ f \notin notes.unsafe
  BY DEF Faulty, InForce, HasObligation, ObligationOf, Inconsistent, IsImplOfTrait
<1> DEFINE trait   == [kind |-> "Trait", func |-> f, calls |-> {}]
           keyword == [kind |-> "FnDefShouldHaveKeyword", func |-> f, calls |-> {}]
           traits   == IF Inconsistent(f) THEN <<trait>> ELSE << >>
           keywords == IF f \notin notes.unsafe THEN <<keyword>> ELSE << >>
<1>2. trait \in LocalError /\ keyword \in LocalError
  BY DEF LocalError
<1>3. /\ traits \in Seq(LocalError) /\ keywords \in Seq(LocalError)
      /\ Funcs(traits) = IF Inconsistent(f) THEN {f} ELSE {}
      /\ Funcs(keywords) = IF f \notin notes.unsafe THEN {f} ELSE {}
  BY <1>2 DEF Funcs
<1>4. DefErrors(f) = traits \o keywords
  BY DEF DefErrors
<1> HIDE DEF traits, keywords
<1>5. /\ DefErrors(f) \in Seq(LocalError)
      /\ Funcs(DefErrors(f)) = Funcs(traits) \cup Funcs(keywords)
  BY <1>3, <1>4, FuncsOfConcat
<1>6. CASE Faulty(notes, f)
  BY <1>1, <1>3, <1>5, <1>6
<1>7. CASE ~Faulty(notes, f)
  BY <1>1, <1>3, <1>5, <1>7
<1> QED BY <1>6, <1>7

\* There is a first call that stops the check, if there is one at all.
LEMMA FirstStopStops ==
    ASSUME ReachInv, NEW f \in DOMAIN locally_reachable, NEW g \in Stoppers(f)
    PROVE  FirstStop(f, g) \in Sites(f, g) /\ Stops(f, g, FirstStop(f, g))
<1>1. g \in Fns
  BY DEF Stoppers, CallsWObligations, CalledBy
<1>2. PICK vec : vec = FromSpans(f, g)
  OBVIOUS
<1>3. vec \in Seq(Nat) /\ \E k \in DOMAIN vec : Stops(f, g, vec[k])
  BY <1>1, <1>2, SitesAreCalls DEF Stoppers, Sites, Elements
<1> DEFINE T == {k \in DOMAIN vec : Stops(f, g, vec[k])}
<1>4. T \in SUBSET Nat /\ T # {}
  BY <1>3
<1>5. PICK m \in T : \A k \in T : m <= k
  BY <1>4, LeastNat
<1>6. /\ m \in DOMAIN vec /\ Stops(f, g, vec[m])
      /\ \A j \in 1 .. m - 1 : ~Stops(f, g, vec[j])
  BY <1>3, <1>5
<1>7. \E k \in DOMAIN vec :
         Stops(f, g, vec[k]) /\ \A j \in 1 .. k - 1 : ~Stops(f, g, vec[j])
  BY <1>6
<1> QED BY <1>2, <1>7 DEF FirstStop, Sites, Elements

LEMMA BadCallIsFaulty ==
    ASSUME InForce, NEW f, ~HasObligation(f),
           NEW i \in DOMAIN crate.body[f], BadCall(notes, f, i)
    PROVE  Faulty(notes, f)
<1> QED BY DEF Faulty, InForce, HasObligation, ObligationOf

LEMMA MissedIsFaulty ==
    ASSUME ReachInv, InForce, NEW f \in DOMAIN locally_reachable, ~HasObligation(f),
           NEW g \in Stoppers(f), ~StopsFatally(f, g, FirstStop(f, g))
    PROVE  Faulty(notes, f) /\ FirstStop(f, g) \in Nat
<1> DEFINE i == FirstStop(f, g)
<1>1. g \in Fns /\ HasObligation(g)
  BY DEF Stoppers, CallsWObligations, CalledBy
<1>2. i \in Sites(f, g) /\ Stops(f, g, i)
  BY FirstStopStops
<1>3. i \in DOMAIN crate.body[f] /\ crate.body[f][i] = g /\ i \in Nat
  BY <1>1, <1>2, SitesAreCalls
<1> HIDE DEF i
<1>4. ObligationOf(g).kind = "conditions" /\ Missed(f, g, i)
  BY <1>2 DEF Stops, StopsFatally, i
<1>5. BadCall(notes, f, i)
  BY <1>1, <1>3, <1>4 DEF BadCall, Missed, InForce, HasObligation, ObligationOf
<1> QED BY <1>3, <1>5, BadCallIsFaulty DEF i

LEMMA UnjustifiedCallsType ==
    ASSUME ReachInv, NEW f \in DOMAIN locally_reachable
    PROVE  UnjustifiedCalls(f) \subseteq Nat
<1> QED BY SitesAreCalls DEF UnjustifiedCalls, CallsWObligations, CalledBy

LEMMA UnjustifiedIsFaulty ==
    ASSUME ReachInv, InForce, NEW f \in DOMAIN locally_reachable, ~HasObligation(f),
           UnjustifiedAxioms(f) \cup UnjustifiedCalls(f) # {}
    PROVE  Faulty(notes, f)
<1>1. CASE UnjustifiedAxioms(f) # {}
  BY <1>1 DEF UnjustifiedAxioms, Faulty, InForce, HasObligation, ObligationOf
<1>2. CASE UnjustifiedCalls(f) # {}
  <2>1. PICK g \in CallsWObligations(f), i \in Nat :
           i \in Sites(f, g) /\ ~notes.sites[f][i].comment
    BY <1>2, SitesAreCalls DEF UnjustifiedCalls, CallsWObligations, CalledBy
  <2>2. g \in Fns /\ HasObligation(g)
    BY DEF CallsWObligations, CalledBy
  <2>3. i \in DOMAIN crate.body[f] /\ crate.body[f][i] = g
    BY <2>1, <2>2, SitesAreCalls
  <2>4. BadCall(notes, f, i)
    BY <2>1, <2>2, <2>3 DEF BadCall, InForce, HasObligation, ObligationOf
  <2> QED BY <2>3, <2>4, BadCallIsFaulty
<1> QED BY <1>1, <1>2

LEMMA JustifiedIsNotFaulty ==
    ASSUME ReachInv, InForce, NEW f \in DOMAIN locally_reachable, ~HasObligation(f),
           Stoppers(f) = {}, UnjustifiedAxioms(f) \cup UnjustifiedCalls(f) = {}
    PROVE  ~Faulty(notes, f)
<1>1. \A a \in DOMAIN notes.axioms[f] : notes.axioms[f][a]
  BY DEF UnjustifiedAxioms
<1>2. ASSUME NEW i \in DOMAIN crate.body[f], BadCall(notes, f, i)
      PROVE  FALSE
  <2> DEFINE g == crate.body[f][i]
  <2>1. g \in Fns /\ HasObligation(g)
    BY <1>2 DEF BadCall, InForce, HasObligation, ObligationOf
  <2>2. i \in Sites(f, g) /\ g \in CallsWObligations(f)
    BY <2>1, SitesAreCalls DEF CallsWObligations, CalledBy
  <2>3. notes.sites[f][i].comment
    BY <2>2 DEF UnjustifiedCalls
  <2>4. ~Stops(f, g, i)
    BY <2>2 DEF Stoppers
  <2> QED BY <1>2, <2>1, <2>3, <2>4
          DEF BadCall, Stops, Missed, InForce, HasObligation, ObligationOf
<1> QED BY <1>1, <1>2 DEF Faulty, InForce, HasObligation, ObligationOf
-----------------------------------------------------------------------------
(* The two loops.                                                          *)

Obliged   == {f \in Local : HasObligation(f)}
FaultySet == {f \in Local : Faulty(notes, f)}

\* The functions seen so far are set apart, and the faulty ones reported.
Partitioned ==
    /\ at <= Len(order)
    /\ Elems(reachable_no_obligations) = Upto(order, at) \ Obliged
    /\ Funcs(local_errors) = Upto(order, at) \cap Obliged \cap FaultySet

\* All functions are set apart, and those checked so far reported if faulty.
Checked ==
    /\ at <= Len(reachable_no_obligations)
    /\ Elems(reachable_no_obligations) = Analyzed(crate) \ Obliged
    /\ Funcs(local_errors) =
          (Analyzed(crate) \cap Obliged \cap FaultySet)
             \cup (Upto(reachable_no_obligations, at) \cap FaultySet)

CheckInv ==
    /\ at \in Nat
    /\ reachable_no_obligations \in Seq(Local)
    /\ local_errors \in Seq(LocalError)
    /\ stage \in {"toml", "reach", "partition", "check", "ok", "errors", "crashed"}
    /\ stage # "toml" => InForce
    /\ stage \in {"toml", "reach"} =>
          local_errors = << >> /\ reachable_no_obligations = << >>
    /\ stage \in {"partition", "check", "ok", "errors"} => pc = "done"
    /\ stage = "partition" => Partitioned
    /\ stage = "check" => Checked
    /\ ReportExact

LEMMA CheckInvInit == CheckInit => ReachInv /\ CheckInv
<1>1. CheckInit => ReachInv
  BY ReachInvInit DEF CheckInit
<1>2. CheckInit => CheckInv
  BY DEF CheckInit, CheckInv, ReportExact
<1> QED BY <1>1, <1>2

LEMMA SameNotes ==
    ASSUME UNCHANGED <<vars, notes, toml_annotations>>
    PROVE  /\ pc' = pc /\ order' = order /\ crate' = crate
           /\ Obliged' = Obliged /\ FaultySet' = FaultySet
           /\ Analyzed(crate)' = Analyzed(crate)
           /\ InForce' <=> InForce
<1>1. pc' = pc /\ order' = order /\ crate' = crate
  BY DEF vars
<1>2. Obliged' = Obliged
  BY DEF Obliged, HasObligation, ObligationOf
<1>3. FaultySet' = FaultySet
  BY <1>1 DEF FaultySet, Faulty, BadCall
<1> QED BY <1>1, <1>2, <1>3 DEF InForce

LEMMA AnalyzedOrder ==
    ASSUME ReachInv, pc = "done"
    PROVE  /\ order \in Seq(Local) /\ Elems(order) = Analyzed(crate)
           /\ Analyzed(crate) = DOMAIN locally_reachable
           /\ DOMAIN locally_reachable \subseteq Local
           /\ Len(order) = Cardinality(Analyzed(crate)) /\ Distinct(order)
<1>1. /\ order \in Orderings(Analyzed(crate)) /\ order \in Seq(Local)
      /\ DOMAIN locally_reachable = Analyzed(crate)
      /\ DOMAIN locally_reachable \subseteq Local
  BY DEF ReachInv, OrderInv, VisitedExactly, TypeOK
<1>2. IsFiniteSet(Analyzed(crate))
  BY <1>1, CrateAssumption, FS_Subset
<1>3. Elems(order) = Analyzed(crate)
  BY <1>1 DEF Orderings, Elems
<1> QED BY <1>1, <1>2, <1>3, OrderingDistinct

Found     == ReachInv /\ pc = "done"
AllFaultsLocal == {f \in Analyzed(crate) : Faulty(notes, f)} = Analyzed(crate) \cap FaultySet

LEMMA FaultyAnalyzed == Found => AllFaultsLocal
<1> SUFFICES ASSUME Found PROVE AllFaultsLocal
  OBVIOUS
<1>1. Analyzed(crate) \subseteq Local
  BY AnalyzedOrder DEF Found
<1> QED BY <1>1 DEF FaultySet, AllFaultsLocal

LEMMA FaultyAnalyzedNext == Found' => AllFaultsLocal'
<1> QED BY FaultyAnalyzed, PTL

LEMMA PartitionKeeps == ReachInv /\ CheckInv /\ PartitionFn => CheckInv'
<1> SUFFICES ASSUME ReachInv, CheckInv, PartitionFn PROVE CheckInv'
  OBVIOUS
<1>1. /\ stage = "partition" /\ stage' = stage /\ at < Len(order) /\ at' = at + 1
      /\ UNCHANGED <<vars, notes, toml_annotations>>
  BY DEF PartitionFn
<1>2. /\ at \in Nat /\ pc = "done" /\ InForce /\ Partitioned
      /\ reachable_no_obligations \in Seq(Local)
      /\ local_errors \in Seq(LocalError)
  BY <1>1 DEF CheckInv
<1>3. /\ pc' = pc /\ order' = order /\ InForce'
      /\ Obliged' = Obliged /\ FaultySet' = FaultySet
  BY <1>1, <1>2, SameNotes
<1>4. PICK f : f = order[at + 1]
  OBVIOUS
<1>5. /\ f \in Local /\ Upto(order, at + 1) = Upto(order, at) \cup {f}
      /\ at' <= Len(order)
  BY <1>1, <1>2, <1>4, AnalyzedOrder, UptoNext
<1>6. CASE HasObligation(f)
  <2>1. /\ local_errors' = local_errors \o DefErrors(f)
        /\ reachable_no_obligations' = reachable_no_obligations
    BY <1>4, <1>6 DEF PartitionFn
  <2>2. /\ local_errors' \in Seq(LocalError)
        /\ Funcs(local_errors') = Funcs(local_errors) \cup Funcs(DefErrors(f))
        /\ Funcs(DefErrors(f)) = IF Faulty(notes, f) THEN {f} ELSE {}
    BY <1>2, <1>5, <1>6, <2>1, DefErrorsExact, FuncsOfConcat
  <2>3. f \in Obliged /\ (f \in FaultySet <=> Faulty(notes, f))
    BY <1>5, <1>6 DEF Obliged, FaultySet
  <2>4. Funcs(local_errors') = Upto(order, at + 1) \cap Obliged \cap FaultySet
    BY <1>2, <1>5, <2>2, <2>3 DEF Partitioned
  <2>5. Elems(reachable_no_obligations') = Upto(order, at + 1) \ Obliged
    BY <1>2, <1>5, <2>1, <2>3 DEF Partitioned
  <2>6. Partitioned'
    BY <1>1, <1>3, <1>5, <2>4, <2>5 DEF Partitioned, Funcs, Elems, Upto
  <2> QED BY <1>1, <1>2, <1>3, <2>1, <2>2, <2>6 DEF CheckInv, ReportExact
<1>7. CASE ~HasObligation(f)
  <2>1. /\ local_errors' = local_errors
        /\ reachable_no_obligations' = Append(reachable_no_obligations, f)
    BY <1>4, <1>7 DEF PartitionFn
  <2>2. /\ reachable_no_obligations' \in Seq(Local)
        /\ Elems(reachable_no_obligations') = Elems(reachable_no_obligations) \cup {f}
    BY <1>2, <1>5, <2>1, ElemsOfAppend
  <2>3. f \notin Obliged
    BY <1>7 DEF Obliged
  <2>4. Funcs(local_errors') = Upto(order, at + 1) \cap Obliged \cap FaultySet
    BY <1>2, <1>5, <2>1, <2>3 DEF Partitioned
  <2>5. Elems(reachable_no_obligations') = Upto(order, at + 1) \ Obliged
    BY <1>2, <1>5, <2>2, <2>3 DEF Partitioned
  <2>6. Partitioned'
    BY <1>1, <1>3, <1>5, <2>4, <2>5 DEF Partitioned, Funcs, Elems, Upto
  <2> QED BY <1>1, <1>2, <1>3, <2>1, <2>2, <2>6 DEF CheckInv, ReportExact
<1> QED BY <1>6, <1>7

\* The three ways the check of a function ends without a panic.
LEMMA CheckKeeps ==
    ReachInv /\ CheckInv /\ (CheckMissed \/ CheckUnjustified \/ CheckJustified)
    => CheckInv'
<1> SUFFICES ASSUME ReachInv, CheckInv,
                    CheckMissed \/ CheckUnjustified \/ CheckJustified
             PROVE  CheckInv'
  OBVIOUS
<1>1. /\ stage = "check" /\ stage' = stage
      /\ at < Len(reachable_no_obligations) /\ at' = at + 1
      /\ reachable_no_obligations' = reachable_no_obligations
      /\ UNCHANGED <<vars, notes, toml_annotations>>
  BY DEF CheckMissed, CheckUnjustified, CheckJustified, CheckBegins, CheckGoesOn
<1>2. /\ at \in Nat /\ pc = "done" /\ InForce /\ Checked
      /\ reachable_no_obligations \in Seq(Local)
      /\ local_errors \in Seq(LocalError)
  BY <1>1 DEF CheckInv
<1>3. /\ pc' = pc /\ InForce' /\ Analyzed(crate)' = Analyzed(crate)
      /\ Obliged' = Obliged /\ FaultySet' = FaultySet
  BY <1>1, <1>2, SameNotes
<1>4. PICK f : f = Current
  OBVIOUS
<1>5. /\ at + 1 \in DOMAIN reachable_no_obligations
      /\ Upto(reachable_no_obligations, at + 1)
            = Upto(reachable_no_obligations, at) \cup {f}
      /\ at + 1 <= Len(reachable_no_obligations)
  BY <1>1, <1>2, <1>4, UptoNext DEF Current
<1>6. f \in Analyzed(crate) \ Obliged
  BY <1>2, <1>4, <1>5 DEF Checked, Elems, Current
<1>7. f \in DOMAIN locally_reachable /\ f \in Local /\ ~HasObligation(f)
  BY <1>2, <1>6, AnalyzedOrder DEF Obliged
<1>8. f \in FaultySet <=> Faulty(notes, f)
  BY <1>7 DEF FaultySet
<1>9. /\ local_errors' \in Seq(LocalError)
      /\ Funcs(local_errors') =
            Funcs(local_errors) \cup (IF f \in FaultySet THEN {f} ELSE {})
  <2>1. ASSUME NEW e \in LocalError, e.func = f, Faulty(notes, f),
               local_errors' = Append(local_errors, e)
        PROVE  /\ local_errors' \in Seq(LocalError)
               /\ Funcs(local_errors') =
                     Funcs(local_errors) \cup (IF f \in FaultySet THEN {f} ELSE {})
    BY <1>2, <1>8, <2>1, FuncsOfAppend
  <2>2. CASE CheckMissed
    <3>1. PICK g \in Stoppers(f) :
             /\ ~StopsFatally(f, g, FirstStop(f, g))
             /\ local_errors' = Append(local_errors,
                   [kind |-> "CallMissedObligations", func |-> f,
                    calls |-> {FirstStop(f, g)}])
      BY <2>2, <1>4 DEF CheckMissed
    <3>2. Faulty(notes, f) /\ FirstStop(f, g) \in Nat
      BY <1>2, <1>7, <3>1, MissedIsFaulty
    <3>3. [kind |-> "CallMissedObligations", func |-> f,
           calls |-> {FirstStop(f, g)}] \in LocalError
      BY <1>7, <3>2 DEF LocalError
    <3> QED BY <2>1, <3>1, <3>2, <3>3
  <2>3. CASE CheckUnjustified
    <3>1. /\ UnjustifiedAxioms(f) \cup UnjustifiedCalls(f) # {}
          /\ local_errors' = Append(local_errors,
                [kind |-> "Basic", func |-> f, calls |-> UnjustifiedCalls(f)])
      BY <2>3, <1>4 DEF CheckUnjustified
    <3>2. Faulty(notes, f) /\ UnjustifiedCalls(f) \subseteq Nat
      BY <1>2, <1>7, <3>1, UnjustifiedIsFaulty, UnjustifiedCallsType
    <3>3. [kind |-> "Basic", func |-> f, calls |-> UnjustifiedCalls(f)] \in LocalError
      BY <1>7, <3>2 DEF LocalError
    <3> QED BY <2>1, <3>1, <3>2, <3>3
  <2>4. CASE CheckJustified
    <3>1. /\ Stoppers(f) = {} /\ local_errors' = local_errors
          /\ UnjustifiedAxioms(f) \cup UnjustifiedCalls(f) = {}
      BY <2>4, <1>4 DEF CheckJustified
    <3>2. ~Faulty(notes, f)
      BY <1>2, <1>7, <3>1, JustifiedIsNotFaulty
    <3> QED BY <1>2, <1>8, <3>1, <3>2
  <2> QED BY <2>2, <2>3, <2>4
<1>10. Checked'
  <2>1. Funcs(local_errors') =
           (Analyzed(crate) \cap Obliged \cap FaultySet)
              \cup (Upto(reachable_no_obligations, at + 1) \cap FaultySet)
    BY <1>2, <1>5, <1>9 DEF Checked
  <2> QED BY <1>1, <1>2, <1>3, <1>5, <2>1 DEF Checked, Funcs, Elems, Upto
<1> QED BY <1>1, <1>2, <1>3, <1>9, <1>10 DEF CheckInv, ReportExact

LEMMA ReturnKeeps == ReachInv /\ CheckInv /\ Return => CheckInv'
<1> SUFFICES ASSUME ReachInv, CheckInv, Return PROVE CheckInv'
  OBVIOUS
<1>1. /\ stage = "check" /\ at = Len(reachable_no_obligations)
      /\ stage' \in {"ok", "errors"}
      /\ UNCHANGED <<at, reachable_no_obligations, local_errors>>
      /\ UNCHANGED <<vars, notes, toml_annotations>>
  BY DEF Return
<1>2. /\ at \in Nat /\ pc = "done" /\ InForce /\ Checked
      /\ reachable_no_obligations \in Seq(Local)
      /\ local_errors \in Seq(LocalError)
  BY <1>1 DEF CheckInv
<1>3. /\ pc' = pc /\ InForce' /\ Analyzed(crate)' = Analyzed(crate)
      /\ FaultySet' = FaultySet
  BY <1>1, <1>2, SameNotes
<1>4. Upto(reachable_no_obligations, at) = Elems(reachable_no_obligations)
  BY <1>1, <1>2, UptoLen
<1>5. Funcs(local_errors) = Analyzed(crate) \cap FaultySet
  BY <1>2, <1>4 DEF Checked
<1>6. Funcs(local_errors') = Analyzed(crate)' \cap FaultySet'
  BY <1>1, <1>3, <1>5
<1>7. ReachInv'
  <2>1. [CheckNext]_checkVars
    BY DEF CheckNext
  <2> QED BY <2>1, CheckStepIsReachStep, ReachInvNext
<1>8. ReportExact'
  BY <1>2, <1>3, <1>6, <1>7, FaultyAnalyzedNext DEF Found, AllFaultsLocal, ReportExact, Funcs
<1> QED BY <1>1, <1>2, <1>3, <1>8 DEF CheckInv

\* The worklist runs before the loops, and the loops leave what it found alone.
LEMMA BeforeLoopsKeeps ==
    ReachInv /\ CheckInv /\ (LoadToml \/ FindReachable) => CheckInv'
<1> SUFFICES ASSUME ReachInv, CheckInv, LoadToml \/ FindReachable PROVE CheckInv'
  OBVIOUS
<1>1. CASE LoadToml
  <2>1. InForce'
    BY <1>1 DEF LoadToml, InForce
  <2> QED BY <1>1, <2>1 DEF LoadToml, CheckInv, ReportExact
<1>2. CASE FindReachable
  <2>1. InForce'
    BY <1>2 DEF FindReachable, ownVars, InForce, CheckInv
  <2> QED BY <1>2, <2>1 DEF FindReachable, ownVars, CheckInv, ReportExact
<1> QED BY <1>1, <1>2

LEMMA CrashKeeps == CheckInv /\ Crash /\ stage # "toml" => CheckInv'
<1> SUFFICES ASSUME CheckInv, Crash, stage # "toml" PROVE CheckInv'
  OBVIOUS
<1>1. InForce'
  BY SameNotes DEF CheckInv, Crash
<1> QED BY <1>1 DEF CheckInv, Crash, ReportExact

LEMMA StartPartitionKeeps == ReachInv /\ CheckInv /\ StartPartition => CheckInv'
<1> SUFFICES ASSUME ReachInv, CheckInv, StartPartition PROVE CheckInv'
  OBVIOUS
<1>1. /\ stage = "reach" /\ pc = "done" /\ stage' = "partition" /\ at' = 0
      /\ UNCHANGED <<vars, notes, toml_annotations>>
      /\ reachable_no_obligations' = << >> /\ local_errors' = << >>
  BY DEF StartPartition, CheckInv
<1>2. /\ pc' = pc /\ order' = order /\ InForce'
  BY <1>1, SameNotes DEF CheckInv
<1>3. order \in Seq(Local)
  BY <1>1, AnalyzedOrder
<1>4. Partitioned'
  BY <1>1, <1>2, <1>3 DEF Partitioned, Elems, Upto, Funcs
<1> QED BY <1>1, <1>2, <1>4 DEF CheckInv, ReportExact

LEMMA StartCheckKeeps == ReachInv /\ CheckInv /\ StartCheck => CheckInv'
<1> SUFFICES ASSUME ReachInv, CheckInv, StartCheck PROVE CheckInv'
  OBVIOUS
<1>1. /\ stage = "partition" /\ at = Len(order) /\ stage' = "check" /\ at' = 0
      /\ UNCHANGED <<vars, notes, toml_annotations>>
      /\ reachable_no_obligations' = reachable_no_obligations
      /\ local_errors' = local_errors
  BY DEF StartCheck
<1>2. /\ pc = "done" /\ InForce /\ Partitioned
      /\ reachable_no_obligations \in Seq(Local)
      /\ local_errors \in Seq(LocalError)
  BY <1>1 DEF CheckInv
<1>3. /\ pc' = pc /\ InForce' /\ Analyzed(crate)' = Analyzed(crate)
      /\ Obliged' = Obliged /\ FaultySet' = FaultySet
  BY <1>1, <1>2, SameNotes
<1>4. Upto(order, at) = Analyzed(crate)
  BY <1>1, <1>2, AnalyzedOrder, UptoLen
<1>5. Checked'
  <2>1. /\ Elems(reachable_no_obligations) = Analyzed(crate) \ Obliged
        /\ Funcs(local_errors) = Analyzed(crate) \cap Obliged \cap FaultySet
    BY <1>2, <1>4 DEF Partitioned
  <2>2. /\ Elems(reachable_no_obligations)' = Elems(reachable_no_obligations)
        /\ Funcs(local_errors)' = Funcs(local_errors)
    BY <1>1 DEF Elems, Funcs
  <2>3. Upto(reachable_no_obligations, at)' = {}
    BY <1>1 DEF Upto
  <2>4. at' <= Len(reachable_no_obligations')
    BY <1>1, <1>2
  <2> QED BY <1>3, <2>1, <2>2, <2>3, <2>4 DEF Checked
<1> QED BY <1>1, <1>2, <1>3, <1>5 DEF CheckInv, ReportExact

LEMMA CheckInvNext == ReachInv /\ CheckInv /\ [CheckNext]_checkVars => ReachInv' /\ CheckInv'
<1> SUFFICES ASSUME ReachInv, CheckInv, [CheckNext]_checkVars
             PROVE  ReachInv' /\ CheckInv'
  OBVIOUS
<1>1. ReachInv'
  BY CheckStepIsReachStep, ReachInvNext
<1>2. CASE UNCHANGED checkVars
  <2>1. /\ stage' = stage /\ at' = at /\ local_errors' = local_errors
        /\ reachable_no_obligations' = reachable_no_obligations
        /\ UNCHANGED <<vars, notes, toml_annotations>>
    BY <1>2 DEF checkVars, ownVars
  <2>2. /\ pc' = pc /\ order' = order /\ Analyzed(crate)' = Analyzed(crate)
        /\ Obliged' = Obliged /\ FaultySet' = FaultySet /\ (InForce' <=> InForce)
    BY <2>1, SameNotes
  <2>3. (Partitioned' <=> Partitioned) /\ (Checked' <=> Checked)
    BY <2>1, <2>2 DEF Partitioned, Checked, Elems, Upto, Funcs
  <2>4. ASSUME stage \in {"ok", "errors"}
        PROVE  Funcs(local_errors') = Analyzed(crate)' \cap FaultySet'
    BY <2>1, <2>2, <2>4, FaultyAnalyzed DEF Found, AllFaultsLocal, CheckInv, ReportExact, Funcs
  <2>5. ReportExact'
    BY <1>1, <2>1, <2>2, <2>4, FaultyAnalyzedNext DEF Found, AllFaultsLocal, CheckInv, ReportExact, Funcs
  <2> QED BY <1>1, <2>1, <2>2, <2>3, <2>5 DEF CheckInv
<1>3. CASE ReachPanicked \/ PartitionCrash \/ CheckCrash
  BY <1>1, <1>3, CrashKeeps DEF ReachPanicked, PartitionCrash, CheckCrash, CheckBegins
<1>4. CASE CheckMissed \/ CheckUnjustified \/ CheckJustified
  BY <1>1, <1>4, CheckKeeps
<1> QED BY <1>1, <1>2, <1>3, <1>4, BeforeLoopsKeeps, StartPartitionKeeps,
           PartitionKeeps, StartCheckKeeps, ReturnKeeps DEF CheckNext

\* The report of a check that comes to its end names exactly the faulty
\* functions among those reachable from the entry points: for every crate, every
\* annotation of it and every order in which the hash maps are iterated, none is
\* lost or added on the way from locally_reachable_from to the error returned.
THEOREM ReportCorrect == CheckSpec => []ReportExact
<1>1. CheckInit => ReachInv /\ CheckInv
  BY CheckInvInit
<1>2. ReachInv /\ CheckInv /\ [CheckNext]_checkVars => ReachInv' /\ CheckInv'
  BY CheckInvNext
<1>3. CheckInv => ReportExact
  BY DEF CheckInv
<1> QED BY <1>1, <1>2, <1>3, PTL DEF CheckSpec
-----------------------------------------------------------------------------
(* Types, and the two modes.                                               *)

\* What CheckInv does not say of the types, and that a passing crate has no error.
RestInv ==
    /\ notes \in Notes
    /\ \A p \in DOMAIN toml_annotations : toml_annotations[p] \in Table
    /\ stats \in CheckStats
    /\ stage = "ok" => local_errors = << >>

LEMMA FromFileType ==
    ASSUME NEW n \in Notes
    PROVE  \A p \in DOMAIN FromFile(n) : FromFile(n)[p] \in Table
<1>1. n.toml.tables \in [DOMAIN n.toml.tables -> Table]
  BY NotesAssumption DEF IsNotes
<1> QED BY <1>1 DEF FromFile, NoTables

\* The places of the Vecs CallCt adds up, and the calls in them.
Slots(f) == UNION {{<<g, k>> : k \in DOMAIN FromSpans(f, g)} : g \in CallsWObligations(f)}
Counted(f) == UNION {Sites(f, g) : g \in CallsWObligations(f)}

\* The calls of an analyzed function are finitely many, and no two places of
\* the Vecs hold the same one.
LEMMA CountedOnce ==
    ASSUME ReachInv, NEW f \in DOMAIN locally_reachable
    PROVE  /\ IsFiniteSet(Counted(f)) /\ IsFiniteSet(Slots(f))
           /\ CallCt(f) = Cardinality(Counted(f))
<1>1. crate \in Crates /\ f \in Local
  BY DEF ReachInv, TypeOK
<1>2. crate.body[f] \in Seq(Fns \cup {NotFn})
  BY <1>1, CrateFacts
<1>3. IsFiniteSet(DOMAIN crate.body[f])
  BY <1>2, FiniteDomain
<1>4. Counted(f) \subseteq DOMAIN crate.body[f]
  BY SitesAreCalls DEF CallsWObligations, CalledBy, Counted
<1>5. IsFiniteSet(Counted(f))
  BY <1>3, <1>4, FS_Subset
<1> DEFINE b == [s \in Slots(f) |-> FromSpans(f, s[1])[s[2]]]
<1>6. ASSUME NEW s \in Slots(f)
      PROVE  /\ s = <<s[1], s[2]>> /\ s[1] \in CallsWObligations(f) /\ s[1] \in Fns
             /\ s[2] \in DOMAIN FromSpans(f, s[1])
             /\ b[s] = FromSpans(f, s[1])[s[2]] /\ b[s] \in Sites(f, s[1])
    <2>1. PICK g \in CallsWObligations(f) : \E k \in DOMAIN FromSpans(f, g) : s = <<g, k>>
      BY DEF Slots
    <2>2. PICK k \in DOMAIN FromSpans(f, g) : s = <<g, k>>
      BY <2>1
    <2>3. b[s] = FromSpans(f, s[1])[s[2]]
      OBVIOUS
    <2> HIDE DEF b
    <2> QED BY <2>2, <2>3 DEF Sites, Elements, CallsWObligations, CalledBy
<1>7. b \in [Slots(f) -> Counted(f)]
  BY <1>6 DEF Counted
<1> HIDE DEF b
<1>8. ASSUME NEW s \in Slots(f), NEW t \in Slots(f), b[s] = b[t] PROVE s = t
  <2>1. crate.body[f][b[s]] = s[1] /\ crate.body[f][b[t]] = t[1]
    BY <1>6, SitesAreCalls
  <2>2. PICK vec : vec = FromSpans(f, s[1])
    OBVIOUS
  <2>3. vec \in Seq(Nat) /\ Ascending(vec)
    BY <1>6, <2>2, SitesAreCalls
  <2>4. s[2] \in DOMAIN vec /\ t[2] \in DOMAIN vec /\ vec[s[2]] = vec[t[2]]
    BY <1>6, <1>8, <2>1, <2>2
  <2>5. s[2] = t[2]
    BY <2>3, <2>4, AscendingOnce
  <2> QED BY <1>6, <1>8, <2>1, <2>5
<1>9. ASSUME NEW i \in Counted(f) PROVE \E s \in Slots(f) : b[s] = i
  <2>1. PICK g \in CallsWObligations(f) : i \in Sites(f, g)
    BY DEF Counted
  <2>2. PICK k \in DOMAIN FromSpans(f, g) : FromSpans(f, g)[k] = i
    BY <2>1 DEF Sites, Elements
  <2>3. <<g, k>> \in Slots(f)
    BY DEF Slots
  <2>4. b[<<g, k>>] = FromSpans(f, g)[k]
    BY <1>6, <2>3
  <2> QED BY <2>2, <2>3, <2>4
<1>10. b \in Injection(Slots(f), Counted(f)) /\ b \in Surjection(Slots(f), Counted(f))
  BY <1>7, <1>8, <1>9 DEF Injection, IsInjective, Surjection
<1>11. IsFiniteSet(Slots(f)) /\ Cardinality(Slots(f)) = Cardinality(Counted(f))
  BY <1>5, <1>10, FS_Injection
<1>12. CallCt(f) = Cardinality(Slots(f))
  BY DEF CallCt, Slots
<1> QED BY <1>5, <1>11, <1>12

LEMMA CallCtType ==
    ASSUME ReachInv, NEW f \in DOMAIN locally_reachable
    PROVE  CallCt(f) \in Nat
<1> QED BY CountedOnce, FS_CardinalityType

LEMMA CountBoth ==
    ASSUME NEW s \in CheckStats, NEW m \in Nat, NEW n \in Nat
    PROVE  /\ [s EXCEPT !.total_fns_checked = m, !.w_obligation = n] \in CheckStats
           /\ [s EXCEPT !.total_fns_checked = m, !.w_no_obligation = n] \in CheckStats
<1>1. [s EXCEPT !.total_fns_checked = m] \in CheckStats
  BY DEF CheckStats
<1>2. \A t \in CheckStats : /\ [t EXCEPT !.w_obligation = n] \in CheckStats
                            /\ [t EXCEPT !.w_no_obligation = n] \in CheckStats
  BY DEF CheckStats
<1>3. /\ [s EXCEPT !.total_fns_checked = m, !.w_obligation = n]
            = [[s EXCEPT !.total_fns_checked = m] EXCEPT !.w_obligation = n]
      /\ [s EXCEPT !.total_fns_checked = m, !.w_no_obligation = n]
            = [[s EXCEPT !.total_fns_checked = m] EXCEPT !.w_no_obligation = n]
  OBVIOUS
<1> QED BY <1>1, <1>2, <1>3

LEMMA RestInvInit == CheckInit => RestInv
<1> QED BY DEF CheckInit, RestInv, NoTables, NoStats, CheckStats

LEMMA RestInvNext == ReachInv /\ CheckInv /\ RestInv /\ [CheckNext]_checkVars => RestInv'
<1> SUFFICES ASSUME ReachInv, CheckInv, RestInv, [CheckNext]_checkVars PROVE RestInv'
  OBVIOUS
<1>1. CASE LoadToml
  BY <1>1, FromFileType DEF LoadToml, RestInv
<1>2. CASE FindReachable
  BY <1>2 DEF FindReachable, ownVars, RestInv
<1>3. CASE ReachPanicked \/ PartitionCrash \/ CheckCrash
  BY <1>3 DEF ReachPanicked, PartitionCrash, CheckCrash, Crash, RestInv
<1>4. CASE StartPartition
  <2>1. crate \in Crates
    BY DEF ReachInv, TypeOK
  <2>2. IsFiniteSet(EntryPoints(crate))
    BY <2>1, EntryPointsLocal, FS_Subset, CrateAssumption
  <2>3. Cardinality(EntryPoints(crate)) \in Nat
    BY <2>2, FS_CardinalityType
  <2> QED BY <1>4, <2>3 DEF StartPartition, RestInv, CheckStats
<1>5. CASE PartitionFn
  <2>1. PICK f : f = order[at + 1]
    OBVIOUS
  <2>2. stats' = IF HasObligation(f)
                    THEN [stats EXCEPT !.total_fns_checked = @ + 1, !.w_obligation = @ + 1]
                    ELSE [stats EXCEPT !.total_fns_checked = @ + 1, !.w_no_obligation = @ + 1]
    BY <1>5, <2>1 DEF PartitionFn
  <2>2a. stats \in CheckStats
    BY DEF RestInv
  <2>2b. /\ stats.total_fns_checked + 1 \in Nat /\ stats.w_obligation + 1 \in Nat
         /\ stats.w_no_obligation + 1 \in Nat
    BY <2>2a DEF CheckStats
  <2>3. ASSUME HasObligation(f) PROVE stats' \in CheckStats
    <3>1. stats' = [stats EXCEPT !.total_fns_checked = @ + 1, !.w_obligation = @ + 1]
      BY <2>2, <2>3
    <3> QED BY <2>2a, <2>2b, <3>1, CountBoth
  <2>4. ASSUME ~HasObligation(f) PROVE stats' \in CheckStats
    <3>1. stats' = [stats EXCEPT !.total_fns_checked = @ + 1, !.w_no_obligation = @ + 1]
      BY <2>2, <2>4
    <3> QED BY <2>2a, <2>2b, <3>1, CountBoth
  <2> QED BY <1>5, <2>3, <2>4 DEF PartitionFn, RestInv
<1>6. CASE StartCheck
  BY <1>6 DEF StartCheck, RestInv
<1>7. CASE CheckMissed \/ CheckUnjustified \/ CheckJustified
  <2>1. /\ CheckBegins /\ CheckGoesOn
    BY <1>7 DEF CheckMissed, CheckUnjustified, CheckJustified
  <2>2. PICK f : f = Current
    OBVIOUS
  <2>3. f \in DOMAIN locally_reachable
    <3>1. at + 1 \in DOMAIN reachable_no_obligations /\ Checked /\ pc = "done"
      BY <2>1 DEF CheckInv, CheckBegins
    <3> QED BY <2>2, <3>1, AnalyzedOrder DEF Checked, Elems, Current
  <2>4. CallCt(f) \in Nat
    BY <2>3, CallCtType
  <2>5. stats' = [stats EXCEPT !.calls_checked = @ + CallCt(f)]
    BY <2>1, <2>2 DEF CheckGoesOn
  <2>6. stats' \in CheckStats
    BY <2>4, <2>5 DEF RestInv, CheckStats
  <2> QED BY <2>1, <2>6 DEF CheckGoesOn, CheckBegins, RestInv
<1>8. CASE Return
  BY <1>8 DEF Return, RestInv
<1>9. CASE UNCHANGED checkVars
  BY <1>9 DEF checkVars, ownVars, RestInv
<1> QED BY <1>1, <1>2, <1>3, <1>4, <1>5, <1>6, <1>7, <1>8, <1>9 DEF CheckNext

\* The state of the check is well typed: each error is about a local function
\* and lists call sites, the counters never go below zero.
THEOREM CheckTypeCorrect == CheckSpec => []CheckTypeOK
<1>1. CheckInit => ReachInv /\ CheckInv /\ RestInv
  BY CheckInvInit, RestInvInit
<1>2. ReachInv /\ CheckInv /\ RestInv /\ [CheckNext]_checkVars
         => ReachInv' /\ CheckInv' /\ RestInv'
  BY CheckInvNext, RestInvNext
<1>3. CheckInv /\ RestInv => CheckTypeOK
  BY DEF CheckInv, RestInv, CheckTypeOK
<1> QED BY <1>1, <1>2, <1>3, PTL DEF CheckSpec

\* Without --fine-grained the conditions of an annotation are not looked at.
LEMMA CoarseNotes ==
    ASSUME NEW n \in Notes, NEW m, m = Arg(n, "fine_grained")
    PROVE  /\ ~m.args.fine_grained
           /\ m.toml = n.toml /\ m.doc = n.doc /\ m.unsafe = n.unsafe
           /\ m.trait_fn = n.trait_fn /\ m.axioms = n.axioms /\ m.sites = n.sites
<1>1. /\ DOMAIN n = {"args", "toml", "doc", "unsafe", "trait_fn", "axioms", "sites"}
      /\ n.args \in Args
  BY NotesAssumption DEF IsNotes
<1>2. m = [n EXCEPT !.args = [n.args EXCEPT !.fine_grained = FALSE]]
  BY DEF Arg
<1> QED BY <1>1, <1>2 DEF Args

LEMMA CoarseObligation ==
    ASSUME NEW n \in Notes, NEW toml, NEW f, NEW m, m = Arg(n, "fine_grained")
    PROVE  /\ Obligation(n, toml, f) = None => Obligation(m, toml, f) = None
           /\ Obligation(m, toml, f) \in {None, ConsiderProperty}
           /\ Obligation(m, toml, f) = None => Obligation(n, toml, f) = None
<1>1. DocStr(m, toml, f) = DocStr(n, toml, f)
  BY CoarseNotes DEF DocStr
<1>2. IsAnnotated(m, toml, f) <=> IsAnnotated(n, toml, f)
  BY <1>1 DEF IsAnnotated
<1>3. Obligation(m, toml, f) = IF IsAnnotated(n, toml, f) THEN ConsiderProperty ELSE None
  BY <1>2, CoarseNotes DEF Obligation
<1>4. Obligation(n, toml, f) = None <=> ~IsAnnotated(n, toml, f)
  BY DEF Obligation, None, ConsiderProperty
<1>5. None # ConsiderProperty
  BY DEF None, ConsiderProperty
<1> QED BY <1>3, <1>4, <1>5

LEMMA CoarseFaultIsFault ==
    ASSUME NEW n \in Notes, NEW f, Faulty(Arg(n, "fine_grained"), f)
    PROVE  Faulty(n, f)
<1>1. PICK m : m = Arg(n, "fine_grained")
  OBVIOUS
<1>2. PICK toml : toml = FromFile(n) /\ toml = FromFile(m)
  BY <1>1, CoarseNotes DEF FromFile
<1>3. \A g : /\ Obligation(n, toml, g) = None <=> Obligation(m, toml, g) = None
             /\ Obligation(m, toml, g) \in {None, ConsiderProperty}
  BY <1>1, CoarseObligation
<1>4. m.unsafe = n.unsafe /\ m.trait_fn = n.trait_fn /\ m.axioms = n.axioms
      /\ m.sites = n.sites
  BY <1>1, CoarseNotes
<1>5. Faulty(m, f)
  BY <1>1
<1>6. CASE Obligation(n, toml, f) # None
  <2>1. f \notin n.unsafe \/ Obligation(m, toml, f) # Obligation(m, toml, n.trait_fn[f])
    BY <1>2, <1>3, <1>4, <1>5, <1>6 DEF Faulty
  <2>2. f \notin n.unsafe \/ Obligation(n, toml, f) # Obligation(n, toml, n.trait_fn[f])
    BY <1>3, <1>6, <2>1
  <2> QED BY <1>2, <1>6, <2>2 DEF Faulty
<1>7. CASE Obligation(n, toml, f) = None
  <2>1. \/ \E a \in DOMAIN n.axioms[f] : ~n.axioms[f][a]
        \/ \E i \in DOMAIN crate.body[f] : BadCall(m, f, i)
    BY <1>2, <1>3, <1>4, <1>5, <1>7 DEF Faulty
  <2>2. ASSUME NEW i \in DOMAIN crate.body[f], BadCall(m, f, i)
        PROVE  BadCall(n, f, i)
    <3>1. ConsiderProperty.kind # "conditions"
      BY DEF ConsiderProperty
    <3>2. None.kind # "conditions"
      BY DEF None
    <3>3. /\ crate.body[f][i] \in Fns /\ ~n.sites[f][i].comment
          /\ Obligation(m, toml, crate.body[f][i]) # None
      BY <1>2, <1>3, <1>4, <2>2, <3>1, <3>2 DEF BadCall
    <3> QED BY <1>2, <1>3, <3>3 DEF BadCall
  <2>3. \/ \E a \in DOMAIN n.axioms[f] : ~n.axioms[f][a]
        \/ \E i \in DOMAIN crate.body[f] : BadCall(n, f, i)
    BY <2>1, <2>2
  <2> QED BY <1>2, <1>7, <2>3 DEF Faulty
<1> QED BY <1>6, <1>7

\* Without the file an erroneous file is no different: neither overrides.
LEMMA WithoutFileSameFaults ==
    ASSUME NEW n \in Notes, Erroneous(n.toml), NEW f
    PROVE  Faulty(WithoutFile(n), f) <=> Faulty(n, f)
<1>1. PICK m : m = WithoutFile(n)
  OBVIOUS
<1>2. DOMAIN n = {"args", "toml", "doc", "unsafe", "trait_fn", "axioms", "sites"}
  BY NotesAssumption DEF IsNotes
<1>3. /\ m.toml = [status |-> "missing", tables |-> NoTables]
      /\ m.args = n.args /\ m.doc = n.doc /\ m.unsafe = n.unsafe
      /\ m.trait_fn = n.trait_fn /\ m.axioms = n.axioms /\ m.sites = n.sites
  BY <1>1, <1>2, NotesAssumption DEF WithoutFile, IsNotes
<1>4. FromFile(m) = NoTables /\ FromFile(n) = NoTables
  BY <1>3 DEF FromFile, Erroneous
<1>5. PICK toml : toml = FromFile(m) /\ toml = FromFile(n)
  BY <1>4
<1>6. ASSUME NEW g PROVE Obligation(m, toml, g) = Obligation(n, toml, g)
  <2>1. DocStr(m, toml, g) = DocStr(n, toml, g)
    BY <1>3 DEF DocStr
  <2>2. /\ IsAnnotated(m, toml, g) <=> IsAnnotated(n, toml, g)
        /\ Text(m, toml, g) = Text(n, toml, g)
    BY <2>1 DEF IsAnnotated, Text
  <2> QED BY <1>3, <2>2 DEF Obligation
<1>7. ASSUME NEW i PROVE BadCall(m, f, i) <=> BadCall(n, f, i)
  BY <1>3, <1>5, <1>6 DEF BadCall, Unconsidered
<1>8. Faulty(m, f) <=> Faulty(n, f)
  BY <1>3, <1>5, <1>6, <1>7 DEF Faulty
<1> QED BY <1>1, <1>8

\* Whatever the file would override, for every crate and order of the hash
\* maps: from_file and its caller keep nothing of a file with an error.
THEOREM NothingOfABrokenFile == CheckSpec => []BrokenFileIsNoFile
<1>1. CheckInit => ReachInv /\ CheckInv /\ RestInv
  BY CheckInvInit, RestInvInit
<1>2. ReachInv /\ CheckInv /\ RestInv /\ [CheckNext]_checkVars
         => ReachInv' /\ CheckInv' /\ RestInv'
  BY CheckInvNext, RestInvNext
<1>3. CheckInv /\ RestInv => BrokenFileIsNoFile
  <2> SUFFICES ASSUME CheckInv, RestInv, stage \in {"ok", "errors"}, Erroneous(notes.toml)
               PROVE  {local_errors[k].func : k \in DOMAIN local_errors}
                          = {f \in Analyzed(crate) : Faulty(WithoutFile(notes), f)}
    BY DEF BrokenFileIsNoFile
  <2>1. {local_errors[k].func : k \in DOMAIN local_errors}
            = {f \in Analyzed(crate) : Faulty(notes, f)}
    BY DEF CheckInv, ReportExact
  <2>2. \A f \in Analyzed(crate) : Faulty(WithoutFile(notes), f) <=> Faulty(notes, f)
    BY WithoutFileSameFaults DEF RestInv
  <2> QED BY <2>1, <2>2
<1> QED BY <1>1, <1>2, <1>3, PTL DEF CheckSpec

\* A crate that passes the fine-grained check has nothing the coarse check of
\* the same crate would report: the bare `# Safety` of the coarse mode never
\* asks for more than the conditions do.
THEOREM FineIsStricter == CheckSpec => []FinePassIsCoarsePass
<1>1. CheckInit => ReachInv /\ CheckInv /\ RestInv
  BY CheckInvInit, RestInvInit
<1>2. ReachInv /\ CheckInv /\ RestInv /\ [CheckNext]_checkVars
         => ReachInv' /\ CheckInv' /\ RestInv'
  BY CheckInvNext, RestInvNext
<1>3. CheckInv /\ RestInv => FinePassIsCoarsePass
  <2> SUFFICES ASSUME CheckInv, RestInv, stage = "ok", NEW f \in Analyzed(crate)
               PROVE  ~Faulty(Arg(notes, "fine_grained"), f)
    BY DEF FinePassIsCoarsePass
  <2>1. {g \in Analyzed(crate) : Faulty(notes, g)} = {}
    BY DEF CheckInv, RestInv, ReportExact
  <2> QED BY <2>1, CoarseFaultIsFault DEF RestInv
<1> QED BY <1>1, <1>2, <1>3, PTL DEF CheckSpec
-----------------------------------------------------------------------------
(* What an error says.                                                     *)

\* The bad calls of f that have no comment.
Uncommented(f) ==
    {i \in DOMAIN crate.body[f] : BadCall(notes, f, i) /\ ~notes.sites[f][i].comment}

\* An error is true of the crate and its notes, whatever the state.
TrueError(e) ==
    /\ e.func \in Analyzed(crate)
    /\ \A i \in e.calls : i \in DOMAIN crate.body[e.func] /\ BadCall(notes, e.func, i)
    /\ e.kind = "Basic" =>
          /\ e.calls = Uncommented(e.func)
          /\ \A i \in DOMAIN crate.body[e.func] : BadCall(notes, e.func, i) => i \in e.calls
          /\ UnjustifiedAxioms(e.func) \cup e.calls # {}

AllTrue(errs) == \A k \in DOMAIN errs : TrueError(errs[k])

ErrorInv == AllTrue(local_errors)

LEMMA TrueErrorSame ==
    ASSUME UNCHANGED <<crate, notes>>
    PROVE  \A e : TrueError(e)' <=> TrueError(e)
<1> QED BY DEF TrueError, Uncommented, UnjustifiedAxioms, BadCall

LEMMA CallsBody ==
    ASSUME ReachInv, InForce, NEW f \in DOMAIN locally_reachable,
           NEW g \in CallsWObligations(f), NEW i \in Sites(f, g)
    PROVE  /\ i \in DOMAIN crate.body[f] /\ crate.body[f][i] = g /\ g \in Fns
           /\ ObligationOf(g) = Obligation(notes, FromFile(notes), g)
           /\ ObligationOf(g) # None
           /\ ~notes.sites[f][i].comment => BadCall(notes, f, i)
<1>1. g \in Fns /\ HasObligation(g)
  BY DEF CallsWObligations, CalledBy
<1>2. i \in DOMAIN crate.body[f] /\ crate.body[f][i] = g
  BY <1>1, SitesAreCalls
<1> QED BY <1>1, <1>2 DEF BadCall, InForce, HasObligation, ObligationOf

\* Without a call that stops the check, the calls reported are the bad ones.
LEMMA UnjustifiedExact ==
    ASSUME ReachInv, InForce, NEW f \in DOMAIN locally_reachable, Stoppers(f) = {}
    PROVE  /\ UnjustifiedCalls(f) = Uncommented(f)
           /\ \A i \in DOMAIN crate.body[f] :
                 BadCall(notes, f, i) => i \in UnjustifiedCalls(f)
<1>1. ASSUME NEW i \in DOMAIN crate.body[f], BadCall(notes, f, i)
      PROVE  i \in UnjustifiedCalls(f) /\ ~notes.sites[f][i].comment
  <2>1. PICK g : g = crate.body[f][i]
    OBVIOUS
  <2>2. g \in Fns /\ HasObligation(g)
    BY <1>1, <2>1 DEF BadCall, InForce, HasObligation, ObligationOf
  <2>3. i \in Sites(f, g) /\ g \in CallsWObligations(f)
    BY <2>1, <2>2, SitesAreCalls DEF CallsWObligations, CalledBy
  <2>4. ~Stops(f, g, i)
    BY <2>3 DEF Stoppers
  <2>5. ~notes.sites[f][i].comment
    BY <1>1, <2>1, <2>4 DEF BadCall, Stops, Missed, InForce, ObligationOf
  <2> QED BY <2>3, <2>5 DEF UnjustifiedCalls
<1>2. ASSUME NEW i \in UnjustifiedCalls(f) PROVE i \in Uncommented(f)
  <2>1. PICK g \in CallsWObligations(f) :
           i \in Sites(f, g) /\ ~notes.sites[f][i].comment
    BY DEF UnjustifiedCalls
  <2> QED BY <2>1, CallsBody DEF Uncommented
<1> QED BY <1>1, <1>2 DEF Uncommented

\* The functions of the second loop are analyzed and state no obligations.
LEMMA CurrentFacts ==
    ASSUME ReachInv, CheckInv, CheckBegins
    PROVE  /\ InForce /\ pc = "done"
           /\ Current \in DOMAIN locally_reachable
           /\ Current \in Analyzed(crate) /\ Current \in Local /\ ~HasObligation(Current)
<1>1. /\ InForce /\ Checked /\ pc = "done" /\ at + 1 \in DOMAIN reachable_no_obligations
  BY DEF CheckInv, CheckBegins
<1>2. Current \in Analyzed(crate) \ Obliged
  BY <1>1 DEF Checked, Elems, Current
<1> QED BY <1>1, <1>2, AnalyzedOrder DEF Obliged

LEMMA PartedFacts ==
    ASSUME ReachInv, CheckInv, stage = "partition", at < Len(order)
    PROVE  /\ InForce /\ pc = "done"
           /\ order[at + 1] \in Analyzed(crate) /\ order[at + 1] \in Local
           /\ Upto(order, at + 1) = Upto(order, at) \cup {order[at + 1]}
<1>1. InForce /\ at \in Nat /\ pc = "done"
  BY DEF CheckInv
<1> QED BY <1>1, AnalyzedOrder, UptoNext DEF Elems

LEMMA AppendTrue ==
    ASSUME NEW s \in Seq(LocalError), NEW e \in LocalError, AllTrue(s), TrueError(e)
    PROVE  AllTrue(Append(s, e))
<1> QED BY Appended DEF AllTrue

LEMMA ConcatTrue ==
    ASSUME NEW s \in Seq(LocalError), NEW t \in Seq(LocalError), AllTrue(s), AllTrue(t)
    PROVE  AllTrue(s \o t)
<1> SUFFICES ASSUME NEW k \in DOMAIN (s \o t) PROVE TrueError((s \o t)[k])
  BY DEF AllTrue
<1>1. CASE k \in DOMAIN s
  BY <1>1 DEF AllTrue
<1>2. CASE k \notin DOMAIN s
  <2>1. k - Len(s) \in DOMAIN t /\ (s \o t)[k] = t[k - Len(s)]
    BY <1>2
  <2> QED BY <2>1 DEF AllTrue
<1> QED BY <1>1, <1>2

\* The definition errors of a function name it and list no call.
LEMMA DefErrorsTrue ==
    ASSUME InForce, NEW f \in Local, HasObligation(f), f \in Analyzed(crate)
    PROVE  AllTrue(DefErrors(f))
<1> DEFINE trait   == [kind |-> "Trait", func |-> f, calls |-> {}]
           keyword == [kind |-> "FnDefShouldHaveKeyword", func |-> f, calls |-> {}]
           traits   == IF Inconsistent(f) THEN <<trait>> ELSE << >>
           keywords == IF f \notin notes.unsafe THEN <<keyword>> ELSE << >>
<1>1. trait \in LocalError /\ keyword \in LocalError
  BY DEF LocalError
<1>2. TrueError(trait) /\ TrueError(keyword)
  BY DEF TrueError
<1>3. /\ traits \in Seq(LocalError) /\ keywords \in Seq(LocalError)
      /\ AllTrue(traits) /\ AllTrue(keywords)
  <2> HIDE DEF trait, keyword
  <2> QED BY <1>1, <1>2 DEF AllTrue
<1>4. DefErrors(f) = traits \o keywords
  BY DEF DefErrors
<1> HIDE DEF traits, keywords
<1> QED BY <1>3, <1>4, ConcatTrue

LEMMA ErrorInvNext ==
    ReachInv /\ CheckInv /\ ErrorInv /\ [CheckNext]_checkVars => ErrorInv'
<1> SUFFICES ASSUME ReachInv, CheckInv, ErrorInv, [CheckNext]_checkVars PROVE ErrorInv'
  OBVIOUS
<1>1. UNCHANGED crate /\ UNCHANGED notes
  BY CheckStepIsReachStep
     DEF checkVars, ownVars, vars, CheckNext, LoadToml, FindReachable, Crash,
         ReachPanicked, StartPartition, PartitionFn, PartitionCrash, StartCheck,
         CheckGoesOn, CheckCrash, CheckMissed, CheckUnjustified, CheckJustified, Return,
         Next, EntryPanic, New, Skip, Visit, Pop, VisitTerminator, Insert, SortByPath
<1>2. AllTrue(local_errors') => ErrorInv'
  BY <1>1, TrueErrorSame DEF ErrorInv, AllTrue
<1>3. local_errors \in Seq(LocalError) /\ AllTrue(local_errors)
  BY DEF CheckInv, ErrorInv
<1>4. CASE PartitionFn
  <2>1. PICK f : f = order[at + 1]
    OBVIOUS
  <2>2. InForce /\ f \in Local /\ f \in Analyzed(crate)
    BY <1>4, <2>1, PartedFacts DEF PartitionFn
  <2>3. local_errors' = IF HasObligation(f) THEN local_errors \o DefErrors(f)
                        ELSE local_errors
    BY <1>4, <2>1 DEF PartitionFn
  <2>4. CASE HasObligation(f)
    <3>1. DefErrors(f) \in Seq(LocalError) /\ AllTrue(DefErrors(f))
      BY <2>2, <2>4, DefErrorsExact, DefErrorsTrue
    <3> QED BY <1>2, <1>3, <2>3, <2>4, <3>1, ConcatTrue
  <2>5. CASE ~HasObligation(f)
    BY <1>2, <1>3, <2>3, <2>5
  <2> QED BY <2>4, <2>5
<1>5. CASE CheckMissed
  <2>1. PICK f : f = Current
    OBVIOUS
  <2>2. /\ InForce /\ f \in DOMAIN locally_reachable /\ f \in Local
        /\ f \in Analyzed(crate) /\ ~HasObligation(f)
    BY <1>5, <2>1, CurrentFacts DEF CheckMissed
  <2>3. PICK g \in Stoppers(f) :
           /\ ~StopsFatally(f, g, FirstStop(f, g))
           /\ local_errors' = Append(local_errors,
                 [kind |-> "CallMissedObligations", func |-> f,
                  calls |-> {FirstStop(f, g)}])
    BY <1>5, <2>1 DEF CheckMissed
  <2>4. PICK i : i = FirstStop(f, g)
    OBVIOUS
  <2>5. i \in Sites(f, g) /\ Stops(f, g, i) /\ g \in CallsWObligations(f)
    BY <2>2, <2>3, <2>4, FirstStopStops DEF Stoppers
  <2>6. /\ i \in DOMAIN crate.body[f] /\ crate.body[f][i] = g /\ g \in Fns
        /\ ObligationOf(g) = Obligation(notes, FromFile(notes), g)
        /\ ObligationOf(g) # None
    BY <2>2, <2>5, CallsBody
  <2>7. ObligationOf(g).kind = "conditions" /\ Missed(f, g, i)
    BY <2>3, <2>4, <2>5 DEF Stops, StopsFatally
  <2>8. BadCall(notes, f, i)
    BY <2>6, <2>7 DEF BadCall, Missed
  <2>9. PICK e : e = [kind |-> "CallMissedObligations", func |-> f, calls |-> {i}]
    OBVIOUS
  <2>10. TrueError(e)
    BY <2>2, <2>6, <2>8, <2>9 DEF TrueError
  <2>11. e \in LocalError
    BY <2>2, <2>3, <2>4, <2>9, MissedIsFaulty DEF LocalError
  <2> QED BY <1>2, <1>3, <2>3, <2>4, <2>9, <2>10, <2>11, AppendTrue
<1>6. CASE CheckUnjustified
  <2>1. PICK f : f = Current
    OBVIOUS
  <2>2. InForce /\ f \in DOMAIN locally_reachable /\ f \in Local /\ f \in Analyzed(crate)
    BY <1>6, <2>1, CurrentFacts DEF CheckUnjustified
  <2>3. PICK e : e = [kind |-> "Basic", func |-> f, calls |-> UnjustifiedCalls(f)]
    OBVIOUS
  <2>4. /\ Stoppers(f) = {} /\ local_errors' = Append(local_errors, e)
        /\ UnjustifiedAxioms(f) \cup UnjustifiedCalls(f) # {}
    BY <1>6, <2>1, <2>3 DEF CheckUnjustified
  <2>5. TrueError(e)
    BY <2>2, <2>3, <2>4, UnjustifiedExact DEF TrueError, Uncommented
  <2>6. e \in LocalError
    BY <2>2, <2>3, UnjustifiedCallsType DEF LocalError
  <2> QED BY <1>2, <1>3, <2>4, <2>5, <2>6, AppendTrue
<1>7. CASE UNCHANGED local_errors
  BY <1>2, <1>3, <1>7
<1>8. CASE ~(PartitionFn \/ CheckMissed \/ CheckUnjustified)
  BY <1>7, <1>8
     DEF checkVars, ownVars, CheckNext, LoadToml, FindReachable, Crash,
         ReachPanicked, StartPartition, PartitionCrash, StartCheck,
         CheckCrash, CheckJustified, Return
<1> QED BY <1>4, <1>5, <1>6, <1>8

\* The calls an error lists are bad calls of the function it names, and a Basic
\* error lists every bad one: no justified call hides another, in any crate.
THEOREM ErrorsAreBadCalls == CheckSpec => []ErrorsListBadCalls
<1>1. CheckInit => ReachInv /\ CheckInv /\ ErrorInv
  BY CheckInvInit DEF CheckInit, ErrorInv, AllTrue
<1>2. ReachInv /\ CheckInv /\ ErrorInv /\ [CheckNext]_checkVars
         => ReachInv' /\ CheckInv' /\ ErrorInv'
  BY CheckInvNext, ErrorInvNext
<1>3. ErrorInv => ErrorsListBadCalls
  BY DEF ErrorInv, AllTrue, TrueError, ErrorsListBadCalls
<1> QED BY <1>1, <1>2, <1>3, PTL DEF CheckSpec
-----------------------------------------------------------------------------
(* What a pass excludes.                                                   *)

\* Nothing in f could have taken the plugin down, or ended its check early.
Parted(f)  == ~PartitionPanics(f)
Clear(f)   == ~CalleePanics(f) /\ Stoppers(f) = {}

\* Of the functions gone through none could, unless an error is reported.
PassInv ==
    /\ stage = "partition" => \A f \in Upto(order, at) : Parted(f)
    /\ stage \in {"check", "ok", "errors"} => \A f \in Analyzed(crate) : Parted(f)
    /\ stage = "check" /\ local_errors = << >> =>
          \A f \in Upto(reachable_no_obligations, at) : Clear(f)
    /\ stage = "ok" => \A f \in Analyzed(crate) \ Obliged : Clear(f)

LEMMA ClearSame ==
    ASSUME UNCHANGED <<vars, notes, toml_annotations>>
    PROVE  \A f : (Parted(f)' <=> Parted(f)) /\ (Clear(f)' <=> Clear(f))
<1>1. crate' = crate /\ locally_reachable' = locally_reachable
  BY DEF vars
<1>2. \A f : Parted(f)' <=> Parted(f)
  BY DEF Parted, PartitionPanics, HasObligation, ObligationOf, Panics, IsImplOfTrait
<1>3. \A f : Clear(f)' <=> Clear(f)
  BY <1>1 DEF Clear, CalleePanics, CalledBy, Sites, FromSpans, Panics, Stoppers, CallsWObligations,
      HasObligation, ObligationOf, Stops, NotFound, Incomparable, Missed
<1> QED BY <1>2, <1>3

LEMMA PassInvNext ==
    ReachInv /\ CheckInv /\ PassInv /\ [CheckNext]_checkVars => PassInv'
<1> SUFFICES ASSUME ReachInv, CheckInv, PassInv, [CheckNext]_checkVars PROVE PassInv'
  OBVIOUS
<1>1. CASE LoadToml \/ FindReachable \/ ReachPanicked \/ PartitionCrash \/ CheckCrash
  BY <1>1 DEF LoadToml, FindReachable, ownVars, ReachPanicked, PartitionCrash, CheckCrash,
              Crash, PassInv
<1>a. ASSUME UNCHANGED <<vars, notes, toml_annotations>>
      PROVE  /\ order' = order /\ pc' = pc /\ Analyzed(crate)' = Analyzed(crate)
             /\ Obliged' = Obliged
             /\ \A f : (Parted(f)' <=> Parted(f)) /\ (Clear(f)' <=> Clear(f))
  BY <1>a, SameNotes, ClearSame
<1>2. CASE StartPartition
  <2>1. stage' = "partition" /\ at' = 0
    BY <1>2 DEF StartPartition
  <2> QED BY <2>1 DEF PassInv, Upto
<1>3. CASE PartitionFn
  <2>1. /\ stage = "partition" /\ stage' = "partition" /\ at' = at + 1
        /\ UNCHANGED <<vars, notes, toml_annotations>>
        /\ ~PartitionPanics(order[at + 1]) /\ at < Len(order)
    BY <1>3 DEF PartitionFn
  <2>2. /\ Upto(order, at + 1) = Upto(order, at) \cup {order[at + 1]}
        /\ \A f \in Upto(order, at + 1) : Parted(f)
    BY <2>1, PartedFacts DEF PassInv, Parted
  <2>3. Upto(order, at)' = Upto(order, at + 1)
    BY <2>1, <1>a DEF Upto
  <2> QED BY <1>a, <2>1, <2>2, <2>3 DEF PassInv
<1>4. CASE StartCheck
  <2>1. /\ stage = "partition" /\ stage' = "check" /\ at' = 0 /\ at = Len(order)
        /\ UNCHANGED <<vars, notes, toml_annotations>>
    BY <1>4 DEF StartCheck
  <2>2. Upto(order, at) = Analyzed(crate)
    BY <2>1, AnalyzedOrder, UptoLen DEF CheckInv
  <2>3. Upto(reachable_no_obligations, at)' = {}
    BY <2>1 DEF Upto
  <2> QED BY <1>a, <2>1, <2>2, <2>3 DEF PassInv
<1>5. CASE CheckMissed \/ CheckUnjustified
  <2>1. stage = "check" /\ stage' = "check" /\ UNCHANGED <<vars, notes, toml_annotations>>
    BY <1>5 DEF CheckMissed, CheckUnjustified, CheckBegins, CheckGoesOn
  <2>2. PICK e : local_errors' = Append(local_errors, e)
    BY <1>5 DEF CheckMissed, CheckUnjustified
  <2>3. local_errors \in Seq(LocalError \cup {e})
    BY DEF CheckInv
  <2>4. local_errors' # << >>
    BY <2>2, <2>3
  <2> QED BY <1>a, <2>1, <2>4 DEF PassInv
<1>6. CASE CheckJustified
  <2>1. /\ stage = "check" /\ stage' = "check" /\ UNCHANGED <<vars, notes, toml_annotations>>
        /\ local_errors' = local_errors /\ at' = at + 1
        /\ reachable_no_obligations' = reachable_no_obligations
        /\ at < Len(reachable_no_obligations) /\ Clear(Current)
    BY <1>6 DEF CheckJustified, CheckBegins, CheckGoesOn, Clear
  <2>2. Upto(reachable_no_obligations, at + 1)
           = Upto(reachable_no_obligations, at) \cup {Current}
    BY <2>1, UptoNext DEF CheckInv, Current
  <2>3. Upto(reachable_no_obligations, at)' = Upto(reachable_no_obligations, at + 1)
    BY <2>1 DEF Upto
  <2> QED BY <1>a, <2>1, <2>2, <2>3 DEF PassInv
<1>7. CASE Return
  <2>1. /\ stage = "check" /\ stage' = IF local_errors = << >> THEN "ok" ELSE "errors"
        /\ UNCHANGED <<vars, notes, toml_annotations>>
        /\ at = Len(reachable_no_obligations)
    BY <1>7 DEF Return
  <2>2. Upto(reachable_no_obligations, at) = Analyzed(crate) \ Obliged
    BY <2>1, UptoLen DEF CheckInv, Checked
  <2> QED BY <1>a, <2>1, <2>2 DEF PassInv
<1>8. CASE UNCHANGED checkVars
  <2>1. /\ UNCHANGED <<vars, notes, toml_annotations>> /\ stage' = stage
        /\ local_errors' = local_errors
        /\ Upto(reachable_no_obligations, at)' = Upto(reachable_no_obligations, at)
        /\ Upto(order, at)' = Upto(order, at)
    BY <1>8 DEF checkVars, ownVars, vars, Upto
  <2> QED BY <1>a, <2>1 DEF PassInv
<1> QED BY <1>1, <1>2, <1>3, <1>4, <1>5, <1>6, <1>7, <1>8 DEF CheckNext

\* A crate that passes has nothing in any function that could have taken the
\* plugin down or ended a check early, so it passes in whatever order the hash
\* maps are iterated.
THEOREM PassDoesNotDependOnOrder == CheckSpec => []PassIsFinal
<1>1. CheckInit => ReachInv /\ CheckInv /\ PassInv
  BY CheckInvInit DEF CheckInit, PassInv
<1>2. ReachInv /\ CheckInv /\ PassInv /\ [CheckNext]_checkVars
         => ReachInv' /\ CheckInv' /\ PassInv'
  BY CheckInvNext, PassInvNext
<1>3. ReachInv /\ CheckInv /\ PassInv => PassIsFinal
  <2> SUFFICES ASSUME ReachInv, CheckInv, PassInv, stage = "ok", NEW f \in Analyzed(crate)
               PROVE  /\ ~PartitionPanics(f)
                      /\ ~HasObligation(f) =>
                            \A i \in DOMAIN crate.body[f] :
                                LET g == crate.body[f][i] IN
                                   g \in Fns => /\ ~Panics(g)
                                                /\ HasObligation(g) => ~Stops(f, g, i)
    BY DEF PassIsFinal
  <2>1. f \in DOMAIN locally_reachable /\ f \in Local
    BY AnalyzedOrder DEF CheckInv
  <2>2. ~PartitionPanics(f)
    BY DEF PassInv, Parted
  <2>3. ASSUME ~HasObligation(f), NEW i \in DOMAIN crate.body[f], NEW g \in Fns,
               g = crate.body[f][i]
        PROVE  ~Panics(g) /\ (HasObligation(g) => ~Stops(f, g, i))
    <3>1. Clear(f)
      BY <2>1, <2>3 DEF PassInv, Obliged
    <3>2. i \in Sites(f, g) /\ g \in CalledBy(f)
      BY <2>1, <2>3, SitesAreCalls DEF CalledBy
    <3> QED BY <3>1, <3>2 DEF Clear, CalleePanics, Stoppers, CallsWObligations
  <2> QED BY <2>2, <2>3
<1> QED BY <1>1, <1>2, <1>3, PTL DEF CheckSpec
-----------------------------------------------------------------------------
(* What a panic needs.                                                     *)

\* Conditions badly written at f, or at what f implements or calls, or one
\* whose range has no character.
BadText(f, g) ==
    /\ g \in {f, notes.trait_fn[f]} \cup CalledBy(f)
    /\ IsAnnotated(notes, FromFile(notes), g)
    /\ \/ /\ notes.args.fine_grained
          /\ g \in Extern => notes.args.check_dependencies
          /\ ~HasConditions(Text(notes, FromFile(notes), g))
       \/ /\ ~Overridden(FromFile(notes), g)
          /\ LET text == Text(notes, FromFile(notes), g) IN
                \E i \in DOMAIN text :
                   IsBullet(text[i]) /\ ~Malformed(text, i) /\ ~text[i].spanned

\* A call that cannot be placed in the source or cannot be compared.
BadPlace(f, i) ==
    /\ crate.body[f][i] \in Fns
    /\ HasObligation(crate.body[f][i])
    /\ NotFound(f, i) \/ (notes.args.fine_grained /\ Incomparable(f, i))

Cause ==
    \/ EntryPanics(crate)
    \/ \E f \in Analyzed(crate) : \E g : BadText(f, g)
    \/ \E f \in Analyzed(crate) : \E i \in DOMAIN crate.body[f] : BadPlace(f, i)

CrashInv ==
    /\ pc = "panicked" => EntryPanics(crate)
    /\ stage = "crashed" => Cause

LEMMA CauseSame ==
    ASSUME UNCHANGED <<vars, notes, toml_annotations>>
    PROVE  Cause' <=> Cause
<1>1. crate' = crate /\ locally_reachable' = locally_reachable
  BY DEF vars
<1> QED BY <1>1 DEF Cause, BadText, BadPlace, CalledBy, FromSpans, HasObligation, ObligationOf,
                    NotFound, Incomparable

LEMMA PanickedNext ==
    (pc = "panicked" => EntryPanics(crate)) /\ [Next]_vars
      => (pc' = "panicked" => EntryPanics(crate'))
<1> QED BY DEF Next, vars, EntryPanic, New, Skip, Visit, Pop, VisitTerminator, Insert, SortByPath

LEMMA CrashInvNext ==
    ReachInv /\ CheckInv /\ CrashInv /\ [CheckNext]_checkVars => CrashInv'
<1> SUFFICES ASSUME ReachInv, CheckInv, CrashInv, [CheckNext]_checkVars PROVE CrashInv'
  OBVIOUS
<1>1. pc' = "panicked" => EntryPanics(crate')
  BY CheckStepIsReachStep, PanickedNext DEF CrashInv
<1>2. CASE Crash
  <2>1. UNCHANGED <<vars, notes, toml_annotations>>
    BY <1>2 DEF Crash
  <2>2. Cause => CrashInv'
    BY <1>1, <2>1, CauseSame DEF CrashInv
  <2>3. CASE ReachPanicked
    BY <2>2, <2>3 DEF ReachPanicked, CrashInv, Cause
  <2>4. ASSUME InForce, NEW f, NEW g, g \in {f, notes.trait_fn[f]} \cup CalledBy(f), Panics(g)
        PROVE  BadText(f, g)
    <3>1. CASE SrcSpanPanics(notes, FromFile(notes), g)
      <4>1. PICK text : text = Text(notes, FromFile(notes), g)
        OBVIOUS
      <4>2. PICK i \in DOMAIN text : /\ IsBullet(text[i]) /\ ~text[i].spanned
                                     /\ \A j \in 1 .. i : ~Malformed(text, j)
        BY <3>1, <4>1 DEF SrcSpanPanics
      <4>3. i \in 1 .. i
        BY <4>1 DEF Text, Section
      <4> QED BY <2>4, <3>1, <4>1, <4>2, <4>3 DEF BadText, SrcSpanPanics
    <3>2. CASE ~SrcSpanPanics(notes, FromFile(notes), g)
      BY <2>4, <3>2, CrateAssumption DEF BadText, Panics, ParsePanics, InForce
    <3> QED BY <3>1, <3>2
  <2>5. CASE PartitionCrash
    <3>1. PICK f : f = order[at + 1]
      OBVIOUS
    <3>2. InForce /\ f \in Analyzed(crate) /\ PartitionPanics(f)
      BY <2>5, <3>1, PartedFacts DEF PartitionCrash
    <3>3. PICK g : g \in {f, notes.trait_fn[f]} /\ Panics(g)
      BY <3>2 DEF PartitionPanics
    <3> QED BY <2>2, <2>4, <3>2, <3>3 DEF Cause
  <2>6. CASE CheckCrash
    <3>1. PICK f : f = Current
      OBVIOUS
    <3>2. InForce /\ f \in Analyzed(crate) /\ f \in DOMAIN locally_reachable
      BY <2>6, <3>1, CurrentFacts DEF CheckCrash
    <3>3. CASE CalleePanics(f)
      <4>1. PICK g \in CalledBy(f) : Panics(g)
        BY <3>3 DEF CalleePanics
      <4> QED BY <2>2, <2>4, <3>2, <4>1 DEF Cause
    <3>4. CASE \E g \in Stoppers(f) : StopsFatally(f, g, FirstStop(f, g))
      <4>0. PICK g \in Stoppers(f) : StopsFatally(f, g, FirstStop(f, g))
        BY <3>4
      <4>1. PICK i : StopsFatally(f, g, i) /\ i \in Sites(f, g)
        BY <3>2, <4>0, FirstStopStops
      <4>2. /\ i \in DOMAIN crate.body[f] /\ crate.body[f][i] = g /\ g \in Fns
            /\ ObligationOf(g) # None
            /\ ObligationOf(g) = Obligation(notes, FromFile(notes), g)
        BY <3>2, <4>1, CallsBody DEF Stoppers
      <4>3. ObligationOf(g).kind = "conditions" => notes.args.fine_grained
        BY <4>2 DEF Obligation, None, ConsiderProperty
      <4>4. BadPlace(f, i)
        BY <4>1, <4>2, <4>3 DEF BadPlace, StopsFatally, HasObligation
      <4> QED BY <2>2, <3>2, <4>2, <4>4 DEF Cause
    <3> QED BY <2>6, <3>1, <3>3, <3>4 DEF CheckCrash
  <2>7. CASE stage = "crashed"
    BY <2>2, <2>7 DEF CrashInv
  <2> QED BY <1>2, <2>3, <2>5, <2>6, <2>7
          DEF CheckNext, Crash, LoadToml, FindReachable, ownVars, StartPartition, PartitionFn,
              StartCheck, CheckMissed, CheckUnjustified, CheckJustified, CheckBegins,
              CheckGoesOn, Return, checkVars
<1>3. CASE stage' # "crashed"
  BY <1>1, <1>3 DEF CrashInv
<1>4. CASE UNCHANGED checkVars
  <2>1. UNCHANGED <<vars, notes, toml_annotations>> /\ stage' = stage
    BY <1>4 DEF checkVars, ownVars
  <2> QED BY <1>1, <2>1, CauseSame DEF CrashInv
<1> QED BY <1>2, <1>3, <1>4
        DEF CheckInv, CheckNext, LoadToml, FindReachable, ownVars, ReachPanicked,
            PartitionCrash, CheckCrash, StartPartition, PartitionFn, StartCheck,
            CheckMissed, CheckUnjustified, CheckJustified, CheckBegins, CheckGoesOn, Return

\* The check of a crate panics for one of the known reasons only, whatever crate
\* and annotations it is given: attributes or entry points it cannot handle,
\* conditions badly written or without a span, or a call it cannot place or
\* compare.
THEOREM PanicsHaveACause == CheckSpec => []CrashHasCause
<1>1. CheckInit => ReachInv /\ CheckInv /\ CrashInv
  BY CheckInvInit DEF CheckInit, Init, CrashInv
<1>2. ReachInv /\ CheckInv /\ CrashInv /\ [CheckNext]_checkVars
         => ReachInv' /\ CheckInv' /\ CrashInv'
  BY CheckInvNext, CrashInvNext
<1>3. CrashInv => CrashHasCause
  BY DEF CrashInv, CrashHasCause, Cause, BadText, BadPlace
<1> QED BY <1>1, <1>2, <1>3, PTL DEF CheckSpec
-----------------------------------------------------------------------------
(* The counters.                                                           *)

\* The calls of the functions of S to functions that state obligations.
ObligedCalls(S) ==
    {call \in Calls(crate) : /\ call[1] \in S
                             /\ Callee(crate, call) \in Fns
                             /\ HasObligation(Callee(crate, call))}

LEMMA CallsOfOne ==
    ASSUME ReachInv, NEW f \in DOMAIN locally_reachable
    PROVE  /\ IsFiniteSet(ObligedCalls({f}))
           /\ Cardinality(ObligedCalls({f})) = CallCt(f)
<1> DEFINE P == Counted(f)
           b == [i \in P |-> <<f, i>>]
<1>1. crate \in Crates /\ f \in Local
  BY DEF ReachInv, TypeOK
<1>2. crate.body[f] \in Seq(Fns \cup {NotFn})
  BY <1>1, CrateFacts
<1>3. P = {i \in DOMAIN crate.body[f] :
              crate.body[f][i] \in Fns /\ HasObligation(crate.body[f][i])}
  <2>1. ASSUME NEW i \in P
        PROVE  /\ i \in DOMAIN crate.body[f]
               /\ crate.body[f][i] \in Fns /\ HasObligation(crate.body[f][i])
    <3>1. PICK g \in CallsWObligations(f) : i \in Sites(f, g)
      BY DEF Counted
    <3> QED BY <3>1, SitesAreCalls DEF CallsWObligations, CalledBy
  <2>2. ASSUME NEW i \in DOMAIN crate.body[f], NEW g \in Fns, g = crate.body[f][i],
               HasObligation(g)
        PROVE  i \in P
    <3>1. i \in Sites(f, g)
      BY <2>2, SitesAreCalls
    <3> QED BY <2>2, <3>1, SitesAreCalls DEF CallsWObligations, CalledBy, Counted
  <2> QED BY <2>1, <2>2
<1>4. IsFiniteSet(P)
  <2>1. IsFiniteSet(DOMAIN crate.body[f])
    BY <1>2, FiniteDomain
  <2>2. P \subseteq DOMAIN crate.body[f]
    BY <1>3
  <2> QED BY <2>1, <2>2, FS_Subset
<1> HIDE DEF P
<1>5. ObligedCalls({f}) = {<<f, i>> : i \in P}
  <2>1. ASSUME NEW i \in P PROVE <<f, i>> \in ObligedCalls({f})
    BY <1>1, <1>3 DEF ObligedCalls, Calls, Callee
  <2>2. ASSUME NEW c \in ObligedCalls({f}) PROVE c \in {<<f, i>> : i \in P}
    <3>1. PICK h \in Local : \E i \in DOMAIN crate.body[h] : c = <<h, i>>
      BY DEF ObligedCalls, Calls
    <3>1a. PICK i \in DOMAIN crate.body[h] : c = <<h, i>>
      BY <3>1
    <3>2. h = f /\ crate.body[f][i] \in Fns /\ HasObligation(crate.body[f][i])
      BY <3>1a DEF ObligedCalls, Callee
    <3> QED BY <1>3, <3>1a, <3>2
  <2> QED BY <2>1, <2>2
<1>6. b \in Bijection(P, ObligedCalls({f}))
  BY <1>5 DEF Bijection, Injection, IsInjective, Surjection
<1>7. ExistsBijection(P, ObligedCalls({f}))
  BY <1>6 DEF ExistsBijection
<1> QED BY <1>4, <1>7, FS_Bijection, CountedOnce DEF P

LEMMA OneMore ==
    ASSUME ReachInv, NEW f \in DOMAIN locally_reachable, NEW S, f \notin S,
           IsFiniteSet(ObligedCalls(S))
    PROVE  /\ IsFiniteSet(ObligedCalls(S \cup {f}))
           /\ Cardinality(ObligedCalls(S \cup {f}))
                = Cardinality(ObligedCalls(S)) + CallCt(f)
<1>1. ObligedCalls(S \cup {f}) = ObligedCalls(S) \cup ObligedCalls({f})
  BY DEF ObligedCalls
<1>2. ObligedCalls(S) \cap ObligedCalls({f}) = {}
  BY DEF ObligedCalls
<1>3. Cardinality(ObligedCalls(S)) \in Nat /\ Cardinality(ObligedCalls({f})) \in Nat
  BY CallsOfOne, FS_CardinalityType
<1>4. IsFiniteSet(ObligedCalls({f})) /\ Cardinality(ObligedCalls({f})) = CallCt(f)
  BY CallsOfOne
<1> DEFINE A == ObligedCalls(S)
           B == ObligedCalls({f})
<1>5. /\ IsFiniteSet(A \cup B)
      /\ Cardinality(A \cup B) = Cardinality(A) + Cardinality(B) - Cardinality(A \cap B)
  <2> HIDE DEF A, B
  <2>1. IsFiniteSet(A) /\ IsFiniteSet(B)
    BY <1>4 DEF A, B
  <2> QED BY <2>1, FS_Union
<1>6. Cardinality(A \cap B) = 0
  BY <1>2, FS_EmptySet
<1>7. ObligedCalls(S \cup {f}) = A \cup B
  BY <1>1
<1>8. Cardinality(A) \in Nat /\ Cardinality(B) \in Nat /\ Cardinality(B) = CallCt(f)
  BY <1>3, <1>4
<1> HIDE DEF A, B
<1>9. Cardinality(A \cup B) = Cardinality(A) + CallCt(f)
  BY <1>5, <1>6, <1>8
<1>10. /\ IsFiniteSet(ObligedCalls(S \cup {f}))
       /\ Cardinality(ObligedCalls(S \cup {f})) = Cardinality(A) + CallCt(f)
  BY <1>5, <1>7, <1>9
<1> QED BY <1>10 DEF A

\* An element of a sequence without repetition is not among those before it.
LEMMA NotBefore ==
    ASSUME NEW S, NEW s \in Seq(S), Distinct(s), NEW n \in Nat, n < Len(s)
    PROVE  s[n + 1] \notin Upto(s, n)
<1> QED BY DEF Distinct, Upto

LEMMA DistinctAppend ==
    ASSUME NEW S, NEW s \in Seq(S), Distinct(s), NEW x \in S, x \notin Elems(s)
    PROVE  Distinct(Append(s, x))
<1> QED BY Appended DEF Distinct, Elems
-----------------------------------------------------------------------------
(* The two loops.                                                          *)

\* The counters of the first loop when the functions of S are through it.
Parting(S) ==
    /\ stats.total_fns_checked = Cardinality(S)
    /\ stats.w_obligation = Cardinality(S \cap Obliged)
    /\ stats.w_no_obligation = Cardinality(S \ Obliged)
    /\ stats.entrypoints = Cardinality(EntryPoints(crate))

\* The counter of the second.
Calling(S) ==
    /\ IsFiniteSet(ObligedCalls(S))
    /\ stats.calls_checked = Cardinality(ObligedCalls(S))

StatsInv ==
    /\ Distinct(reachable_no_obligations)
    /\ stage \in {"toml", "reach"} => stats = NoStats
    /\ stage = "partition" => Parting(Upto(order, at)) /\ stats.calls_checked = 0
    /\ stage \in {"check", "ok"} => Parting(Analyzed(crate))
    /\ stage = "check" => Calling(Upto(reachable_no_obligations, at))
    /\ stage = "ok" => Calling(Analyzed(crate) \ Obliged)

CountersInv == RestInv /\ StatsInv

LEMMA ObligedCallsSame ==
    ASSUME UNCHANGED <<vars, notes, toml_annotations>>, NEW S
    PROVE  ObligedCalls(S)' = ObligedCalls(S')
<1> QED BY DEF ObligedCalls, vars, HasObligation, ObligationOf

\* One more function is counted on the side it belongs to.
LEMMA CountOne ==
    ASSUME NEW S, NEW O, IsFiniteSet(S), NEW f, f \notin S
    PROVE  /\ Cardinality(S) \in Nat /\ Cardinality(S \cup {f}) = Cardinality(S) + 1
           /\ f \in O => /\ Cardinality((S \cup {f}) \cap O) = Cardinality(S \cap O) + 1
                         /\ (S \cup {f}) \ O = S \ O
           /\ f \notin O => /\ Cardinality((S \cup {f}) \ O) = Cardinality(S \ O) + 1
                            /\ (S \cup {f}) \cap O = S \cap O
<1>1. Cardinality(S) \in Nat /\ Cardinality(S \cup {f}) = Cardinality(S) + 1
  BY FS_CardinalityType, FS_AddElement
<1>2. IsFiniteSet(S \cap O) /\ IsFiniteSet(S \ O)
  BY FS_Intersection, FS_Difference
<1>3. ASSUME f \in O
      PROVE  /\ Cardinality((S \cup {f}) \cap O) = Cardinality(S \cap O) + 1
             /\ (S \cup {f}) \ O = S \ O
  <2>1. (S \cup {f}) \cap O = (S \cap O) \cup {f} /\ f \notin S \cap O
    BY <1>3
  <2>2. Cardinality((S \cap O) \cup {f}) = Cardinality(S \cap O) + 1
    BY <1>2, <2>1, FS_AddElement
  <2> QED BY <1>3, <2>1, <2>2
<1>4. ASSUME f \notin O
      PROVE  /\ Cardinality((S \cup {f}) \ O) = Cardinality(S \ O) + 1
             /\ (S \cup {f}) \cap O = S \cap O
  <2>1. (S \cup {f}) \ O = (S \ O) \cup {f} /\ f \notin S \ O
    BY <1>4
  <2>2. Cardinality((S \ O) \cup {f}) = Cardinality(S \ O) + 1
    BY <1>2, <2>1, FS_AddElement
  <2> QED BY <1>4, <2>1, <2>2
<1> QED BY <1>1, <1>3, <1>4

LEMMA StatsPartition ==
    ReachInv /\ CheckInv /\ CountersInv /\ PartitionFn => StatsInv'
<1> SUFFICES ASSUME ReachInv, CheckInv, CountersInv, PartitionFn PROVE StatsInv'
  OBVIOUS
<1>1. /\ stage = "partition" /\ stage' = "partition" /\ at < Len(order) /\ at' = at + 1
      /\ UNCHANGED <<vars, notes, toml_annotations>>
  BY DEF PartitionFn
<1>2. /\ at \in Nat /\ pc = "done" /\ Partitioned /\ order \in Seq(Local)
      /\ reachable_no_obligations \in Seq(Local) /\ Distinct(order)
  BY <1>1, AnalyzedOrder DEF CheckInv
<1>3. PICK f : f = order[at + 1]
  OBVIOUS
<1>4. PICK S : S = Upto(order, at)
  OBVIOUS
<1>5. Upto(order, at)' = S \cup {f} /\ f \in Local /\ f \notin S
  <2>1. Upto(order, at + 1) = S \cup {f} /\ f \in Local
    BY <1>1, <1>2, <1>3, <1>4, UptoNext
  <2>2. f \notin S
    BY <1>1, <1>2, <1>3, <1>4, NotBefore
  <2> QED BY <1>1, <2>1, <2>2 DEF Upto, vars
<1>6. IsFiniteSet(S)
  <2>1. S \subseteq Local
    BY <1>1, <1>2, <1>4 DEF Upto
  <2> QED BY <2>1, FS_Subset, CrateAssumption
<1>7. /\ Cardinality(S) \in Nat /\ Cardinality(S \cup {f}) = Cardinality(S) + 1
      /\ f \in Obliged => /\ Cardinality((S \cup {f}) \cap Obliged)
                               = Cardinality(S \cap Obliged) + 1
                          /\ (S \cup {f}) \ Obliged = S \ Obliged
      /\ f \notin Obliged => /\ Cardinality((S \cup {f}) \ Obliged)
                                  = Cardinality(S \ Obliged) + 1
                             /\ (S \cup {f}) \cap Obliged = S \cap Obliged
  BY <1>5, <1>6, CountOne
<1>8. Parting(S) /\ stats.calls_checked = 0 /\ stats \in CheckStats
  BY <1>1, <1>4 DEF CountersInv, StatsInv, RestInv
<1>9. Obliged' = Obliged /\ EntryPoints(crate)' = EntryPoints(crate)
  BY <1>1, SameNotes
<1>10. f \in Obliged <=> HasObligation(f)
  BY <1>5 DEF Obliged
<1>11. CASE HasObligation(f)
  <2>1. /\ stats' = [stats EXCEPT !.total_fns_checked = @ + 1, !.w_obligation = @ + 1]
        /\ reachable_no_obligations' = reachable_no_obligations
    BY <1>3, <1>11 DEF PartitionFn
  <2>2. /\ stats'.total_fns_checked = stats.total_fns_checked + 1
        /\ stats'.w_obligation = stats.w_obligation + 1
        /\ stats'.w_no_obligation = stats.w_no_obligation
        /\ stats'.entrypoints = stats.entrypoints
        /\ stats'.calls_checked = stats.calls_checked
    BY <1>8, <2>1 DEF CheckStats
  <2>3. Parting(S \cup {f})'
    BY <1>7, <1>8, <1>9, <1>10, <1>11, <2>2 DEF Parting
  <2> QED BY <1>1, <1>5, <1>8, <2>1, <2>2, <2>3
          DEF CountersInv, StatsInv, Parting, Distinct
<1>12. CASE ~HasObligation(f)
  <2>1. /\ stats' = [stats EXCEPT !.total_fns_checked = @ + 1, !.w_no_obligation = @ + 1]
        /\ reachable_no_obligations' = Append(reachable_no_obligations, f)
    BY <1>3, <1>12 DEF PartitionFn
  <2>2. /\ stats'.total_fns_checked = stats.total_fns_checked + 1
        /\ stats'.w_obligation = stats.w_obligation
        /\ stats'.w_no_obligation = stats.w_no_obligation + 1
        /\ stats'.entrypoints = stats.entrypoints
        /\ stats'.calls_checked = stats.calls_checked
    BY <1>8, <2>1 DEF CheckStats
  <2>3. Parting(S \cup {f})'
    BY <1>7, <1>8, <1>9, <1>10, <1>12, <2>2 DEF Parting
  <2>5. f \notin Elems(reachable_no_obligations)
    BY <1>2, <1>4, <1>5 DEF Partitioned
  <2>6. Distinct(reachable_no_obligations')
    BY <1>2, <1>5, <2>1, <2>5, DistinctAppend DEF CountersInv, StatsInv
  <2> QED BY <1>1, <1>5, <1>8, <2>2, <2>3, <2>6
          DEF CountersInv, StatsInv, Parting, Distinct
<1> QED BY <1>11, <1>12

LEMMA StatsCalls ==
    ReachInv /\ CheckInv /\ CountersInv /\ (CheckMissed \/ CheckUnjustified \/ CheckJustified)
    => StatsInv'
<1> SUFFICES ASSUME ReachInv, CheckInv, CountersInv,
                    CheckMissed \/ CheckUnjustified \/ CheckJustified
             PROVE  StatsInv'
  OBVIOUS
<1>1. /\ stage = "check" /\ stage' = "check" /\ at' = at + 1
      /\ at < Len(reachable_no_obligations)
      /\ stats' = [stats EXCEPT !.calls_checked = @ + CallCt(Current)]
      /\ reachable_no_obligations' = reachable_no_obligations
      /\ UNCHANGED <<vars, notes, toml_annotations>>
  BY DEF CheckMissed, CheckUnjustified, CheckJustified, CheckBegins, CheckGoesOn
<1>2. PICK f : f = Current
  OBVIOUS
<1>3. PICK S : S = Upto(reachable_no_obligations, at)
  OBVIOUS
<1>4. /\ at \in Nat /\ pc = "done" /\ Checked /\ reachable_no_obligations \in Seq(Local)
      /\ Distinct(reachable_no_obligations)
  BY <1>1 DEF CheckInv, CountersInv, StatsInv
<1>5. Upto(reachable_no_obligations, at)' = S \cup {f} /\ f \notin S
  <2>1. Upto(reachable_no_obligations, at + 1) = S \cup {f} /\ f \notin S
    BY <1>1, <1>2, <1>3, <1>4, UptoNext, NotBefore DEF Current
  <2> QED BY <1>1, <2>1 DEF Upto
<1>6. f \in DOMAIN locally_reachable
  <2>1. f \in Analyzed(crate)
    BY <1>1, <1>2, <1>4 DEF Checked, Elems, Current
  <2> QED BY <1>4, <2>1, AnalyzedOrder
<1>7. Calling(S) /\ Parting(Analyzed(crate)) /\ stats \in CheckStats
  BY <1>1, <1>3 DEF CountersInv, StatsInv, RestInv
<1>8. /\ IsFiniteSet(ObligedCalls(S \cup {f}))
      /\ Cardinality(ObligedCalls(S \cup {f})) = Cardinality(ObligedCalls(S)) + CallCt(f)
  BY <1>5, <1>6, <1>7, OneMore DEF Calling
<1>9. /\ stats'.calls_checked = stats.calls_checked + CallCt(f)
      /\ stats'.total_fns_checked = stats.total_fns_checked
      /\ stats'.w_obligation = stats.w_obligation
      /\ stats'.w_no_obligation = stats.w_no_obligation
      /\ stats'.entrypoints = stats.entrypoints
  BY <1>1, <1>2, <1>7 DEF CheckStats
<1>10. /\ ObligedCalls(S \cup {f})' = ObligedCalls(S \cup {f})
       /\ Obliged' = Obliged /\ Analyzed(crate)' = Analyzed(crate) /\ crate' = crate
  BY <1>1, SameNotes, ObligedCallsSame
<1>11. Calling(S \cup {f})'
  BY <1>7, <1>8, <1>9, <1>10 DEF Calling
<1>12. Parting(Analyzed(crate))'
  BY <1>7, <1>9, <1>10 DEF Parting
<1> QED BY <1>1, <1>4, <1>5, <1>11, <1>12 DEF StatsInv, Distinct, Calling, ObligedCalls

LEMMA StatsInvNext ==
    ReachInv /\ CheckInv /\ CountersInv /\ [CheckNext]_checkVars => CountersInv'
<1> SUFFICES ASSUME ReachInv, CheckInv, CountersInv, [CheckNext]_checkVars
             PROVE  CountersInv'
  OBVIOUS
<1>1. RestInv'
  BY RestInvNext DEF CountersInv
<1>2. StatsInv
  BY DEF CountersInv
<1>3. CASE LoadToml \/ FindReachable
  BY <1>1, <1>2, <1>3 DEF LoadToml, FindReachable, ownVars, StatsInv, CountersInv, Distinct
<1>4. CASE ReachPanicked \/ PartitionCrash \/ CheckCrash
  BY <1>1, <1>2, <1>4
     DEF ReachPanicked, PartitionCrash, CheckCrash, Crash, StatsInv, CountersInv, Distinct
<1>5. CASE StartPartition
  <2>1. /\ stage = "reach" /\ stage' = "partition" /\ at' = 0 /\ stats = NoStats
        /\ stats' = [stats EXCEPT !.entrypoints = Cardinality(EntryPoints(crate))]
        /\ UNCHANGED <<vars, notes, toml_annotations>>
        /\ reachable_no_obligations' = reachable_no_obligations
    BY <1>2, <1>5 DEF StartPartition, StatsInv
  <2>2. Upto(order, at)' = {} /\ crate' = crate
    BY <2>1 DEF Upto, vars
  <2>3. Cardinality({}) = 0
    BY FS_EmptySet
  <2>4. /\ stats'.total_fns_checked = 0 /\ stats'.w_obligation = 0
        /\ stats'.w_no_obligation = 0 /\ stats'.calls_checked = 0
        /\ stats'.entrypoints = Cardinality(EntryPoints(crate))
    BY <2>1 DEF NoStats
  <2>5. Parting({})'
    BY <2>2, <2>3, <2>4 DEF Parting
  <2> QED BY <1>1, <1>2, <2>1, <2>2, <2>4, <2>5 DEF StatsInv, CountersInv, Distinct, Parting
<1>6. CASE StartCheck
  <2>1. /\ stage = "partition" /\ stage' = "check" /\ at' = 0 /\ at = Len(order)
        /\ stats' = stats /\ UNCHANGED <<vars, notes, toml_annotations>>
        /\ reachable_no_obligations' = reachable_no_obligations
    BY <1>6 DEF StartCheck
  <2>2. Upto(order, at) = Analyzed(crate)
    BY <2>1, AnalyzedOrder, UptoLen DEF CheckInv
  <2>3. Parting(Analyzed(crate)) /\ stats.calls_checked = 0
    BY <1>2, <2>1, <2>2 DEF StatsInv
  <2>4. /\ Obliged' = Obliged /\ Analyzed(crate)' = Analyzed(crate) /\ crate' = crate
        /\ Upto(reachable_no_obligations, at)' = {} /\ ObligedCalls({})' = {}
    BY <2>1, SameNotes DEF Upto, ObligedCalls
  <2>5. IsFiniteSet({}) /\ Cardinality({}) = 0
    BY FS_EmptySet
  <2>6. Calling({})'
    BY <2>1, <2>3, <2>4, <2>5 DEF Calling
  <2>7. Parting(Analyzed(crate))'
    BY <2>1, <2>3, <2>4 DEF Parting
  <2> QED BY <1>1, <1>2, <2>1, <2>4, <2>6, <2>7
          DEF StatsInv, CountersInv, Distinct, Calling, ObligedCalls
<1>7. CASE Return
  <2>1. /\ stage = "check" /\ stage' \in {"ok", "errors"} /\ at = Len(reachable_no_obligations)
        /\ stats' = stats /\ UNCHANGED <<vars, notes, toml_annotations>>
        /\ reachable_no_obligations' = reachable_no_obligations
    BY <1>7 DEF Return
  <2>2. Upto(reachable_no_obligations, at) = Analyzed(crate) \ Obliged
    BY <2>1, UptoLen DEF CheckInv, Checked
  <2>3. Parting(Analyzed(crate)) /\ Calling(Analyzed(crate) \ Obliged)
    BY <1>2, <2>1, <2>2 DEF StatsInv
  <2>4. /\ Obliged' = Obliged /\ Analyzed(crate)' = Analyzed(crate) /\ crate' = crate
        /\ ObligedCalls(Analyzed(crate) \ Obliged)' = ObligedCalls(Analyzed(crate) \ Obliged)
    BY <2>1, SameNotes DEF ObligedCalls, vars, HasObligation, ObligationOf
  <2>5. Parting(Analyzed(crate))' /\ Calling(Analyzed(crate) \ Obliged)'
    BY <2>1, <2>3, <2>4 DEF Parting, Calling
  <2> QED BY <1>1, <1>2, <2>1, <2>5 DEF StatsInv, CountersInv, Distinct
<1>8. CASE UNCHANGED checkVars
  <2>1. /\ stage' = stage /\ stats' = stats /\ UNCHANGED <<vars, notes, toml_annotations>>
        /\ reachable_no_obligations' = reachable_no_obligations /\ at' = at
    BY <1>8 DEF checkVars, ownVars
  <2>2. /\ Obliged' = Obliged /\ Analyzed(crate)' = Analyzed(crate) /\ crate' = crate
        /\ order' = order
    BY <2>1, SameNotes
  <2>3. \A S : ObligedCalls(S)' = ObligedCalls(S)
    BY <2>1, ObligedCallsSame
  <2> QED BY <1>1, <1>2, <2>1, <2>2 
          DEF StatsInv, CountersInv, Distinct, Parting, Calling, Upto, ObligedCalls, vars,
              HasObligation, ObligationOf
<1> QED BY <1>1, <1>3, <1>4, <1>5, <1>6, <1>7, <1>8, StatsPartition, StatsCalls
        DEF CheckNext, CountersInv

\* The counters of a passing check are exact in every crate: each function and
\* each call to a function with obligations is counted once, recursive and
\* repeated calls included.
THEOREM StatsAreExact == CheckSpec => []StatsExact
<1>1. CheckInit => ReachInv /\ CheckInv /\ CountersInv
  BY CheckInvInit, RestInvInit
     DEF CheckInit, Init, CountersInv, StatsInv, Distinct
<1>2. ReachInv /\ CheckInv /\ CountersInv /\ [CheckNext]_checkVars
         => ReachInv' /\ CheckInv' /\ CountersInv'
  BY CheckInvNext, StatsInvNext
<1>3. ReachInv /\ CheckInv /\ CountersInv => StatsExact
  <2> SUFFICES ASSUME ReachInv, CheckInv, CountersInv, stage = "ok" PROVE StatsExact
    BY DEF StatsExact
  <2> DEFINE O == {f \in Analyzed(crate) : HasObligation(f)}
             C == Analyzed(crate) \ O
  <2>1. Analyzed(crate) \subseteq Local
    BY AnalyzedOrder DEF CheckInv
  <2>2. O = Analyzed(crate) \cap Obliged /\ C = Analyzed(crate) \ Obliged
    BY <2>1 DEF Obliged
  <2>3. /\ stats \in CheckStats
        /\ Parting(Analyzed(crate)) /\ Calling(Analyzed(crate) \ Obliged)
    BY DEF CountersInv, StatsInv, RestInv
  <2> QED BY <2>2, <2>3 DEF StatsExact, Parting, Calling, ObligedCalls, CheckStats
<1> QED BY <1>1, <1>2, <1>3, PTL DEF CheckSpec
-----------------------------------------------------------------------------
(* The check ends.                                                         *)

\* What lies ahead of the check: its stages, and in each the analysis or the
\* functions its loop has not come to.
StagesAhead ==
    IF stage = "toml" THEN 4 ELSE IF stage = "reach" THEN 3
    ELSE IF stage = "partition" THEN 2 ELSE IF stage = "check" THEN 1 ELSE 0

FnsAhead ==
    IF stage = "partition" THEN Len(order) - at
    ELSE IF stage = "check" THEN Len(reachable_no_obligations) - at ELSE 0

CheckAhead ==
    <<StagesAhead,
      IF stage = "reach" THEN Ahead[1] ELSE FnsAhead,
      IF stage = "reach" THEN Ahead[2] ELSE 0,
      IF stage = "reach" THEN Ahead[3] ELSE 0,
      IF stage = "reach" THEN Ahead[4] ELSE 0>>

LEMMA CheckAheadType ==
    ASSUME ReachInv, CheckInv
    PROVE  CheckAhead \in [1 .. 5 -> Nat]
<1>1. Ahead \in [1 .. 4 -> Nat]
  BY AheadType DEF ReachInv
<1>2. Ahead[1] \in Nat /\ Ahead[2] \in Nat /\ Ahead[3] \in Nat /\ Ahead[4] \in Nat
  <2> HIDE DEF Ahead
  <2> QED BY <1>1
<1>3. FnsAhead \in Nat
  <2>1. CASE stage = "partition"
    <3>1. at \in Nat /\ at <= Len(order) /\ order \in Seq(Local)
      BY <2>1, AnalyzedOrder DEF CheckInv, Partitioned
    <3> QED BY <2>1, <3>1 DEF FnsAhead
  <2>2. CASE stage = "check"
    <3>1. /\ at \in Nat /\ at <= Len(reachable_no_obligations)
          /\ reachable_no_obligations \in Seq(Local)
      BY <2>2 DEF CheckInv, Checked
    <3> QED BY <2>2, <3>1 DEF FnsAhead
  <2>3. CASE stage \notin {"partition", "check"}
    BY <2>3 DEF FnsAhead
  <2> QED BY <2>1, <2>2, <2>3
<1>4. StagesAhead \in Nat
  BY DEF StagesAhead
<1>5. \A a, b, c, e, g \in Nat : <<a, b, c, e, g>> \in [1 .. 5 -> Nat]
  OBVIOUS
<1> QED BY <1>2, <1>3, <1>4, <1>5 DEF CheckAhead

LEMMA CheckNextAdvances ==
    ReachInv /\ CheckInv /\ CheckNext => <<CheckAhead', CheckAhead>> \in Nearer(5)
<1> SUFFICES ASSUME ReachInv, CheckInv, CheckNext
             PROVE  <<CheckAhead', CheckAhead>> \in Nearer(5)
  OBVIOUS
<1>1. ReachInv' /\ CheckInv'
  BY CheckInvNext
<1>2. PICK x, y : x = CheckAhead' /\ y = CheckAhead
  OBVIOUS
<1>3. x \in [1 .. 5 -> Nat] /\ y \in [1 .. 5 -> Nat]
  <2>1. CheckAhead \in [1 .. 5 -> Nat]
    BY CheckAheadType
  <2>2. (CheckAhead \in [1 .. 5 -> Nat])'
    BY <1>1, CheckAheadType, PTL
  <2> QED BY <1>2, <2>1, <2>2
<1>4. ASSUME NEW j \in 1 .. 5, \A i \in 1 .. j - 1 : x[i] = y[i], x[j] < y[j]
      PROVE  <<CheckAhead', CheckAhead>> \in Nearer(5)
  <2>1. <<x, y>> \in Nearer(5)
    BY <1>3, <1>4, NearerAt
  <2> QED BY <1>2, <2>1
<1>5. /\ x[1] = StagesAhead' /\ y[1] = StagesAhead
      /\ stage # "reach" /\ stage' # "reach" => x[2] = FnsAhead' /\ y[2] = FnsAhead
  BY <1>2 DEF CheckAhead
<1>6. ASSUME StagesAhead' < StagesAhead PROVE <<CheckAhead', CheckAhead>> \in Nearer(5)
  BY <1>4, <1>5, <1>6
<1>7. CASE LoadToml \/ ReachPanicked \/ StartPartition \/ PartitionCrash \/ StartCheck
           \/ CheckCrash \/ Return
  BY <1>6, <1>7 DEF LoadToml, ReachPanicked, StartPartition, PartitionCrash, StartCheck,
                    CheckCrash, CheckBegins, Return, Crash, StagesAhead
<1>8. CASE PartitionFn \/ CheckMissed \/ CheckUnjustified \/ CheckJustified
  <2>1. /\ stage' = stage /\ at' = at + 1 /\ at \in Nat /\ UNCHANGED order
        /\ \/ stage = "partition" /\ at < Len(order)
           \/ /\ stage = "check" /\ at < Len(reachable_no_obligations)
              /\ reachable_no_obligations' = reachable_no_obligations
    BY <1>8 DEF PartitionFn, CheckMissed, CheckUnjustified, CheckJustified, CheckBegins,
                CheckGoesOn, vars, CheckInv
  <2>2. x[1] = y[1]
    BY <1>5, <2>1 DEF StagesAhead
  <2>3. x[2] < y[2]
    <3>1. CASE stage = "partition"
      <4>1. Len(order) \in Nat
        BY <3>1, AnalyzedOrder DEF CheckInv
      <4> QED BY <1>5, <2>1, <3>1, <4>1 DEF FnsAhead
    <3>2. CASE stage = "check"
      <4>1. Len(reachable_no_obligations) \in Nat
        BY DEF CheckInv
      <4> QED BY <1>5, <2>1, <3>2, <4>1 DEF FnsAhead
    <3> QED BY <2>1, <3>1, <3>2
  <2>4. \A i \in 1 .. 2 - 1 : x[i] = y[i]
    BY <2>2
  <2> QED BY <1>4, <2>3, <2>4
<1>9. CASE FindReachable
  <2>1. stage = "reach" /\ stage' = "reach" /\ Next
    BY <1>9 DEF FindReachable, ownVars
  <2>2. PICK u, v : u = Ahead' /\ v = Ahead
    OBVIOUS
  <2>3. <<u, v>> \in Nearer(4)
    BY <2>1, <2>2, NextAdvances DEF ReachInv
  <2>4. PICK j \in 1 .. 4 : (\A i \in 1 .. j - 1 : u[i] = v[i]) /\ u[j] < v[j]
    BY <2>3, NearerIs
  <2>5. x[1] = y[1]
    BY <1>5, <2>1 DEF StagesAhead
  <2>6. /\ x[2] = u[1] /\ x[3] = u[2] /\ x[4] = u[3] /\ x[5] = u[4]
        /\ y[2] = v[1] /\ y[3] = v[2] /\ y[4] = v[3] /\ y[5] = v[4]
    BY <1>2, <2>1, <2>2 DEF CheckAhead
  <2>7. j + 1 \in 1 .. 5 /\ x[j + 1] < y[j + 1]
    BY <2>4, <2>6
  <2>8. \A i \in 1 .. (j + 1) - 1 : x[i] = y[i]
    <3> SUFFICES ASSUME NEW i \in 1 .. j PROVE x[i] = y[i]
      OBVIOUS
    <3>1. CASE i = 1
      BY <2>5, <3>1
    <3>2. CASE i # 1
      <4>1. PICK k \in 1 .. 4 : k = i - 1 /\ k \in 1 .. j - 1
        BY <3>2
      <4> QED BY <2>4, <2>6, <4>1
    <3> QED BY <3>1, <3>2
  <2> QED BY <1>4, <2>7, <2>8
<1> QED BY <1>7, <1>8, <1>9 DEF CheckNext

\* Each step of the check brings its end nearer: every crate is judged or takes
\* the plugin down after finitely many steps, whatever calls what in it.
CheckAdvances == [][(<<CheckAhead', CheckAhead>> \in Nearer(5))]_checkVars

THEOREM ChecksAdvance ==
    IsWellFoundedOn(Nearer(5), [1 .. 5 -> Nat]) /\ (CheckSpec => CheckAdvances)
<1>1. IsWellFoundedOn(Nearer(5), [1 .. 5 -> Nat])
  BY NearerWellFounded
<1>2. ReachInv /\ CheckInv /\ [CheckNext]_checkVars
         => [(<<CheckAhead', CheckAhead>> \in Nearer(5))]_checkVars
  BY CheckNextAdvances
<1>3. CheckSpec => CheckAdvances
  BY <1>2, CheckInvInit, CheckInvNext, PTL DEF CheckSpec, CheckAdvances
<1> QED BY <1>1, <1>3
=============================================================================
