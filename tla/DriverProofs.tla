---------------------------- MODULE DriverProofs ----------------------------
(* Theorems about Driver.tla: what one run of the driver tells rustc and its *)
(* user, for every crate, its annotations and the way cargo passes it.       *)
EXTENDS CheckProofs, Driver

\* The check as it was proved about, and the chains of Reach.tla.
WholeInv == ReachInv /\ CheckInv /\ RestInv /\ ErrorInv /\ PathInv

LEMMA WholeInit == CheckInit => WholeInv
<1>1. CheckInit => Init
  BY DEF CheckInit
<1>2. CheckInit => ErrorInv
  BY DEF CheckInit, ErrorInv, AllTrue
<1> QED BY <1>1, <1>2, CheckInvInit, RestInvInit, PathInit DEF WholeInv

LEMMA WholeNext == WholeInv /\ [CheckNext]_checkVars => WholeInv'
<1>1. ReachInv => TypeOK /\ SearchInv
  BY DEF ReachInv
<1> QED BY <1>1, CheckInvNext, RestInvNext, ErrorInvNext, PathNext, CheckStepIsReachStep
        DEF WholeInv

\* A check that has concluded does nothing more.
LEMMA ConcludedStops == stage \in {"ok", "errors", "crashed"} => ~CheckNext
<1> QED BY DEF CheckNext, LoadToml, FindReachable, ReachPanicked, StartPartition, PartitionFn,
               PartitionCrash, StartCheck, CheckCrash, CheckMissed, CheckUnjustified,
               CheckJustified, CheckBegins, Return

\* Errors are reported only if there are some.
LEMMA ErrorsThere ==
    CheckInv /\ (stage = "errors" => local_errors # << >>) /\ [CheckNext]_checkVars
      => (stage' = "errors" => local_errors' # << >>)
<1> QED BY DEF checkVars, ownVars, CheckNext, LoadToml, FindReachable, ReachPanicked,
               StartPartition, PartitionFn, PartitionCrash, StartCheck, CheckCrash, Crash,
               CheckMissed, CheckUnjustified, CheckJustified, CheckBegins, CheckGoesOn, Return

\* The diagnostics are those of the first errors, in order, and the verdict is
\* given when nothing is left to report.  A crate that is not checked stays
\* where it was.
VerdictInv ==
    /\ invocation \in Invocations
    /\ crate.is_dependency = IsDependency(invocation)
    /\ verdict \in {"none", "stop", "continue"}
    /\ diagnostics \in [1 .. Len(diagnostics) -> Message]
    /\ Len(diagnostics) \in Nat
    /\ IsChecked =>
          /\ WholeInv
          /\ Len(diagnostics) <= Len(local_errors)
          /\ \A k \in DOMAIN diagnostics : diagnostics[k] = MessageOf(local_errors[k])
          /\ stage # "errors" => diagnostics = << >>
          /\ stage = "errors" => local_errors # << >>
          /\ verdict = "stop" => stage = "errors" /\ Len(diagnostics) = Len(local_errors)
          /\ verdict = "continue" => stage = "ok"
    /\ ~IsChecked => /\ diagnostics = << >> /\ verdict # "stop"
                     /\ stage \in {"toml", "crashed"}

LEMMA VerdictInit == DriverInit => VerdictInv
<1> QED BY WholeInit DEF DriverInit, VerdictInv, CheckInit

\* What an error counts is finite.
LEMMA ErrorFacts ==
    ASSUME WholeInv, stage = "errors", NEW k \in DOMAIN local_errors,
           NEW e, e = local_errors[k]
    PROVE  /\ TrueError(e) /\ e \in LocalError
           /\ e.func \in DOMAIN locally_reachable /\ e.func \in Local
           /\ IsFiniteSet(e.calls) /\ IsFiniteSet(UnjustifiedAxioms(e.func))
<1>1. /\ TrueError(e) /\ pc = "done" /\ ReachInv /\ e \in LocalError /\ notes \in Notes
  BY DEF WholeInv, ErrorInv, AllTrue, CheckInv, RestInv
<1>2. e.func \in DOMAIN locally_reachable /\ e.func \in Local
  BY <1>1, AnalyzedOrder DEF TrueError
<1>3. IsFiniteSet(e.calls)
  <2>1. crate.body[e.func] \in Seq(Fns \cup {NotFn})
    BY <1>1, <1>2, CrateFacts DEF ReachInv, TypeOK
  <2>2. IsFiniteSet(DOMAIN crate.body[e.func])
    BY <2>1, FiniteDomain
  <2>3. e.calls \subseteq DOMAIN crate.body[e.func]
    BY <1>1 DEF TrueError
  <2> QED BY <2>2, <2>3, FS_Subset
<1>4. IsFiniteSet(UnjustifiedAxioms(e.func))
  <2>1. notes.axioms[e.func] \in Seq(BOOLEAN)
    BY <1>1, <1>2, NotesAssumption DEF IsNotes
  <2>2. UnjustifiedAxioms(e.func) \subseteq DOMAIN notes.axioms[e.func]
    BY DEF UnjustifiedAxioms
  <2> QED BY <2>1, <2>2, FiniteDomain, FS_Subset
<1> QED BY <1>1, <1>2, <1>3, <1>4

\* A message is about a function of the crate.
LEMMA MessageType ==
    ASSUME WholeInv, stage = "errors", NEW k \in DOMAIN local_errors
    PROVE  MessageOf(local_errors[k]) \in Message
<1>1. PICK e : e = local_errors[k]
  OBVIOUS
<1>2. /\ e.func \in DOMAIN locally_reachable /\ e.func \in Local
      /\ IsFiniteSet(e.calls) /\ IsFiniteSet(UnjustifiedAxioms(e.func))
  BY <1>1, ErrorFacts
<1>3. Says(e.func) \in Message
  BY <1>2 DEF Says, Message, Fns
<1>4. Through(e.func) \in Seq(Local \X Nat)
  BY <1>2 DEF Through, WholeInv, ReachInv, TypeOK, Visited
<1>5. CallSummary(e) \in Nat /\ AxiomSummary(e) \in Nat
  BY <1>2, FS_CardinalityType DEF CallSummary, AxiomSummary
<1>6. BasicMessage(e) \in Message
  BY <1>3, <1>4, <1>5 DEF BasicMessage, Message
<1> QED BY <1>1, <1>3, <1>6 DEF MessageOf

LEMMA VerdictNext == VerdictInv /\ [DriverNext]_driverVars => VerdictInv'
<1> SUFFICES ASSUME VerdictInv, [DriverNext]_driverVars PROVE VerdictInv'
  OBVIOUS
<1>1. CASE CheckCrate
  <2>1. /\ IsChecked /\ CheckNext /\ UNCHANGED <<invocation, diagnostics, verdict>>
        /\ IsChecked' /\ WholeInv
    BY <1>1 DEF CheckCrate, IsChecked, VerdictInv
  <2>2. crate' = crate
    BY <2>1, CheckStepIsReachStep
       DEF Next, vars, EntryPanic, New, Skip, Visit, Pop, VisitTerminator, Insert, SortByPath
  <2>3. WholeInv' /\ (stage' = "errors" => local_errors' # << >>)
    BY <2>1, WholeNext, ErrorsThere DEF VerdictInv, WholeInv
  <2>4. stage \notin {"ok", "errors", "crashed"}
    BY <2>1, ConcludedStops
  <2>5. diagnostics = << >> /\ verdict = "none"
    BY <2>1, <2>4 DEF VerdictInv
  <2>6. Len(local_errors') \in Nat
    BY <2>3 DEF WholeInv, CheckInv
  <2> QED BY <2>1, <2>2, <2>3, <2>5, <2>6 DEF VerdictInv
<1>2. CASE Trust
  BY <1>2 DEF Trust, VerdictInv, IsChecked, checkVars, vars, ownVars
<1>3. CASE Find
  BY <1>3 DEF Find, Crash, VerdictInv, IsChecked, checkVars, vars
<1>a. ASSUME UNCHANGED <<checkVars, invocation>>
      PROVE  /\ WholeInv => WholeInv'
             /\ IsChecked' = IsChecked /\ crate' = crate /\ stage' = stage
             /\ local_errors' = local_errors
             /\ \A e : MessageOf(e)' = MessageOf(e)
  <2>1. WholeInv => WholeInv'
    BY <1>a, WholeNext
  <2>2. /\ crate' = crate /\ stage' = stage /\ local_errors' = local_errors
        /\ notes' = notes /\ locally_reachable' = locally_reachable
        /\ invocation' = invocation
    BY <1>a DEF checkVars, vars, ownVars
  <2>3. \A e : MessageOf(e)' = MessageOf(e)
    BY <2>2 DEF MessageOf, Says, BasicMessage, Through, CallSummary, AxiomSummary,
                UnjustifiedAxioms
  <2> QED BY <2>1, <2>2, <2>3 DEF IsChecked
<1>4. CASE ReportError
  <2>1. /\ stage = "errors" /\ Len(diagnostics) < Len(local_errors)
        /\ diagnostics' = Append(diagnostics, MessageOf(local_errors[Len(diagnostics) + 1]))
        /\ UNCHANGED <<checkVars, invocation>> /\ verdict' = verdict
    BY <1>4 DEF ReportError
  <2>2. CASE IsChecked
    <3>1. PICK n \in Nat : n = Len(diagnostics)
      BY DEF VerdictInv
    <3>2. PICK m : m = MessageOf(local_errors[n + 1])
      OBVIOUS
    <3>3. WholeInv /\ n + 1 \in DOMAIN local_errors /\ local_errors \in Seq(LocalError)
      BY <2>1, <2>2, <3>1 DEF VerdictInv, WholeInv, CheckInv
    <3>4. m \in Message
      BY <2>1, <3>2, <3>3, MessageType
    <3>5. diagnostics \in Seq(Message) /\ Len(diagnostics) = n
      BY <3>1 DEF VerdictInv
    <3>6. diagnostics' = Append(diagnostics, m)
      BY <2>1, <3>1, <3>2
    <3>7. /\ diagnostics' \in Seq(Message) /\ Len(diagnostics') = n + 1
          /\ \A k \in 1 .. n : diagnostics'[k] = diagnostics[k]
          /\ diagnostics'[n + 1] = m
      BY <3>4, <3>5, <3>6
    <3>8. \A k \in 1 .. n + 1 : diagnostics'[k] = MessageOf(local_errors[k])
      <4>1. \A k \in 1 .. n : diagnostics[k] = MessageOf(local_errors[k])
        BY <2>2, <3>1, <3>5 DEF VerdictInv
      <4> QED BY <3>2, <3>7, <4>1
    <3>9. verdict = "none"
      BY <2>1, <2>2 DEF VerdictInv
    <3>10. n + 1 <= Len(local_errors)
      BY <2>1, <3>1, <3>3
    <3>11. /\ diagnostics' \in [1 .. Len(diagnostics') -> Message]
           /\ Len(diagnostics') \in Nat /\ Len(diagnostics') <= Len(local_errors')
           /\ DOMAIN diagnostics' = 1 .. n + 1
      <4>1. diagnostics' \in [1 .. Len(diagnostics') -> Message] /\ DOMAIN diagnostics' = 1 .. n + 1
        BY <3>7
      <4> QED BY <1>a, <2>1, <3>7, <3>10, <4>1
    <3>12. \A k \in DOMAIN diagnostics' : diagnostics'[k] = MessageOf(local_errors[k])'
      BY <1>a, <2>1, <3>8, <3>11
    <3>13. /\ WholeInv' /\ stage' = "errors" /\ local_errors' # << >>
           /\ verdict' = "none" /\ IsChecked' /\ crate' = crate /\ invocation' = invocation
      BY <1>a, <2>1, <2>2, <3>9 DEF VerdictInv
    <3>14. invocation' \in Invocations /\ crate'.is_dependency = IsDependency(invocation')
      BY <3>13 DEF VerdictInv
    <3> QED BY <3>11, <3>12, <3>13, <3>14 DEF VerdictInv
  <2>3. CASE ~IsChecked
    BY <2>1, <2>3 DEF VerdictInv
  <2> QED BY <2>2, <2>3
<1>5. CASE Fail
  <2>1. /\ stage = "errors" /\ Len(diagnostics) = Len(local_errors) /\ verdict' = "stop"
        /\ UNCHANGED <<checkVars, invocation>> /\ diagnostics' = diagnostics
    BY <1>5 DEF Fail
  <2> QED BY <1>a, <2>1 DEF VerdictInv
<1>6. CASE Pass
  <2>1. /\ stage = "ok" /\ verdict' = "continue"
        /\ UNCHANGED <<checkVars, invocation>> /\ diagnostics' = diagnostics
    BY <1>6 DEF Pass
  <2> QED BY <1>a, <2>1 DEF VerdictInv
<1>7. CASE UNCHANGED driverVars
  <2>1. UNCHANGED <<checkVars, invocation>> /\ diagnostics' = diagnostics /\ verdict' = verdict
    BY <1>7 DEF driverVars
  <2> QED BY <1>a, <2>1 DEF VerdictInv
<1> QED BY <1>1, <1>2, <1>3, <1>4, <1>5, <1>6, <1>7 DEF DriverNext
-----------------------------------------------------------------------------
(* The theorems.                                                           *)

\* What the verdict and the messages rest on holds in every run of the driver.
THEOREM VerdictInvariant == DriverSpec => []VerdictInv
<1> QED BY VerdictInit, VerdictNext, PTL DEF DriverSpec

\* The state of the process is well typed: each message is about a function,
\* its chain is made of calls and its counts are numbers.
THEOREM DriverTypeCorrect == DriverSpec => []DriverTypeOK
<1>1. VerdictInv => DriverTypeOK
  BY DEF VerdictInv, DriverTypeOK
<1> QED BY <1>1, VerdictInvariant, PTL

\* A verdict is given only when every error is reported.
LEMMA VerdictMeans ==
    ASSUME VerdictInv, verdict # "none"
    PROVE  /\ {diagnostics[k].subject : k \in DOMAIN diagnostics}
                 = IF IsChecked THEN FaultyFns(crate) ELSE {}
           /\ verdict = "stop" <=> diagnostics # << >>
<1>1. CASE ~IsChecked
  BY <1>1 DEF VerdictInv
<1>2. CASE IsChecked /\ verdict = "stop"
  <2>1. /\ stage = "errors" /\ Len(diagnostics) = Len(local_errors) /\ CheckInv
        /\ local_errors \in Seq(LocalError) /\ local_errors # << >>
        /\ diagnostics \in Seq(Message)
        /\ \A k \in DOMAIN diagnostics : diagnostics[k] = MessageOf(local_errors[k])
    BY <1>2 DEF VerdictInv, WholeInv, CheckInv
  <2>2. \A e : MessageOf(e).subject = e.func
    BY DEF MessageOf, BasicMessage, Says
  <2>3. DOMAIN diagnostics = DOMAIN local_errors /\ diagnostics # << >>
    BY <2>1
  <2>4. {diagnostics[k].subject : k \in DOMAIN diagnostics}
           = {local_errors[k].func : k \in DOMAIN local_errors}
    <3>1. \A k \in DOMAIN diagnostics : diagnostics[k].subject = local_errors[k].func
      BY <2>1, <2>2
    <3> QED BY <2>3, <3>1
  <2> QED BY <1>2, <2>1, <2>3, <2>4 DEF CheckInv, ReportExact, FaultyFns
<1>3. CASE IsChecked /\ verdict = "continue"
  <2>1. /\ stage = "ok" /\ local_errors = << >> /\ diagnostics = << >> /\ CheckInv
    BY <1>3 DEF VerdictInv, WholeInv, RestInv
  <2> QED BY <1>3, <2>1 DEF CheckInv, ReportExact, FaultyFns
<1> QED BY <1>1, <1>2, <1>3 DEF VerdictInv

\* rustc is stopped exactly if a crate that is checked has a faulty function,
\* and each of those, and no other, has a message: for every crate and every
\* way it can be passed, no build fails without a message nor succeeds with one.
THEOREM VerdictIsExact == DriverSpec => []VerdictExact
<1>1. VerdictInv => VerdictExact
  BY VerdictMeans DEF VerdictExact
<1> QED BY <1>1, VerdictInvariant, PTL

\* What a message prints is so: its chain is one of calls the crate makes from
\* an entry point, and the function contains as many calls to report as it says.
THEOREM MessagesAreTrue == DriverSpec => []MessagesTrue
<1>1. VerdictInv => MessagesTrue
  <2> SUFFICES ASSUME VerdictInv, NEW k \in DOMAIN diagnostics, NEW e, NEW m,
                      e = local_errors[k], m = diagnostics[k], e.kind = "Basic"
               PROVE  /\ IsCallPath(crate, m.chain, m.subject)
                      /\ m.calls = Cardinality({i \in DOMAIN crate.body[m.subject] :
                                       /\ BadCall(notes, m.subject, i)
                                       /\ ~notes.sites[m.subject][i].comment})
                      /\ m.calls + m.axioms > 0
    BY DEF MessagesTrue
  <2>1. IsChecked /\ stage = "errors" /\ WholeInv
    BY DEF VerdictInv
  <2>2. k \in DOMAIN local_errors /\ m = BasicMessage(e)
    <3>1. /\ local_errors \in Seq(LocalError) /\ diagnostics \in Seq(Message)
          /\ Len(diagnostics) <= Len(local_errors) /\ m = MessageOf(e)
      BY <2>1 DEF VerdictInv, WholeInv, CheckInv
    <3> QED BY <3>1 DEF MessageOf
  <2>3. /\ m.subject = e.func /\ m.chain = Through(e.func)
        /\ m.calls = Cardinality(e.calls) /\ m.axioms = Cardinality(UnjustifiedAxioms(e.func))
    BY <2>2 DEF BasicMessage, Says, CallSummary, AxiomSummary
  <2>4. /\ TrueError(e) /\ e.func \in DOMAIN locally_reachable
        /\ IsFiniteSet(e.calls) /\ IsFiniteSet(UnjustifiedAxioms(e.func))
    BY <2>1, <2>2, ErrorFacts
  <2>5. IsCallPath(crate, m.chain, m.subject)
    BY <2>1, <2>3, <2>4 DEF WholeInv, PathInv, ThroughIsCallPath, Through
  <2>6. e.calls = Uncommented(e.func) /\ UnjustifiedAxioms(e.func) \cup e.calls # {}
    BY <2>4 DEF TrueError
  <2>7. m.calls + m.axioms > 0
    <3>1. m.calls \in Nat /\ m.axioms \in Nat
      BY <2>3, <2>4, FS_CardinalityType
    <3>2. m.calls = 0 <=> e.calls = {}
      BY <2>3, <2>4, FS_EmptySet
    <3>3. m.axioms = 0 <=> UnjustifiedAxioms(e.func) = {}
      BY <2>3, <2>4, FS_EmptySet
    <3> QED BY <2>6, <3>1, <3>2, <3>3
  <2> QED BY <2>3, <2>5, <2>6, <2>7 DEF Uncommented
<1> QED BY <1>1, VerdictInvariant, PTL

\* Wherever the guess of is_dependency is good the analysis is the right one: no
\* member below the root of the workspace, and under Verify no registry package
\* whose edition is passed, passes with a faulty function.
THEOREM GuessedAreChecked == DriverSpec => []GuessedCratesChecked
<1>1. VerdictInv => GuessedCratesChecked
  <2> SUFFICES ASSUME VerdictInv, verdict = "continue",
                      \/ invocation.origin = "member"
                      \/ /\ invocation.origin = "registry" /\ invocation.edition
                         /\ invocation.posture = "Verify"
               PROVE  FaultyFns(TrueCrate) = {}
    BY DEF GuessedCratesChecked
  <2>1. /\ crate.is_dependency = (invocation.origin \in {"excluded", "registry"})
        /\ IsChecked
    BY DEF VerdictInv, IsDependency, TypicalPathSlot, Absolute, IsChecked
  <2>2. crate \in Crates
    BY <2>1 DEF VerdictInv, WholeInv, ReachInv, TypeOK
  <2>3. crate \in CrateType
    BY <2>2, CrateAssumption
  <2>4. TrueCrate = crate
    BY <2>1, <2>3 DEF TrueCrate, CrateType
  <2>5. FaultyFns(crate) = {}
    BY <2>1, VerdictMeans
  <2> QED BY <2>4, <2>5
<1> QED BY <1>1, VerdictInvariant, PTL
-----------------------------------------------------------------------------
(* The process ends.                                                       *)

\* What lies ahead of the process: the check, or the crash that is there in
\* place of one, then the messages and the verdict.
DriverAhead ==
    <<IF IsChecked THEN CheckAhead[1] ELSE IF stage = "crashed" THEN 0 ELSE 1,
      IF IsChecked THEN CheckAhead[2] ELSE 0,
      IF IsChecked THEN CheckAhead[3] ELSE 0,
      IF IsChecked THEN CheckAhead[4] ELSE 0,
      IF IsChecked THEN CheckAhead[5] ELSE 0,
      (IF verdict = "none" THEN 1 ELSE 0)
        + (IF stage = "errors" THEN Len(local_errors) - Len(diagnostics) ELSE 0)>>

LEMMA DriverAheadType ==
    ASSUME VerdictInv
    PROVE  DriverAhead \in [1 .. 6 -> Nat]
<1>1. IsChecked => CheckAhead \in [1 .. 5 -> Nat]
  BY CheckAheadType DEF VerdictInv, WholeInv
<1>2. IsChecked => /\ CheckAhead[1] \in Nat /\ CheckAhead[2] \in Nat /\ CheckAhead[3] \in Nat
                   /\ CheckAhead[4] \in Nat /\ CheckAhead[5] \in Nat
  <2> HIDE DEF CheckAhead
  <2> QED BY <1>1
<1>3. PICK left : left = (IF verdict = "none" THEN 1 ELSE 0)
           + (IF stage = "errors" THEN Len(local_errors) - Len(diagnostics) ELSE 0)
  OBVIOUS
<1>4. left \in Nat
  <2>1. CASE stage = "errors"
    <3>1. IsChecked
      BY <2>1 DEF VerdictInv
    <3>2. Len(diagnostics) \in Nat /\ Len(local_errors) \in Nat
          /\ Len(diagnostics) <= Len(local_errors)
      BY <3>1 DEF VerdictInv, WholeInv, CheckInv
    <3> QED BY <1>3, <2>1, <3>2
  <2>2. CASE stage # "errors"
    BY <1>3, <2>2
  <2> QED BY <2>1, <2>2
<1>5. \A a, b, c, k, e, g \in Nat : <<a, b, c, k, e, g>> \in [1 .. 6 -> Nat]
  OBVIOUS
<1> QED BY <1>2, <1>3, <1>4, <1>5 DEF DriverAhead

LEMMA DriverNextAdvances ==
    VerdictInv /\ DriverNext => <<DriverAhead', DriverAhead>> \in Nearer(6)
<1> SUFFICES ASSUME VerdictInv, DriverNext
             PROVE  <<DriverAhead', DriverAhead>> \in Nearer(6)
  OBVIOUS
<1>1. VerdictInv'
  BY VerdictNext
<1>2. PICK x, y : x = DriverAhead' /\ y = DriverAhead
  OBVIOUS
<1>3. x \in [1 .. 6 -> Nat] /\ y \in [1 .. 6 -> Nat]
  <2>1. DriverAhead \in [1 .. 6 -> Nat]
    BY DriverAheadType
  <2>2. (DriverAhead \in [1 .. 6 -> Nat])'
    BY <1>1, DriverAheadType, PTL
  <2> QED BY <1>2, <2>1, <2>2
<1>4. ASSUME NEW j \in 1 .. 6, \A i \in 1 .. j - 1 : x[i] = y[i], x[j] < y[j]
      PROVE  <<DriverAhead', DriverAhead>> \in Nearer(6)
  <2>1. <<x, y>> \in Nearer(6)
    BY <1>3, <1>4, NearerAt
  <2> QED BY <1>2, <2>1
<1>5. CASE CheckCrate
  <2>1. IsChecked /\ IsChecked' /\ CheckNext /\ ReachInv /\ CheckInv
    BY <1>5 DEF CheckCrate, IsChecked, VerdictInv, WholeInv
  <2>2. PICK u, v : u = CheckAhead' /\ v = CheckAhead
    OBVIOUS
  <2>3. <<u, v>> \in Nearer(5)
    BY <2>1, <2>2, CheckNextAdvances
  <2>4. PICK j \in 1 .. 5 : (\A i \in 1 .. j - 1 : u[i] = v[i]) /\ u[j] < v[j]
    BY <2>3, NearerIs
  <2>5. /\ x[1] = u[1] /\ x[2] = u[2] /\ x[3] = u[3] /\ x[4] = u[4] /\ x[5] = u[5]
        /\ y[1] = v[1] /\ y[2] = v[2] /\ y[3] = v[3] /\ y[4] = v[4] /\ y[5] = v[5]
    BY <1>2, <2>1, <2>2 DEF DriverAhead
  <2>6. \A i \in 1 .. 5 : x[i] = u[i] /\ y[i] = v[i]
    BY <2>5
  <2>7. j \in 1 .. 6 /\ x[j] < y[j] /\ \A i \in 1 .. j - 1 : x[i] = y[i]
    BY <2>4, <2>6
  <2> QED BY <1>4, <2>7
<1>6. CASE Find
  <2>1. ~IsChecked /\ ~IsChecked' /\ stage # "crashed" /\ stage' = "crashed"
    BY <1>6 DEF Find, Crash, IsChecked
  <2>2. x[1] = 0 /\ y[1] = 1
    BY <1>2, <2>1 DEF DriverAhead
  <2> QED BY <1>4, <2>2
<1>7. ASSUME UNCHANGED <<checkVars, invocation>>, x[6] < y[6]
      PROVE  <<DriverAhead', DriverAhead>> \in Nearer(6)
  <2>1. /\ IsChecked' = IsChecked /\ stage' = stage /\ CheckAhead' = CheckAhead
    BY <1>7 DEF checkVars, vars, ownVars, IsChecked, CheckAhead, StagesAhead, FnsAhead,
                Ahead, Unvisited, Body
  <2>2. x[1] = y[1] /\ x[2] = y[2] /\ x[3] = y[3] /\ x[4] = y[4] /\ x[5] = y[5]
    BY <1>2, <2>1 DEF DriverAhead
  <2> QED BY <1>4, <1>7, <2>2
<1>8. /\ x[6] = (IF verdict' = "none" THEN 1 ELSE 0)
           + (IF stage' = "errors" THEN Len(local_errors') - Len(diagnostics') ELSE 0)
      /\ y[6] = (IF verdict = "none" THEN 1 ELSE 0)
           + (IF stage = "errors" THEN Len(local_errors) - Len(diagnostics) ELSE 0)
  BY <1>2 DEF DriverAhead
<1>9. UNCHANGED checkVars => stage' = stage /\ local_errors' = local_errors
  BY DEF checkVars, vars, ownVars
<1>10. x[6] \in Nat /\ y[6] \in Nat
  BY <1>3
<1>11. CASE Trust \/ Fail \/ Pass
  <2>1. /\ UNCHANGED <<checkVars, invocation, diagnostics>>
        /\ verdict = "none" /\ verdict' # "none"
    BY <1>11 DEF Trust, Fail, Pass
  <2>2. PICK k : k = IF stage = "errors" THEN Len(local_errors) - Len(diagnostics) ELSE 0
    OBVIOUS
  <2>3. x[6] = 0 + k /\ y[6] = 1 + k
    BY <1>8, <1>9, <2>1, <2>2
  <2>4. k \in Int
    <3>1. IsChecked => Len(local_errors) \in Nat
      BY DEF VerdictInv, WholeInv, CheckInv
    <3> QED BY <2>2, <3>1 DEF VerdictInv
  <2> QED BY <1>7, <2>1, <2>3, <2>4
<1>12. CASE ReportError
  <2>1. /\ UNCHANGED <<checkVars, invocation, verdict>> /\ stage = "errors"
        /\ diagnostics' = Append(diagnostics, MessageOf(local_errors[Len(diagnostics) + 1]))
    BY <1>12 DEF ReportError
  <2>2. IsChecked
    BY <2>1 DEF VerdictInv
  <2>3. /\ Len(local_errors) \in Nat /\ Len(diagnostics) \in Nat
        /\ diagnostics \in Seq(Message)
    BY <2>2 DEF VerdictInv, WholeInv, CheckInv
  <2>4. Len(diagnostics') = Len(diagnostics) + 1
    BY <2>1, <2>3
  <2>5. x[6] < y[6]
    BY <1>8, <1>9, <2>1, <2>3, <2>4
  <2> QED BY <1>7, <2>1, <2>5
<1> QED BY <1>5, <1>6, <1>11, <1>12 DEF DriverNext

\* Each step of the driver brings its end nearer: rustc is not kept waiting for
\* ever, whatever the crate, its annotations and the way it is passed.
DriverAdvances == [][(<<DriverAhead', DriverAhead>> \in Nearer(6))]_driverVars

THEOREM DriversAdvance ==
    IsWellFoundedOn(Nearer(6), [1 .. 6 -> Nat]) /\ (DriverSpec => DriverAdvances)
<1>1. IsWellFoundedOn(Nearer(6), [1 .. 6 -> Nat])
  BY NearerWellFounded
<1>2. VerdictInv /\ [DriverNext]_driverVars
         => [(<<DriverAhead', DriverAhead>> \in Nearer(6))]_driverVars
  BY DriverNextAdvances
<1>3. DriverSpec => DriverAdvances
  BY <1>2, VerdictInit, VerdictNext, PTL DEF DriverSpec, DriverAdvances
<1> QED BY <1>1, <1>3
=============================================================================
