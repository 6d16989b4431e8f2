------------------------------- MODULE Check -------------------------------
(***************************************************************************)
(* check_crate_for_property (check/mod.rs): the whole check of one crate.  *)
(* The TOML file is read, the functions to check are found (Reach.tla),    *)
(* those that state obligations are set apart and trusted, the others are  *)
(* checked call by call, and the crate passes or is reported.              *)
(*                                                                         *)
(* A panic of the plugin takes the compilation down from any of the steps. *)
(***************************************************************************)
EXTENDS Reach, Annotations

CONSTANT Notes     \* what may be written about the crates

VARIABLES
    notes,                     \* the annotations of the crate
    stage,                     \* where check_crate_for_property is
    toml_annotations,          \* the overrides in force
    at,                        \* functions of the current list done
    stats,                     \* CheckStats
    reachable_no_obligations,  \* Vec of functions to check
    local_errors               \* Vec of LocalError

ownVars   == <<notes, stage, toml_annotations, at, stats,
               reachable_no_obligations, local_errors>>
checkVars == <<vars, ownVars>>

ASSUME NotesAssumption == \A n \in Notes : IsNotes(n)

CheckStats == [entrypoints : Nat, total_fns_checked : Nat, w_obligation : Nat,
               w_no_obligation : Nat, calls_checked : Nat]
NoStats    == [entrypoints |-> 0, total_fns_checked |-> 0, w_obligation |-> 0,
               w_no_obligation |-> 0, calls_checked |-> 0]

\* An error is about one function.  Of a Basic error the calls are the
\* unjustified ones; of a CallMissedObligations error, the one call.
LocalError == [kind  : {"Basic", "Trait", "CallMissedObligations", "FnDefShouldHaveKeyword"},
               func  : Local,
               calls : SUBSET Nat]

\* The notes fit the crate: one site for each of its calls.
Fits(n, c) ==
    /\ \A f \in Local : DOMAIN n.sites[f] = DOMAIN c.body[f]
    /\ n.unsafe \cap Local \subseteq {f \in Local : c.kind[f] # "const"}

CheckInit ==
    /\ Init
    /\ notes \in Notes
    /\ Fits(notes, crate)
    /\ stage = "toml"
    /\ toml_annotations = NoTables
    /\ at = 0
    /\ stats = NoStats
    /\ reachable_no_obligations = << >>
    /\ local_errors = << >>

Panics(f)         == ParsePanics(notes, toml_annotations, f)
ObligationOf(f)   == Obligation(notes, toml_annotations, f)
HasObligation(f)  == ObligationOf(f) # None
-----------------------------------------------------------------------------
LoadToml ==
    /\ stage = "toml"
    /\ toml_annotations' = FromFile(notes)
    /\ stage' = "reach"
    /\ UNCHANGED <<vars, notes, at, stats, reachable_no_obligations, local_errors>>

\* locally_reachable_from, step by step.
FindReachable ==
    /\ stage = "reach"
    /\ Next
    /\ UNCHANGED ownVars

Crash ==
    /\ stage' = "crashed"
    /\ UNCHANGED <<vars, notes, toml_annotations, at, stats,
                   reachable_no_obligations, local_errors>>

ReachPanicked ==
    /\ stage = "reach"
    /\ pc = "panicked"
    /\ Crash

StartPartition ==
    /\ stage = "reach"
    /\ pc = "done"
    /\ stage' = "partition"
    /\ at' = 0
    /\ stats' = [stats EXCEPT !.entrypoints = Cardinality(EntryPoints(crate))]
    /\ UNCHANGED <<vars, notes, toml_annotations, reachable_no_obligations, local_errors>>

-----------------------------------------------------------------------------
(* The first loop: obligations.                                            *)

IsImplOfTrait(f) == notes.trait_fn[f] # f

\* The function's own annotation is parsed; then, if it is an obligation and
\* the function implements a trait's, that of the trait function.
PartitionPanics(f) ==
    \/ Panics(f)
    \/ HasObligation(f) /\ IsImplOfTrait(f) /\ Panics(notes.trait_fn[f])

\* Variant: only the kinds of obligation are compared.
InconsistentKind(f) ==
    IsImplOfTrait(f) /\ ObligationOf(f).kind # ObligationOf(notes.trait_fn[f]).kind

Inconsistent(f) ==
    IsImplOfTrait(f) /\ ObligationOf(f) # ObligationOf(notes.trait_fn[f])

\* Variant: it is the trait function that is reported.
DefErrorsOfTrait(f) ==
    IF Inconsistent(f)
       THEN <<[kind |-> "Trait", func |-> notes.trait_fn[f], calls |-> {}]>> ELSE << >>

\* check_consistent_w_trait_requirements, then additional_check.
DefErrors(f) ==
    (IF Inconsistent(f)
        THEN <<[kind |-> "Trait", func |-> f, calls |-> {}]>> ELSE << >>)
    \o (IF f \notin notes.unsafe
        THEN <<[kind |-> "FnDefShouldHaveKeyword", func |-> f, calls |-> {}]>> ELSE << >>)

PartitionFn ==
    /\ stage = "partition"
    /\ at < Len(order)
    /\ LET f == order[at + 1] IN
          /\ ~PartitionPanics(f)
          /\ stats' = IF HasObligation(f)
                         THEN [stats EXCEPT !.total_fns_checked = @ + 1,
                                            !.w_obligation = @ + 1]
                         ELSE [stats EXCEPT !.total_fns_checked = @ + 1,
                                            !.w_no_obligation = @ + 1]
          /\ local_errors' = IF HasObligation(f) THEN local_errors \o DefErrors(f)
                             ELSE local_errors
          /\ reachable_no_obligations' =
                IF HasObligation(f) THEN reachable_no_obligations
                ELSE Append(reachable_no_obligations, f)
    /\ at' = at + 1
    /\ UNCHANGED <<vars, notes, stage, toml_annotations>>

PartitionCrash ==
    /\ stage = "partition"
    /\ at < Len(order)
    /\ PartitionPanics(order[at + 1])
    /\ Crash

\* Variant: the second loop goes on where the first one ended.
StartCheckNotReset ==
    /\ stage = "partition"
    /\ at = Len(order)
    /\ stage' = "check"
    /\ UNCHANGED <<vars, notes, toml_annotations, at, stats,
                   reachable_no_obligations, local_errors>>

StartCheck ==
    /\ stage = "partition"
    /\ at = Len(order)
    /\ stage' = "check"
    /\ at' = 0
    /\ UNCHANGED <<vars, notes, toml_annotations, stats,
                   reachable_no_obligations, local_errors>>

-----------------------------------------------------------------------------
(* The second loop: check_function_for_property.                           *)

\* The Vec of the spans of f's calls of g, and their call sites.
FromSpans(f, g) == locally_reachable[f].calls_to[g]
Sites(f, g)     == Elements(FromSpans(f, g))
CalledBy(f)     == {g \in Fns : FromSpans(f, g) # << >>}

\* find_calls_w_obligations
CallsWObligations(f) == {g \in CalledBy(f) : HasObligation(g)}
\* Variant: a callee is counted once, however often it is called.
CallCtOnce(f) == Cardinality(CallsWObligations(f))

\* The lengths of the Vecs, added up.
CallCt(f) ==
    Cardinality(UNION {{<<g, k>> : k \in DOMAIN FromSpans(f, g)} : g \in CallsWObligations(f)})

\* Variant: the callees of other crates are not parsed.
CalleePanicsLocal(f) == \E g \in CalledBy(f) \cap Local : Panics(g)

\* Parsing the annotation of any callee may panic.
CalleePanics(f) == \E g \in CalledBy(f) : Panics(g)

\* At a call of an obligated g the check cannot go on: the expression is not
\* found, the conditions cannot be compared, or some are not considered.
NotFound(f, i)      == ~notes.sites[f][i].hir
Incomparable(f, i)  == notes.sites[f][i].comment /\ ~notes.args.buzzword_checking
Missed(f, g, i)     ==
    /\ notes.sites[f][i].comment
    /\ Unconsidered(ObligationOf(g), notes.sites[f][i]) # {}
Stops(f, g, i) ==
    \/ NotFound(f, i)
    \/ ObligationOf(g).kind = "conditions" /\ (Incomparable(f, i) \/ Missed(f, g, i))
StopsFatally(f, g, i) ==
    \/ NotFound(f, i)
    \/ ObligationOf(g).kind = "conditions" /\ Incomparable(f, i)

\* The callees come in the order of a HashMap, so any one that stops the check
\* may be the first to; the calls to one callee come in the order of the Vec.
Stoppers(f) == {g \in CallsWObligations(f) : \E i \in Sites(f, g) : Stops(f, g, i)}
FirstStop(f, g) ==
    LET k == CHOOSE k \in DOMAIN FromSpans(f, g) :
                 /\ Stops(f, g, FromSpans(f, g)[k])
                 /\ \A j \in 1 .. k - 1 : ~Stops(f, g, FromSpans(f, g)[j])
    IN FromSpans(f, g)[k]

UnjustifiedAxioms(f) == {a \in DOMAIN notes.axioms[f] : ~notes.axioms[f][a]}
\* Variants: one comment is good for all calls to the same function; one call
\* without a comment has all calls to the same function reported.
UnjustifiedIfNone(f) ==
    UNION {IF \E i \in Sites(f, g) : notes.sites[f][i].comment THEN {} ELSE Sites(f, g) :
              g \in CallsWObligations(f)}

UnjustifiedAll(f) ==
    UNION {IF \E i \in Sites(f, g) : ~notes.sites[f][i].comment THEN Sites(f, g) ELSE {} :
              g \in CallsWObligations(f)}

UnjustifiedCalls(f)  ==
    UNION {{i \in Sites(f, g) : ~notes.sites[f][i].comment} : g \in CallsWObligations(f)}

\* The function in hand.
Current == reachable_no_obligations[at + 1]

CheckBegins ==
    /\ stage = "check"
    /\ at < Len(reachable_no_obligations)

CheckGoesOn ==
    /\ at' = at + 1
    /\ stats' = [stats EXCEPT !.calls_checked = @ + CallCt(Current)]
    /\ UNCHANGED <<vars, notes, stage, toml_annotations, reachable_no_obligations>>

CheckCrash ==
    /\ CheckBegins
    /\ \/ CalleePanics(Current)
       \/ \E g \in Stoppers(Current) :
             StopsFatally(Current, g, FirstStop(Current, g))
    /\ Crash

\* The early return: what else is wrong with the function is not reported.
CheckMissed ==
    /\ CheckBegins
    /\ ~CalleePanics(Current)
    /\ \E g \in Stoppers(Current) :
          LET i == FirstStop(Current, g) IN
             /\ ~StopsFatally(Current, g, i)
             /\ local_errors' = Append(local_errors,
                    [kind |-> "CallMissedObligations", func |-> Current, calls |-> {i}])
    /\ CheckGoesOn

CheckUnjustified ==
    /\ CheckBegins
    /\ ~CalleePanics(Current)
    /\ Stoppers(Current) = {}
    /\ UnjustifiedAxioms(Current) \cup UnjustifiedCalls(Current) # {}
    /\ local_errors' = Append(local_errors,
           [kind |-> "Basic", func |-> Current, calls |-> UnjustifiedCalls(Current)])
    /\ CheckGoesOn

CheckJustified ==
    /\ CheckBegins
    /\ ~CalleePanics(Current)
    /\ Stoppers(Current) = {}
    /\ UnjustifiedAxioms(Current) \cup UnjustifiedCalls(Current) = {}
    /\ UNCHANGED local_errors
    /\ CheckGoesOn

Return ==
    /\ stage = "check"
    /\ at = Len(reachable_no_obligations)
    /\ stage' = IF local_errors = << >> THEN "ok" ELSE "errors"
    /\ UNCHANGED <<vars, notes, toml_annotations, at, stats,
                   reachable_no_obligations, local_errors>>

CheckNext ==
    \/ LoadToml \/ FindReachable \/ ReachPanicked \/ StartPartition
    \/ PartitionFn \/ PartitionCrash \/ StartCheck
    \/ CheckCrash \/ CheckMissed \/ CheckUnjustified \/ CheckJustified \/ Return

\* One sequential computation, as in Reach.tla.
CheckSpec == CheckInit /\ [][CheckNext]_checkVars /\ WF_checkVars(CheckNext)
-----------------------------------------------------------------------------
CheckTypeOK ==
    /\ notes \in Notes
    /\ stage \in {"toml", "reach", "partition", "check", "ok", "errors", "crashed"}
    /\ \A p \in DOMAIN toml_annotations : toml_annotations[p] \in Table
    /\ at \in Nat
    /\ stats \in CheckStats
    /\ reachable_no_obligations \in Seq(Local)
    /\ local_errors \in Seq(LocalError)

(* What is wrong with a function, read off the crate and its notes alone.  *)

Arg(n, arg) == [n EXCEPT !.args[arg] = FALSE]

\* What n and the overrides make of the calls of f, each on its own.
BadCall(n, f, i) ==
    LET ob == Obligation(n, FromFile(n), crate.body[f][i]) IN
       /\ crate.body[f][i] \in Fns
       /\ ob # None
       /\ \/ ~n.sites[f][i].comment
          \/ ob.kind = "conditions" /\ Unconsidered(ob, n.sites[f][i]) # {}

\* A function that states obligations must agree with its trait and be unsafe;
\* of any other, each raw pointer dereference and each call must be justified.
Faulty(n, f) ==
    LET ob == Obligation(n, FromFile(n), f) IN
       IF ob # None
          THEN \/ f \notin n.unsafe
               \/ ob # Obligation(n, FromFile(n), n.trait_fn[f])
          ELSE \/ \E a \in DOMAIN n.axioms[f] : ~n.axioms[f][a]
               \/ \E i \in DOMAIN crate.body[f] : BadCall(n, f, i)

\* The report names exactly the faulty functions among those reachable from the
\* entry points, and a crate passes only if there is none: nothing is lost
\* between the worklist, the two loops and their early returns (mod.rs:64-126).
ReportExact ==
    stage \in {"ok", "errors"} =>
        {local_errors[k].func : k \in DOMAIN local_errors}
            = {f \in Analyzed(crate) : Faulty(notes, f)}

Erroneous(file) ==
    \/ file.status = "unreadable"
    \/ file.status = "tables" /\ \E p \in DOMAIN file.tables : file.tables[p].bad

WithoutFile(n) == [n EXCEPT !.toml = [status |-> "missing", tables |-> NoTables]]

\* "Fails on any errors, never returning partial results" (toml.rs:42): with an
\* error anywhere in sniff-test.toml the report is that of the crate without
\* the file, whatever the tables before and after the error would override.
BrokenFileIsNoFile ==
    stage \in {"ok", "errors"} /\ Erroneous(notes.toml) =>
        {local_errors[k].func : k \in DOMAIN local_errors}
            = {f \in Analyzed(crate) : Faulty(WithoutFile(notes), f)}

\* The calls an error lists are bad calls, and a Basic error lists all those
\* without a comment: a justified call to the same callee hides none of them.
ErrorsListBadCalls ==
    \A k \in DOMAIN local_errors :
        LET e == local_errors[k] IN
           /\ \A i \in e.calls : BadCall(notes, e.func, i)
           /\ e.kind = "Basic" =>
                 \A i \in DOMAIN crate.body[e.func] :
                     BadCall(notes, e.func, i) => i \in e.calls

\* The counters a passing check returns and the driver logs (lib.rs:253) are
\* those of the crate: functions and call sites, each counted once.
StatsExact ==
    stage = "ok" =>
        LET obligated == {f \in Analyzed(crate) : HasObligation(f)}
            checked   == Analyzed(crate) \ obligated
        IN stats = [entrypoints       |-> Cardinality(EntryPoints(crate)),
                    total_fns_checked |-> Cardinality(Analyzed(crate)),
                    w_obligation      |-> Cardinality(obligated),
                    w_no_obligation   |-> Cardinality(checked),
                    calls_checked     |->
                        Cardinality({call \in Calls(crate) :
                                        /\ call[1] \in checked
                                        /\ Callee(crate, call) \in Fns
                                        /\ HasObligation(Callee(crate, call))})]

\* The plugin goes down only for a reason in reach of the analysis: attributes
\* or entry points it cannot handle, conditions badly written where they are
\* asked for, a doc comment with a condition whose range has no character
\* (annotations/mod.rs:52), or a call it cannot place in the source or compare.
CrashHasCause ==
    stage = "crashed" =>
        \/ EntryPanics(crate)
        \/ \E f \in Analyzed(crate) :
              \E g \in {f, notes.trait_fn[f]} \cup CalledBy(f) :
                 /\ IsAnnotated(notes, FromFile(notes), g)
                 /\ \/ /\ notes.args.fine_grained
                       /\ g \in Extern => notes.args.check_dependencies
                       /\ ~HasConditions(Text(notes, FromFile(notes), g))
                    \/ /\ ~Overridden(FromFile(notes), g)
                       /\ LET text == Text(notes, FromFile(notes), g) IN
                             \E i \in DOMAIN text :
                                IsBullet(text[i]) /\ ~Malformed(text, i) /\ ~text[i].spanned
        \/ \E f \in Analyzed(crate) : \E i \in DOMAIN crate.body[f] :
              /\ crate.body[f][i] \in Fns
              /\ HasObligation(crate.body[f][i])
              /\ \/ NotFound(f, i)
                 \/ notes.args.fine_grained /\ Incomparable(f, i)

\* The fine-grained analysis is the stricter one: a crate that passes it has
\* nothing the coarse analysis of the same crate would report.
FinePassIsCoarsePass ==
    stage = "ok" => \A f \in Analyzed(crate) : ~Faulty(Arg(notes, "fine_grained"), f)

\* Whether a crate passes does not depend on the order of a HashMap: when it
\* does, there was nothing in any function that could have taken the plugin
\* down or ended the function's check early, whichever came first (mod.rs:194).
PassIsFinal ==
    stage = "ok" =>
        \A f \in Analyzed(crate) :
            /\ ~PartitionPanics(f)
            /\ ~HasObligation(f) =>
                  \A i \in DOMAIN crate.body[f] :
                      LET g == crate.body[f][i] IN
                         g \in Fns => ~Panics(g) /\ (HasObligation(g) => ~Stops(f, g, i))

\* Every check comes to an end, on recursive crates too: the crate passes, is
\* reported or the plugin has panicked.
Concludes == <>(stage \in {"ok", "errors", "crashed"})

-----------------------------------------------------------------------------
(* What a comment says and the code does not do.                           *)

\* "Specifically ignore descriptions when comparing conditions for equality,
\* as only the name is important" (annotations/mod.rs:185): an implementation
\* that names its trait's conditions is not reported as inconsistent with it.
SameNamesConsistent ==
    \A k \in DOMAIN local_errors :
        LET own   == ObligationOf(local_errors[k].func)
            trait == ObligationOf(notes.trait_fn[local_errors[k].func])
        IN /\ local_errors[k].kind = "Trait"
           /\ own.kind = "conditions" /\ trait.kind = "conditions"
           => own.names # trait.names
=============================================================================
