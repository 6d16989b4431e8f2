------------------------------- MODULE Driver -------------------------------
(***************************************************************************)
(* One driver process: rustc is run on a crate with the plugin in it.  The *)
(* plugin guesses from the arguments whether the crate is a dependency,    *)
(* takes the posture it is told to (lib.rs), checks the crate (Check.tla), *)
(* emits one diagnostic for each error (check/err.rs), and tells rustc to  *)
(* stop or to continue.                                                    *)
(***************************************************************************)
EXTENDS Check

CONSTANT Invocations     \* [origin, edition, posture] of the process

VARIABLES
    invocation,  \* where cargo has the crate from, and how it is asked for
    diagnostics, \* errors emitted
    verdict      \* Compilation: "stop" or "continue", "none" before

driverVars == <<checkVars, invocation, diagnostics, verdict>>

\* A crate is a workspace member below the root of the workspace or beside it,
\* an excluded path dependency below the root, or comes from a registry.
Origins    == {"member", "member_beside", "excluded", "registry"}
Postures   == {"Trust", "Find", "Verify"}

ASSUME DriverAssumption ==
    Invocations \subseteq [origin : Origins, edition : BOOLEAN, posture : Postures]

\* cargo passes a path below the root of the workspace relative to it if the
\* package is a path dependency, and any other one absolute.
Absolute(origin) == origin \in {"member_beside", "registry"}

\* compiler_args[4] is the path if `--edition` is passed before it, and else
\* the argument after the path, which is no .rs file.
TypicalPathSlot(inv) ==
    IF ~inv.edition THEN "flag" ELSE IF Absolute(inv.origin) THEN "/" ELSE "relative"

\* Variant: what is no relative path in the slot is taken for an absolute one.
IsDependencyUnlessRelative(inv) == TypicalPathSlot(inv) # "relative"

IsDependency(inv) == TypicalPathSlot(inv) = "/"

DriverInit ==
    /\ invocation \in Invocations
    /\ CheckInit
    /\ crate.is_dependency = IsDependency(invocation)
    /\ diagnostics = << >>
    /\ verdict = "none"

IsChecked == ~IsDependency(invocation) \/ invocation.posture = "Verify"

CheckCrate ==
    /\ IsChecked
    /\ CheckNext
    /\ UNCHANGED <<invocation, diagnostics, verdict>>

Trust ==
    /\ ~IsChecked /\ invocation.posture = "Trust" /\ verdict = "none"
    /\ verdict' = "continue"
    /\ UNCHANGED <<checkVars, invocation, diagnostics>>

\* todo!()
Find ==
    /\ ~IsChecked /\ invocation.posture = "Find" /\ stage # "crashed"
    /\ Crash
    /\ UNCHANGED <<invocation, diagnostics, verdict>>

-----------------------------------------------------------------------------
(* report_error.  Of a message the function it is about, the chain of      *)
(* calls and the counts are kept.                                          *)

Message == [subject : Fns, chain : Seq(Local \X Nat), calls : Nat, axioms : Nat]

Says(f) == [subject |-> f, chain |-> << >>, calls |-> 0, axioms |-> 0]

Through(f) == locally_reachable[f].through

\* Variant: what is counted are the functions called.
CallSummaryByFn(e) == Cardinality({crate.body[e.func][i] : i \in e.calls})

CallSummary(e)  == Cardinality(e.calls)
AxiomSummary(e) == Cardinality(UnjustifiedAxioms(e.func))

\* "function .. directly contains ..", "reachable from .."
BasicMessage(e) ==
    [Says(e.func) EXCEPT !.chain = Through(e.func),
                         !.calls = CallSummary(e), !.axioms = AxiomSummary(e)]

\* CallMissedObligations, Trait and FnDefShouldHaveKeyword name the function.
MessageOf(e) == IF e.kind = "Basic" THEN BasicMessage(e) ELSE Says(e.func)

ReportError ==
    /\ stage = "errors" /\ Len(diagnostics) < Len(local_errors)
    /\ diagnostics' = Append(diagnostics, MessageOf(local_errors[Len(diagnostics) + 1]))
    /\ UNCHANGED <<checkVars, invocation, verdict>>

\* Variants: rustc is stopped at the first diagnostic; one more is waited for.
FailFirst ==
    /\ stage = "errors" /\ Len(diagnostics) > 0 /\ verdict = "none"
    /\ verdict' = "stop"
    /\ UNCHANGED <<checkVars, invocation, diagnostics>>

FailPastEnd ==
    /\ stage = "errors" /\ Len(diagnostics) > Len(local_errors) /\ verdict = "none"
    /\ verdict' = "stop"
    /\ UNCHANGED <<checkVars, invocation, diagnostics>>

Fail ==
    /\ stage = "errors" /\ Len(diagnostics) = Len(local_errors) /\ verdict = "none"
    /\ verdict' = "stop"
    /\ UNCHANGED <<checkVars, invocation, diagnostics>>

Pass ==
    /\ stage = "ok" /\ verdict = "none"
    /\ verdict' = "continue"
    /\ UNCHANGED <<checkVars, invocation, diagnostics>>

DriverNext == CheckCrate \/ Trust \/ Find \/ ReportError \/ Fail \/ Pass

\* One sequential computation.
DriverSpec == DriverInit /\ [][DriverNext]_driverVars /\ WF_driverVars(DriverNext)
-----------------------------------------------------------------------------
DriverTypeOK ==
    /\ invocation \in Invocations
    /\ diagnostics \in Seq(Message)
    /\ verdict \in {"none", "stop", "continue"}

FaultyFns(c) == {f \in Analyzed(c) : Faulty(notes, f)}

\* rustc is stopped exactly if some function is faulty and the crate is
\* checked, and then each faulty function, and no other, has a diagnostic: a
\* build cannot fail without a message nor succeed with one.
VerdictExact ==
    verdict # "none" =>
        /\ {diagnostics[k].subject : k \in DOMAIN diagnostics}
              = IF IsChecked THEN FaultyFns(crate) ELSE {}
        /\ verdict = "stop" <=> diagnostics # << >>

\* The chain a diagnostic prints is one of calls the crate makes, each at the
\* place printed with it, from an entry point to the function reported, and
\* the function is said to contain something.
MessagesTrue ==
    \A k \in DOMAIN diagnostics :
        LET e == local_errors[k]
            m == diagnostics[k]
            uncommented == {i \in DOMAIN crate.body[m.subject] :
                               /\ BadCall(notes, m.subject, i)
                               /\ ~notes.sites[m.subject][i].comment}
        IN e.kind = "Basic" =>
              /\ IsCallPath(crate, m.chain, m.subject)
              /\ m.calls = Cardinality(uncommented)
              /\ m.calls + m.axioms > 0

\* The crate, as what it is.
TrueCrate == [crate EXCEPT !.is_dependency = invocation.origin \in {"excluded", "registry"}]

\* The guess of is_dependency is good for what lies below the root of the
\* workspace, and for registry packages whose edition cargo passes (lib.rs:203):
\* none of these passes with a faulty function, the latter under Verify.
GuessedCratesChecked ==
    (verdict = "continue"
     /\ \/ invocation.origin = "member"
        \/ /\ invocation.origin = "registry" /\ invocation.edition
           /\ invocation.posture = "Verify")
    => FaultyFns(TrueCrate) = {}

\* The process comes to an end.
DriverEnds == <>(verdict # "none" \/ stage = "crashed")
=============================================================================
