------------------------------- MODULE Crate -------------------------------
(***************************************************************************)
(* One crate as the plugin sees it after type checking, and the entry      *)
(* points of its analysis (reachability/attrs.rs, reachability/entry.rs).  *)
(*                                                                         *)
(* A crate is a record.  Its local definitions are numbers: LocalDefIds in *)
(* the order of tcx.hir_body_owners().  The optimized MIR of a definition  *)
(* is reduced to the sequence of callees of its Call terminators, in the   *)
(* order the MIR visitor meets them; position i of f's body is the call    *)
(* whose span the code keeps.                                              *)
(***************************************************************************)
EXTENDS Integers, Sequences, FiniteSets

CONSTANTS
    Local,      \* the local definitions, numbered in HIR order
    Extern,     \* the functions of other crates
    NotFn,      \* the callee of a call that is not a constant FnDef
    Path,       \* Path[f] ranks f's def_path_str; different items may share it
    Crates      \* the crates that may be compiled

Fns == Local \cup Extern

\* "fn" has a body; "bodyless" is a required trait method or a foreign
\* function; "const" is a constant or static, a body owner that is no function.
Kinds == {"fn", "bodyless", "const"}

\* The names after `sniff_tool::`.  "abc" stands for the names of fewer than
\* four characters, "long" for every other name that is not the tool's.
AttrNames == {"check_unsafe", "check_unsafe_pub",
              "check_panics", "check_panics_pub", "long", "abc"}

CrateType == [kind          : [Local -> Kinds],
              body          : [Local -> Seq(Fns \cup {NotFn})],
              pub           : SUBSET Local,
              attrs         : [Local -> SUBSET AttrNames],
              globals       : Seq(AttrNames),
              is_dependency : BOOLEAN]

\* What rustc guarantees: only a definition with a body makes calls, and
\* constants are not called.
ASSUME CrateAssumption ==
    /\ Local \subseteq Nat /\ IsFiniteSet(Local)
    /\ Local \cap Extern = {} /\ NotFn \notin Fns
    /\ Path \in [Fns -> Nat]
    /\ Crates \subseteq CrateType
    /\ \A c \in Crates, f \in Local :
          /\ c.kind[f] = "bodyless" => c.body[f] = << >>
          /\ \A i \in DOMAIN c.body[f] :
                c.body[f][i] \in Local => c.kind[c.body[f][i]] # "const"

\* tcx.has_typeck_results
HasTypeck(c, f) == c.kind[f] # "bodyless"

\* tcx.hir_body_owners()
BodyOwners(c) == {f \in Local : c.kind[f] # "bodyless"}

-----------------------------------------------------------------------------
(* Attributes, for the only property the driver runs (SafetyProperty).     *)

\* Slicing the last four bytes off a shorter name panics; a name that is one
\* of the tool's is recognised before the slice is taken.
TryFromStringPubPanics(name) == name = "abc"

\* The crate attributes try_from_string_pub recognises for the property.
GlobalAnnots(c) ==
    {i \in DOMAIN c.globals :
        c.globals[i] \in {"check_unsafe", "check_unsafe_pub"}}

FindGlobalPanics(c) ==
    \/ \E i \in DOMAIN c.globals : TryFromStringPubPanics(c.globals[i])
    \/ \E i, j \in GlobalAnnots(c) : i # j

HasGlobal(c, name) == \E i \in GlobalAnnots(c) : c.globals[i] = name

\* An item's own attributes go through try_from_string: `_pub` is no match.
IsDirectlyAnnotated(c, f) == "check_unsafe" \in c.attrs[f]

-----------------------------------------------------------------------------
(* Entry points.                                                           *)

IsDefAnalyzeable(c, f) == c.kind[f] = "fn"

AllLocalFnDefs(c)     == {f \in BodyOwners(c) : IsDefAnalyzeable(c, f)}
AllPubLocalFnDefs(c)  == AllLocalFnDefs(c) \cap c.pub
AnnotatedLocalDefs(c) == {f \in BodyOwners(c) : IsDirectlyAnnotated(c, f)}

\* Variant: `_pub` at the top of the crate replaces the other annotations.
EntryPointsPubOnly(c) ==
    IF c.is_dependency THEN AllPubLocalFnDefs(c)
    ELSE IF HasGlobal(c, "check_unsafe") THEN AllLocalFnDefs(c)
    ELSE IF HasGlobal(c, "check_unsafe_pub") THEN AllPubLocalFnDefs(c)
    ELSE AnnotatedLocalDefs(c)

EntryPoints(c) ==
    IF c.is_dependency THEN AllPubLocalFnDefs(c)
    ELSE IF HasGlobal(c, "check_unsafe") THEN AllLocalFnDefs(c)
    ELSE AnnotatedLocalDefs(c)
            \cup (IF HasGlobal(c, "check_unsafe_pub")
                     THEN AllPubLocalFnDefs(c) ELSE {})

\* Variant: the crate attributes are read before a dependency returns.
EntryPanicsEverywhere(c) ==
    FindGlobalPanics(c) \/ \E f \in EntryPoints(c) : c.kind[f] = "const"

\* find_global_annotation is not reached for a dependency; the debug block of
\* check_crate_for_property asks for the optimized MIR of every entry point,
\* which rustc refuses for a constant.
EntryPanics(c) ==
    \/ ~c.is_dependency /\ FindGlobalPanics(c)
    \/ \E f \in EntryPoints(c) : c.kind[f] = "const"

\* The two early returns keep HIR order; the other path collects a HashSet,
\* whose iteration order is arbitrary.
FromHashSet(c) == ~c.is_dependency /\ ~HasGlobal(c, "check_unsafe")

\* Every sequence that lists the elements of S once each.
Orderings(S) ==
    {s \in [1..Cardinality(S) -> S] : \A x \in S : \E i \in DOMAIN s : s[i] = x}

\* Variant: the first entry point is lost.
EntryPointsButFirst(c) == {Tail(s) : s \in Orderings(EntryPoints(c)) \ {<< >>}}

AnalysisEntryPoints(c) ==
    {s \in Orderings(EntryPoints(c)) :
        FromHashSet(c) \/ \A i, j \in DOMAIN s : i < j => s[i] < s[j]}

-----------------------------------------------------------------------------
(* The call graph the analysis is about.                                   *)

\* The call sites: <<f, i>> is the i-th call of f.
Calls(c) == UNION {{<<f, i>> : i \in DOMAIN c.body[f]} : f \in Local}

Callee(c, call) == c.body[call[1]][call[2]]

\* S holds every entry point and every local callee of its members.
Closed(c, S) ==
    /\ EntryPoints(c) \subseteq S
    /\ \A f \in S : \A i \in DOMAIN c.body[f] :
          c.body[f][i] \in Local => c.body[f][i] \in S

\* The least such set: what is reachable from the entry points by calls.
Reachable(c) == {f \in Local : \A S \in SUBSET Local : Closed(c, S) => f \in S}

\* The part of it that has a body to analyze.
Analyzed(c) == {f \in Reachable(c) : HasTypeck(c, f)}

\* p is a chain of calls from an entry point to f.
IsCallPath(c, p, f) ==
    IF p = << >> THEN f \in EntryPoints(c)
    ELSE /\ \A k \in DOMAIN p : p[k] \in Calls(c)
         /\ p[1][1] \in EntryPoints(c)
         /\ \A k \in 1 .. Len(p) - 1 : Callee(c, p[k]) = p[k + 1][1]
         /\ Callee(c, p[Len(p)]) = f
=============================================================================
