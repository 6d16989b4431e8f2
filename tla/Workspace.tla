----------------------------- MODULE Workspace -----------------------------
(***************************************************************************)
(* cargo builds a workspace with the plugin's driver as its compiler       *)
(* (lib.rs, bin/sniff-test-driver.rs): a process per crate, in parallel,   *)
(* dependencies first, and none for a crate whose fingerprint is that of   *)
(* the last build.  The arguments and sniff-test.toml are in no            *)
(* fingerprint, and someone may edit them, or the sources.                 *)
(*                                                                         *)
(* A driver process is one step here; Driver.tla has what it does.         *)
(***************************************************************************)
EXTENDS Integers, FiniteSets

CONSTANTS
    Pkgs,        \* the packages of the build
    Members,     \* those of the workspace; the others are from a registry
    Deps,        \* Deps[p] are the packages p depends on
    Versions,    \* the versions of a source or of sniff-test.toml
    Postures     \* what `--dependencies` may be

VARIABLES
    sources,     \* the version of each package's source
    toml,        \* the version of the workspace's sniff-test.toml
    args,        \* SniffTestArgs of the last build: the posture
    cache,       \* what cargo keeps of each package's last successful build
    running,     \* packages a driver process is at work on
    failed,      \* a driver process has failed in this build
    status,      \* of the build
    touched      \* toml or args have changed since `cargo clean`

workspaceVars == <<sources, toml, args, cache, running, failed, status, touched>>

DependencyClosure(p) ==
    {q \in Pkgs : \A S \in SUBSET Pkgs :
        p \in S /\ (\A r \in S : Deps[r] \subseteq S) => q \in S}

ASSUME WorkspaceAssumption ==
    /\ IsFiniteSet(Pkgs) /\ Members \subseteq Pkgs /\ Deps \in [Pkgs -> SUBSET Pkgs]
    /\ \A p \in Pkgs : \A q \in Deps[p] : p \notin DependencyClosure(q)
    /\ Postures \subseteq {"Trust", "Find", "Verify"}

\* What a driver process sees: the sources, with the documentation of the
\* dependencies, and the arguments.  It looks for sniff-test.toml where cargo
\* runs it: in the root of the workspace, or of a registry package.
SourcesOf(p) == [q \in DependencyClosure(p) |-> sources[q]]
Input(p) == [sources |-> SourcesOf(p),
             toml |-> IF p \in Members THEN {toml} ELSE {},
             args |-> args]

Nothing == [verdict |-> "none"]

Fresh(p) == cache[p] # Nothing /\ cache[p].input.sources = SourcesOf(p)

WorkspaceInit ==
    /\ sources \in [Pkgs -> Versions] /\ toml \in Versions /\ args \in Postures
    /\ cache = [p \in Pkgs |-> Nothing]
    /\ running = {} /\ failed = FALSE
    /\ status = "idle" /\ touched = FALSE

Idle == status # "building"

-----------------------------------------------------------------------------
(* The user.                                                               *)

Edit(p) ==
    /\ Idle
    /\ \E v \in Versions : sources' = [sources EXCEPT ![p] = v]
    /\ status' = "idle"
    /\ UNCHANGED <<toml, args, cache, running, failed, touched>>

\* Also while the drivers run.
EditToml ==
    /\ toml' \in Versions \ {toml}
    /\ touched' = TRUE
    /\ UNCHANGED <<sources, args, cache, running, failed, status>>

Clean ==
    /\ Idle
    /\ cache' = [p \in Pkgs |-> Nothing]
    /\ touched' = FALSE
    /\ status' = "idle"
    /\ UNCHANGED <<sources, toml, args, running, failed>>

\* `--dependencies` has no default: clap refuses a command line without it.
Refuse ==
    /\ Idle
    /\ status' = "refused"
    /\ UNCHANGED <<sources, toml, args, cache, running, failed, touched>>

\* cargo-sniff-test: modify_cargo makes the driver cargo's compiler.
Invoke ==
    /\ Idle
    /\ args' \in Postures
    /\ touched' = (touched \/ (args' # args /\ \E p \in Pkgs : cache[p] # Nothing))
    /\ status' = "building" /\ failed' = FALSE
    /\ UNCHANGED <<sources, toml, cache, running>>

-----------------------------------------------------------------------------
(* cargo, and the driver processes.                                        *)

Spawn(p) ==
    /\ status = "building" /\ ~failed
    /\ p \notin running /\ ~Fresh(p)
    /\ \A q \in Deps[p] : Fresh(q)
    /\ running' = running \cup {p}
    /\ UNCHANGED <<sources, toml, args, cache, failed, status, touched>>

\* The match of analyze_crate, with the guess right; a check may panic.
Outcomes(p) ==
    IF p \in Members \/ args = "Verify" THEN {"ok", "stop", "crash"}
    ELSE IF args = "Trust" THEN {"trusted"} ELSE {"crash"}

\* Variant: after the diagnostics the compilation goes on.
KeepsStopped(outcome) == outcome # "crash"

\* Compilation::Continue: rustc writes what the dependents need.
Keeps(outcome) == outcome \in {"ok", "trusted"}

\* Variant: a process that fails is not waited for.
DriveForgotten(p) ==
    /\ p \in running
    /\ \E outcome \in Outcomes(p) :
          /\ cache' = [cache EXCEPT ![p] = IF Keeps(outcome)
                          THEN [verdict |-> outcome, input |-> Input(p)] ELSE Nothing]
          /\ running' = IF Keeps(outcome) THEN running \ {p} ELSE running
    /\ UNCHANGED <<sources, toml, args, failed, status, touched>>

Drive(p) ==
    /\ p \in running
    /\ \E outcome \in Outcomes(p) :
          /\ cache' = [cache EXCEPT ![p] = IF Keeps(outcome)
                          THEN [verdict |-> outcome, input |-> Input(p)] ELSE Nothing]
          /\ failed' = (failed \/ ~Keeps(outcome))
    /\ running' = running \ {p}
    /\ UNCHANGED <<sources, toml, args, status, touched>>

Finish ==
    /\ status = "building" /\ running = {}
    /\ failed \/ \A p \in Pkgs : Fresh(p)
    /\ status' = IF failed THEN "failed" ELSE "passed"
    /\ UNCHANGED <<sources, toml, args, cache, running, failed, touched>>

WorkspaceNext ==
    \/ EditToml \/ Clean \/ Refuse \/ Invoke \/ Finish
    \/ \E p \in Pkgs : Edit(p) \/ Spawn(p) \/ Drive(p)

\* cargo goes on while it can, and each process ends (DriverEnds); nothing is
\* assumed of the user.
Fairness ==
    /\ WF_workspaceVars(Finish)
    /\ \A p \in Pkgs : WF_workspaceVars(Spawn(p)) /\ WF_workspaceVars(Drive(p))

WorkspaceSpec == WorkspaceInit /\ [][WorkspaceNext]_workspaceVars /\ Fairness
-----------------------------------------------------------------------------
\* After `cargo clean` (README.md:12), and as long as neither the arguments nor
\* the TOML file change, a build that passes has judged every crate as it is
\* now: after edits and failed builds, and whatever processes ran at once.
PassIsCurrent ==
    status = "passed" /\ ~touched =>
        \A p \in Pkgs : /\ cache[p].input = Input(p)
                        /\ cache[p].verdict \in Outcomes(p) \ {"stop", "crash"}

\* A crate is taken as built only if its dependencies passed before it, as they
\* were then: no crate is judged by the documentation of one that failed.
DependenciesFirst ==
    [][\A p \in Pkgs : cache'[p] # cache[p] /\ cache'[p] # Nothing =>
          \A q \in Deps[p] : cache[q] # Nothing /\ cache[q].verdict \in {"ok", "trusted"}]_cache

\* A build comes to an end.
BuildEnds == status = "building" ~> status # "building"
=============================================================================
