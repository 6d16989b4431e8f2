-------------------------- MODULE WorkspaceProofs --------------------------
(* Theorems about Workspace.tla: for any packages, dependencies and versions, *)
(* whatever the user does and in whatever order the processes end.            *)
EXTENDS Workspace, FiniteSetTheorems, TLAPS

\* What cargo keeps of a package: of a process that passed, with all it saw.
Kept(p) == [verdict : {"ok", "trusted"},
            input   : [sources : [DependencyClosure(p) -> Versions],
                       toml    : {{}} \cup {{v} : v \in Versions},
                       args    : Postures]]

BuildTypeOK ==
    /\ sources \in [Pkgs -> Versions]
    /\ toml \in Versions
    /\ args \in Postures
    /\ DOMAIN cache = Pkgs
    /\ \A p \in Pkgs : cache[p] = Nothing \/ cache[p] \in Kept(p)
    /\ running \subseteq Pkgs

\* Processes run while cargo builds only, each for a package that needs one and
\* whose dependencies do not.
RunningInv ==
    /\ running # {} => status = "building"
    /\ \A p \in running : ~Fresh(p) /\ \A q \in Deps[p] : Fresh(q)

\* Unless someone has changed them, the file and the arguments are those the
\* processes have seen, and their verdicts are such as these allow.
UntouchedInv ==
    ~touched =>
        \A p \in Pkgs : cache[p] # Nothing =>
            /\ cache[p].input.toml = Input(p).toml
            /\ cache[p].input.args = args
            /\ cache[p].verdict \in Outcomes(p)

\* Of a build that has passed nothing changes before the next one, but the file.
PassedInv == status = "passed" => \A p \in Pkgs : Fresh(p)

BuildInv == BuildTypeOK /\ RunningInv /\ UntouchedInv /\ PassedInv

-----------------------------------------------------------------------------
LEMMA ClosureInPkgs == \A p \in Pkgs : DependencyClosure(p) \subseteq Pkgs
<1> QED BY DEF DependencyClosure

LEMMA InputType ==
    ASSUME BuildTypeOK, NEW p \in Pkgs
    PROVE  /\ SourcesOf(p) \in [DependencyClosure(p) -> Versions]
           /\ Input(p) = [sources |-> SourcesOf(p),
                          toml |-> IF p \in Members THEN {toml} ELSE {}, args |-> args]
           /\ Input(p) \in [sources : [DependencyClosure(p) -> Versions],
                            toml    : {{}} \cup {{v} : v \in Versions},
                            args    : Postures]
<1>1. SourcesOf(p) \in [DependencyClosure(p) -> Versions]
  BY ClosureInPkgs DEF BuildTypeOK, SourcesOf
<1> QED BY <1>1 DEF BuildTypeOK, Input

LEMMA KeptIsSomething == \A p \in Pkgs : \A c \in Kept(p) : c # Nothing
<1> QED BY DEF Kept, Nothing

LEMMA OutcomesKept ==
    ASSUME NEW p \in Pkgs, NEW outcome \in Outcomes(p), Keeps(outcome)
    PROVE  outcome \in {"ok", "trusted"}
<1> QED BY DEF Keeps

\* What depends on the sources and on the cache is as they are.
LEMMA SameSources ==
    ASSUME NEW p \in Pkgs, UNCHANGED sources
    PROVE  /\ SourcesOf(p)' = SourcesOf(p)
           /\ cache'[p] = cache[p] => (Fresh(p)' <=> Fresh(p))
<1>1. SourcesOf(p)' = SourcesOf(p)
  BY DEF SourcesOf, DependencyClosure
<1> QED BY <1>1 DEF Fresh, Nothing

LEMMA BuildInvInit == WorkspaceInit => BuildInv
<1> SUFFICES ASSUME WorkspaceInit PROVE BuildInv
  OBVIOUS
<1>1. BuildTypeOK
  BY DEF WorkspaceInit, BuildTypeOK
<1>2. RunningInv /\ UntouchedInv /\ PassedInv
  BY DEF WorkspaceInit, RunningInv, UntouchedInv, PassedInv
<1> QED BY <1>1, <1>2 DEF BuildInv

-----------------------------------------------------------------------------
LEMMA BuildTypeNext == BuildTypeOK /\ [WorkspaceNext]_workspaceVars => BuildTypeOK'
<1> SUFFICES ASSUME BuildTypeOK, [WorkspaceNext]_workspaceVars PROVE BuildTypeOK'
  OBVIOUS
<1>1. ASSUME NEW p \in Pkgs, Edit(p) PROVE BuildTypeOK'
  BY <1>1 DEF Edit, BuildTypeOK
<1>2. CASE EditToml
  BY <1>2 DEF EditToml, BuildTypeOK
<1>3. CASE Clean
  BY <1>3 DEF Clean, BuildTypeOK
<1>4. CASE Refuse
  BY <1>4 DEF Refuse, BuildTypeOK
<1>5. CASE Invoke
  BY <1>5 DEF Invoke, BuildTypeOK
<1>6. ASSUME NEW p \in Pkgs, Spawn(p) PROVE BuildTypeOK'
  BY <1>6 DEF Spawn, BuildTypeOK
<1>7. ASSUME NEW p \in Pkgs, Drive(p) PROVE BuildTypeOK'
  <2>1. PICK outcome \in Outcomes(p) :
           cache' = [cache EXCEPT ![p] = IF Keeps(outcome)
                        THEN [verdict |-> outcome, input |-> Input(p)] ELSE Nothing]
    BY <1>7 DEF Drive
  <2>2. Keeps(outcome) => [verdict |-> outcome, input |-> Input(p)] \in Kept(p)
    BY OutcomesKept, InputType DEF Kept
  <2>3. /\ DOMAIN cache' = Pkgs
        /\ \A q \in Pkgs : cache'[q] = Nothing \/ cache'[q] \in Kept(q)
    BY <2>1, <2>2 DEF BuildTypeOK
  <2> QED BY <1>7, <2>3 DEF Drive, BuildTypeOK
<1>8. CASE Finish
  BY <1>8 DEF Finish, BuildTypeOK
<1>9. CASE UNCHANGED workspaceVars
  BY <1>9 DEF workspaceVars, BuildTypeOK
<1> QED BY <1>1, <1>2, <1>3, <1>4, <1>5, <1>6, <1>7, <1>8, <1>9 DEF WorkspaceNext

\* A process that ends concerns its own package only, whose dependents wait for
\* it and are not running.
LEMMA RunningNext ==
    BuildTypeOK /\ RunningInv /\ [WorkspaceNext]_workspaceVars => RunningInv'
<1> SUFFICES ASSUME BuildTypeOK, RunningInv, [WorkspaceNext]_workspaceVars PROVE RunningInv'
  OBVIOUS
<1>d. \A p \in Pkgs : Deps[p] \subseteq Pkgs
  BY WorkspaceAssumption
<1>r. running \subseteq Pkgs
  BY DEF BuildTypeOK
<1>1. ASSUME running' = {} PROVE RunningInv'
  BY <1>1 DEF RunningInv
<1>2. ASSUME NEW p \in Pkgs, Edit(p) PROVE running' = {}
  BY <1>2 DEF Edit, Idle, RunningInv
<1>2a. CASE Clean \/ Refuse \/ Invoke
  BY <1>1, <1>2a DEF Clean, Refuse, Invoke, Idle, RunningInv
<1>3. CASE Finish
  BY <1>1, <1>3 DEF Finish
<1>4. ASSUME UNCHANGED <<sources, cache, running, status>> PROVE RunningInv'
  BY <1>4, <1>d, <1>r, SameSources DEF RunningInv
<1>5. ASSUME NEW p \in Pkgs, Spawn(p) PROVE RunningInv'
  <2>1. \A q \in Pkgs : Fresh(q)' <=> Fresh(q)
    BY <1>5, SameSources DEF Spawn
  <2>2. running' # {} => status' = "building"
    BY <1>5 DEF Spawn
  <2>3. ASSUME NEW q \in running' PROVE ~Fresh(q)' /\ \A r \in Deps[q] : Fresh(r)'
    <3>1. q \in Pkgs /\ Deps[q] \subseteq Pkgs
      BY <1>5, <1>r, <1>d DEF Spawn
    <3>2. ~Fresh(q) /\ \A r \in Deps[q] : Fresh(r)
      BY <1>5, <2>3 DEF Spawn, RunningInv
    <3> QED BY <2>1, <3>1, <3>2
  <2> QED BY <2>2, <2>3 DEF RunningInv
<1>6. ASSUME NEW p \in Pkgs, Drive(p) PROVE RunningInv'
  <2>1. p \in running /\ running' = running \ {p} /\ UNCHANGED <<sources, status>>
    BY <1>6 DEF Drive
  <2>2. \A q \in Pkgs \ {p} : cache'[q] = cache[q]
    BY <1>6 DEF Drive, BuildTypeOK
  <2>3. \A q \in Pkgs \ {p} : Fresh(q)' <=> Fresh(q)
    BY <2>1, <2>2, SameSources
  <2>4. ASSUME NEW q \in running' PROVE ~Fresh(q)' /\ \A r \in Deps[q] : Fresh(r)'
    <3>1. q \in Pkgs \ {p} /\ ~Fresh(q) /\ \A r \in Deps[q] : Fresh(r)
      BY <1>r, <2>1, <2>4 DEF RunningInv
    <3>2. \A r \in Deps[q] : r \in Pkgs \ {p}
      BY <1>d, <2>1, <3>1 DEF RunningInv
    <3> QED BY <2>3, <3>1, <3>2
  <2> QED BY <2>1, <2>4 DEF RunningInv
<1>7. CASE EditToml
  BY <1>4, <1>7 DEF EditToml
<1>8. CASE UNCHANGED workspaceVars
  BY <1>4, <1>8 DEF workspaceVars
<1> QED BY <1>1, <1>2, <1>2a, <1>3, <1>5, <1>6, <1>7, <1>8 DEF WorkspaceNext

LEMMA UntouchedNext ==
    BuildTypeOK /\ RunningInv /\ UntouchedInv /\ [WorkspaceNext]_workspaceVars
    => UntouchedInv'
<1> SUFFICES ASSUME BuildTypeOK, RunningInv, UntouchedInv, [WorkspaceNext]_workspaceVars,
                    ~touched'
             PROVE  \A p \in Pkgs : cache'[p] # Nothing' =>
                        /\ cache'[p].input.toml = Input(p).toml'
                        /\ cache'[p].input.args = args'
                        /\ cache'[p].verdict \in Outcomes(p)'
  BY DEF UntouchedInv
<1>n. Nothing' = Nothing
  BY DEF Nothing
<1>s. ASSUME UNCHANGED <<toml, args>>, NEW p \in Pkgs
      PROVE  Input(p).toml' = Input(p).toml /\ Outcomes(p)' = Outcomes(p)
  BY <1>s DEF Input, Outcomes
<1>1. ASSUME UNCHANGED <<toml, args, cache, touched>>
      PROVE  \A p \in Pkgs : cache'[p] # Nothing' =>
                        /\ cache'[p].input.toml = Input(p).toml'
                        /\ cache'[p].input.args = args'
                        /\ cache'[p].verdict \in Outcomes(p)'
  BY <1>1, <1>n, <1>s DEF UntouchedInv
<1>2. ASSUME \A p \in Pkgs : cache'[p] = Nothing
      PROVE  \A p \in Pkgs : cache'[p] # Nothing' =>
                        /\ cache'[p].input.toml = Input(p).toml'
                        /\ cache'[p].input.args = args'
                        /\ cache'[p].verdict \in Outcomes(p)'
  BY <1>2, <1>n
<1>3. CASE EditToml
  BY <1>3 DEF EditToml
<1>4. CASE Clean
  BY <1>2, <1>4 DEF Clean
<1>5. CASE Invoke
  <2>1. ~touched /\ (args' = args \/ \A p \in Pkgs : cache[p] = Nothing)
    BY <1>5 DEF Invoke
  <2>2. UNCHANGED <<toml, cache>>
    BY <1>5 DEF Invoke
  <2>3. CASE args' = args
    BY <1>n, <1>s, <2>1, <2>2, <2>3 DEF UntouchedInv
  <2>4. CASE \A p \in Pkgs : cache[p] = Nothing
    BY <1>2, <2>2, <2>4
  <2> QED BY <2>1, <2>3, <2>4
<1>6. ASSUME NEW p \in Pkgs, Drive(p), NEW q \in Pkgs, cache'[q] # Nothing
      PROVE  /\ cache'[q].input.toml = Input(q).toml'
             /\ cache'[q].input.args = args'
             /\ cache'[q].verdict \in Outcomes(q)'
  <2>1. PICK outcome \in Outcomes(p) :
           cache' = [cache EXCEPT ![p] = IF Keeps(outcome)
                        THEN [verdict |-> outcome, input |-> Input(p)] ELSE Nothing]
    BY <1>6 DEF Drive
  <2>2. UNCHANGED <<sources, toml, args, touched>>
    BY <1>6 DEF Drive
  <2>3. CASE q = p
    <3>1. cache'[q] = [verdict |-> outcome, input |-> Input(q)]
      BY <1>6, <2>1, <2>3 DEF BuildTypeOK
    <3>2. Input(q).args = args
      BY DEF Input
    <3> QED BY <1>s, <2>1, <2>2, <2>3, <3>1, <3>2
  <2>4. CASE q # p
    <3>1. cache'[q] = cache[q]
      BY <2>1, <2>4 DEF BuildTypeOK
    <3> QED BY <1>6, <1>s, <2>2, <3>1 DEF UntouchedInv
  <2> QED BY <2>3, <2>4
<1>7. CASE Refuse \/ Finish \/ UNCHANGED workspaceVars
  BY <1>1, <1>7 DEF Refuse, Finish, workspaceVars
<1>8. ASSUME NEW p \in Pkgs, Edit(p) \/ Spawn(p)
      PROVE  UNCHANGED <<toml, args, cache, touched>>
  BY <1>8 DEF Edit, Spawn
<1> QED BY <1>n, <1>1, <1>3, <1>4, <1>5, <1>6, <1>7, <1>8 DEF WorkspaceNext

LEMMA PassedNext ==
    BuildTypeOK /\ RunningInv /\ PassedInv /\ [WorkspaceNext]_workspaceVars => PassedInv'
<1> SUFFICES ASSUME BuildTypeOK, RunningInv, PassedInv, [WorkspaceNext]_workspaceVars,
                    status' = "passed"
             PROVE  \A p \in Pkgs : Fresh(p)'
  BY DEF PassedInv
<1>1. ASSUME UNCHANGED <<sources, cache>>, \A p \in Pkgs : Fresh(p)
      PROVE  \A p \in Pkgs : Fresh(p)'
  BY <1>1, SameSources
<1>2. CASE Finish
  BY <1>1, <1>2 DEF Finish
<1>3. CASE EditToml \/ UNCHANGED workspaceVars
  BY <1>1, <1>3 DEF EditToml, workspaceVars, PassedInv
<1>4. CASE Clean \/ Refuse \/ Invoke
  BY <1>4 DEF Clean, Refuse, Invoke
<1>5. ASSUME NEW p \in Pkgs, Edit(p) \/ Spawn(p) PROVE FALSE
  BY <1>5 DEF Edit, Spawn
<1>6. ASSUME NEW p \in Pkgs, Drive(p) PROVE FALSE
  BY <1>6 DEF Drive, RunningInv
<1> QED BY <1>2, <1>3, <1>4, <1>5, <1>6 DEF WorkspaceNext

LEMMA BuildInvNext == BuildInv /\ [WorkspaceNext]_workspaceVars => BuildInv'
<1> QED BY BuildTypeNext, RunningNext, UntouchedNext, PassedNext DEF BuildInv

-----------------------------------------------------------------------------
\* After `cargo clean`, as long as the arguments and the TOML file stay as they
\* are, a build that passes has judged every crate as it is now.
THEOREM VerdictsAreCurrent == WorkspaceSpec => []PassIsCurrent
<1>1. BuildInv => PassIsCurrent
  <2> SUFFICES ASSUME BuildInv, status = "passed", ~touched, NEW p \in Pkgs
               PROVE  /\ cache[p].input = Input(p)
                      /\ cache[p].verdict \in Outcomes(p) \ {"stop", "crash"}
    BY DEF PassIsCurrent
  <2>1. cache[p] # Nothing /\ cache[p].input.sources = SourcesOf(p)
    BY DEF BuildInv, PassedInv, Fresh
  <2>2. cache[p] \in Kept(p)
    BY <2>1 DEF BuildInv, BuildTypeOK
  <2>3. /\ cache[p].input.toml = Input(p).toml
        /\ cache[p].input.args = args
        /\ cache[p].verdict \in Outcomes(p)
    BY <2>1 DEF BuildInv, UntouchedInv
  <2>4. cache[p].input = Input(p)
    <3>1. BuildTypeOK
      BY DEF BuildInv
    <3>2. cache[p].input = [sources |-> cache[p].input.sources,
                            toml |-> cache[p].input.toml, args |-> cache[p].input.args]
      BY <2>2 DEF Kept
    <3>3. Input(p) = [sources |-> SourcesOf(p), toml |-> Input(p).toml, args |-> args]
      BY DEF Input
    <3> QED BY <2>1, <2>3, <3>2, <3>3
  <2> QED BY <2>2, <2>3, <2>4 DEF Kept
<1> QED BY <1>1, BuildInvInit, BuildInvNext, PTL DEF WorkspaceSpec

\* What is kept of a crate is of a process that had what its dependencies, all
\* of which had passed, left behind.
THEOREM DependenciesBuiltFirst == WorkspaceSpec => DependenciesFirst
<1>1. BuildInv /\ [WorkspaceNext]_workspaceVars =>
        [\A p \in Pkgs : cache'[p] # cache[p] /\ cache'[p] # Nothing =>
            \A q \in Deps[p] : cache[q] # Nothing /\ cache[q].verdict \in {"ok", "trusted"}]_cache
  <2> SUFFICES ASSUME BuildInv, [WorkspaceNext]_workspaceVars, NEW p \in Pkgs,
                      cache'[p] # cache[p], cache'[p] # Nothing, NEW q \in Deps[p]
               PROVE  cache[q] # Nothing /\ cache[q].verdict \in {"ok", "trusted"}
    OBVIOUS
  <2>1. PICK r \in Pkgs : Drive(r)
    BY DEF WorkspaceNext, workspaceVars, EditToml, Clean, Refuse, Invoke, Finish, Edit, Spawn,
           BuildInv, BuildTypeOK
  <2>2. p = r
    BY <2>1 DEF Drive, BuildInv, BuildTypeOK
  <2>3. p \in running
    BY <2>1, <2>2 DEF Drive
  <2>4. q \in Pkgs
    BY WorkspaceAssumption
  <2>5. cache[q] # Nothing
    BY <2>3 DEF BuildInv, RunningInv, Fresh
  <2>6. cache[q] \in Kept(q)
    BY <2>4, <2>5 DEF BuildInv, BuildTypeOK
  <2> QED BY <2>5, <2>6 DEF Kept
<1> QED BY <1>1, BuildInvInit, BuildInvNext, PTL DEF WorkspaceSpec, DependenciesFirst
-----------------------------------------------------------------------------
(* A build ends.                                                           *)

LEMMA ClosureOfDependency ==
    ASSUME NEW p \in Pkgs, NEW q \in Deps[p]
    PROVE  /\ p \in DependencyClosure(p) /\ p \notin DependencyClosure(q)
           /\ DependencyClosure(q) \subseteq DependencyClosure(p)
<1>1. p \in DependencyClosure(p) /\ p \notin DependencyClosure(q)
  BY WorkspaceAssumption DEF DependencyClosure
<1>2. ASSUME NEW x \in DependencyClosure(q) PROVE x \in DependencyClosure(p)
  BY DEF DependencyClosure
<1> QED BY <1>1, <1>2

\* Of the packages in a set, one has no dependency in it.
LEMMA HasFirst ==
    ASSUME NEW S \in SUBSET Pkgs, S # {}
    PROVE  \E p \in S : \A q \in Deps[p] : q \notin S
<1> DEFINE T == {DependencyClosure(p) : p \in S}
<1>1. T \subseteq FiniteSubsetsOf(Pkgs) /\ T # {}
  <2>1. ASSUME NEW p \in S PROVE DependencyClosure(p) \in FiniteSubsetsOf(Pkgs)
    <3>1. DependencyClosure(p) \subseteq Pkgs
      BY DEF DependencyClosure
    <3>2. IsFiniteSet(DependencyClosure(p))
      BY <3>1, WorkspaceAssumption, FS_Subset
    <3> QED BY <3>1, <3>2 DEF FiniteSubsetsOf
  <2> QED BY <2>1
<1>2. PICK C \in T : \A D \in T : <<D, C>> \notin StrictSubsetOrdering(Pkgs)
  <2> HIDE DEF T
  <2> QED BY <1>1, FS_StrictSubsetOrderingWellFounded, WFMin
<1>3. PICK p \in S : C = DependencyClosure(p)
  OBVIOUS
<1>4. ASSUME NEW q \in Deps[p], q \in S PROVE FALSE
  <2>1. DependencyClosure(q) \in T
    BY <1>4
  <2>2. DependencyClosure(q) \subseteq C /\ C # DependencyClosure(q)
    BY <1>3, ClosureOfDependency
  <2>3. C \subseteq Pkgs /\ DependencyClosure(q) \subseteq Pkgs
    BY <1>3, <2>2 DEF DependencyClosure
  <2> QED BY <1>2, <2>1, <2>2, <2>3 DEF StrictSubsetOrdering
<1> QED BY <1>4

\* While cargo builds, a process is at work, or one can be started, or the
\* build can be ended: in no workspace, after no edits and failures, are all
\* packages waiting for each other.
NeverStuck ==
    status = "building" =>
        \/ running # {}
        \/ failed \/ \A p \in Pkgs : Fresh(p)
        \/ \E p \in Pkgs : ~Fresh(p) /\ \A q \in Deps[p] : Fresh(q)

THEOREM BuildNeverStuck == WorkspaceSpec => []NeverStuck
<1>1. NeverStuck
  <2> SUFFICES ASSUME NEW r \in Pkgs, ~Fresh(r)
               PROVE  \E p \in Pkgs : ~Fresh(p) /\ \A q \in Deps[p] : Fresh(q)
    BY DEF NeverStuck
  <2> DEFINE S == {p \in Pkgs : ~Fresh(p)}
  <2>1. PICK p \in S : \A q \in Deps[p] : q \notin S
    <3>1. S \in SUBSET Pkgs /\ S # {}
      OBVIOUS
    <3> HIDE DEF S
    <3> QED BY <3>1, HasFirst
  <2>2. Deps[p] \subseteq Pkgs
    BY WorkspaceAssumption
  <2> QED BY <2>1, <2>2
<1> QED BY <1>1, PTL

\* What a build has left to do at most: to start and to wait for a process of
\* each package waiting, unless one has failed, and to end.
Waiting == {p \in Pkgs : ~Fresh(p) /\ p \notin running}

StepsLeft ==
    IF status # "building" THEN 0
    ELSE 1 + Cardinality(running) + (IF failed THEN 0 ELSE 2 * Cardinality(Waiting))

LEMMA FinitelyMany ==
    ASSUME BuildTypeOK
    PROVE  /\ IsFiniteSet(running) /\ Cardinality(running) \in Nat
           /\ IsFiniteSet(Waiting) /\ Cardinality(Waiting) \in Nat
           /\ StepsLeft \in Nat
<1>1. running \in SUBSET Pkgs /\ Waiting \in SUBSET Pkgs /\ IsFiniteSet(Pkgs)
  BY WorkspaceAssumption DEF BuildTypeOK, Waiting
<1>2. /\ IsFiniteSet(running) /\ Cardinality(running) \in Nat
      /\ IsFiniteSet(Waiting) /\ Cardinality(Waiting) \in Nat
  BY <1>1, FS_Subset, FS_CardinalityType
<1> QED BY <1>2 DEF StepsLeft

LEMMA SpawnAdvances ==
    ASSUME BuildInv, NEW p \in Pkgs, Spawn(p) PROVE StepsLeft' < StepsLeft
<1>1. /\ status = "building" /\ status' = status /\ ~failed /\ failed' = failed
      /\ p \in Waiting /\ p \notin running /\ running' = running \cup {p}
      /\ UNCHANGED <<sources, cache>>
  BY DEF Spawn, Waiting
<1>2. Waiting' = Waiting \ {p}
  <2>1. \A q \in Pkgs : Fresh(q)' <=> Fresh(q)
    BY <1>1, SameSources
  <2> QED BY <1>1, <2>1 DEF Waiting
<1>3. /\ IsFiniteSet(running) /\ Cardinality(running) \in Nat
      /\ IsFiniteSet(Waiting) /\ Cardinality(Waiting) \in Nat
  BY FinitelyMany DEF BuildInv
<1>4. Cardinality(running') = Cardinality(running) + 1
  BY <1>1, <1>3, FS_AddElement
<1>5. Cardinality(Waiting') = Cardinality(Waiting) - 1
  BY <1>1, <1>2, <1>3, FS_RemoveElement
<1> QED BY <1>1, <1>3, <1>4, <1>5 DEF StepsLeft

LEMMA DriveAdvances ==
    ASSUME BuildInv, NEW p \in Pkgs, Drive(p) PROVE StepsLeft' < StepsLeft
<1>1. PICK outcome \in Outcomes(p) :
         /\ cache' = [cache EXCEPT ![p] = IF Keeps(outcome)
                         THEN [verdict |-> outcome, input |-> Input(p)] ELSE Nothing]
         /\ failed' = (failed \/ ~Keeps(outcome))
  BY DEF Drive
<1>2. /\ status = "building" /\ status' = status
      /\ p \in running /\ running' = running \ {p} /\ UNCHANGED sources
      /\ BuildTypeOK
  BY DEF Drive, BuildInv, RunningInv
<1>3. /\ IsFiniteSet(running) /\ Cardinality(running) \in Nat
      /\ IsFiniteSet(Waiting) /\ Cardinality(Waiting) \in Nat
  BY <1>2, FinitelyMany
<1>4. Cardinality(running') = Cardinality(running) - 1
  BY <1>2, <1>3, FS_RemoveElement
<1>5. Keeps(outcome) => Waiting' = Waiting
  <2> SUFFICES ASSUME Keeps(outcome) PROVE Waiting' = Waiting
    OBVIOUS
  <2>1. cache'[p] = [verdict |-> outcome, input |-> Input(p)]
    BY <1>1, <1>2 DEF BuildTypeOK
  <2>2. cache'[p].input.sources = SourcesOf(p) /\ cache'[p] # Nothing
    <3>1. cache'[p] \in Kept(p)
      BY <1>2, <2>1, OutcomesKept, InputType DEF Kept
    <3> QED BY <2>1, <3>1, KeptIsSomething DEF Input
  <2>3. Fresh(p)'
    BY <1>2, <2>2, SameSources DEF Fresh, Nothing
  <2>4. \A q \in Pkgs \ {p} : cache'[q] = cache[q]
    BY <1>1, <1>2 DEF BuildTypeOK
  <2>5. \A q \in Pkgs \ {p} : Fresh(q)' <=> Fresh(q)
    BY <1>2, <2>4, SameSources
  <2> QED BY <1>2, <2>3, <2>5 DEF Waiting
<1>6. CASE Keeps(outcome)
  <2>1. failed' <=> failed
    BY <1>1, <1>6
  <2> QED BY <1>2, <1>3, <1>4, <1>5, <1>6, <2>1 DEF StepsLeft
<1>7. CASE ~Keeps(outcome)
  <2>1. failed'
    BY <1>1, <1>7
  <2> QED BY <1>2, <1>3, <1>4, <2>1 DEF StepsLeft
<1> QED BY <1>6, <1>7

\* Each step of a build leaves it fewer steps, however the processes fare; an
\* edit of the TOML file in between costs none.  So each build is of finitely
\* many steps, and with NeverStuck it is over when no step is left.
BuildAdvances ==
    [][status = "building" =>
          /\ StepsLeft \in Nat
          /\ IF toml' = toml THEN StepsLeft' < StepsLeft ELSE StepsLeft' = StepsLeft]_workspaceVars

THEOREM BuildsAdvance == WorkspaceSpec => BuildAdvances
<1>1. BuildInv /\ [WorkspaceNext]_workspaceVars =>
         [status = "building" =>
             /\ StepsLeft \in Nat
             /\ IF toml' = toml THEN StepsLeft' < StepsLeft
                ELSE StepsLeft' = StepsLeft]_workspaceVars
  <2> SUFFICES ASSUME BuildInv, WorkspaceNext, status = "building"
               PROVE  IF toml' = toml THEN StepsLeft' < StepsLeft ELSE StepsLeft' = StepsLeft
    BY FinitelyMany DEF BuildInv
  <2>1. CASE EditToml
    <3>1. UNCHANGED <<sources, cache, running, failed, status>> /\ toml' # toml
      BY <2>1 DEF EditToml
    <3>2. \A p \in Pkgs : Fresh(p)' <=> Fresh(p)
      BY <3>1, SameSources
    <3>3. Waiting' = Waiting
      BY <3>1, <3>2 DEF Waiting
    <3> QED BY <3>1, <3>3 DEF StepsLeft
  <2>2. CASE Finish
    <3>1. StepsLeft' = 0 /\ toml' = toml
      BY <2>2 DEF Finish, StepsLeft
    <3>2. StepsLeft \in Nat /\ StepsLeft > 0
      BY FinitelyMany DEF BuildInv, StepsLeft
    <3> QED BY <3>1, <3>2
  <2>3. CASE Clean \/ Refuse \/ Invoke
    BY <2>3 DEF Clean, Refuse, Invoke, Idle
  <2>4. ASSUME NEW p \in Pkgs, Edit(p) PROVE FALSE
    BY <2>4 DEF Edit, Idle
  <2>5. ASSUME NEW p \in Pkgs, Spawn(p) PROVE toml' = toml /\ StepsLeft' < StepsLeft
    BY <2>5, SpawnAdvances DEF Spawn
  <2>6. ASSUME NEW p \in Pkgs, Drive(p) PROVE toml' = toml /\ StepsLeft' < StepsLeft
    BY <2>6, DriveAdvances DEF Drive
  <2> QED BY <2>1, <2>2, <2>3, <2>4, <2>5, <2>6 DEF WorkspaceNext
<1> QED BY <1>1, BuildInvInit, BuildInvNext, PTL DEF WorkspaceSpec, BuildAdvances
=============================================================================
