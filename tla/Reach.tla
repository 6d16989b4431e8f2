------------------------------- MODULE Reach -------------------------------
(***************************************************************************)
(* Reachability analysis of one crate: reachability/reach.rs, from the     *)
(* entry points of Crate.tla to the sorted list the checks run on.         *)
(*                                                                         *)
(* The worklist is followed call terminator by call terminator.  A span is *)
(* the call site <<f, i>> it belongs to, a Vec<Span> the sequence of those *)
(* pushed; a HashMap without an entry for g has the empty Vec for it.      *)
(***************************************************************************)
EXTENDS Crate

VARIABLES
    crate,              \* the crate under analysis
    pc,                 \* where locally_reachable_from is
    to_visit,           \* VecDeque of items, calls_to still empty
    d,                  \* the item popped last
    pos,                \* terminators of its body already visited
    calls_to,           \* its calls_to, while its body is visited
    locally_reachable,  \* HashMap from visited items to how they are reached
    all_reachable,      \* HashMap from functions of other crates to calls
    order               \* the sorted result

vars == <<crate, pc, to_visit, d, pos, calls_to,
          locally_reachable, all_reachable, order>>

NoItem  == [reach |-> -1, through |-> << >>]
NoCalls == [g \in Fns |-> << >>]

\* LocallyReachable without calls_to, and the entry of a visited item.
Item    == [reach : Local, through : Seq(Local \X Nat)]
Visited == [through : Seq(Local \X Nat), calls_to : [Fns -> Seq(Nat)]]

\* Variants: the span is a dummy; the new item, not the caller, is put on the
\* path; the caller is queued again.
ExtendedNoSpan(item, g, i) ==
    [reach |-> g, through |-> Append(item.through, <<item.reach, -1>>)]
ExtendedBySelf(item, g, i) ==
    [reach |-> g, through |-> Append(item.through, <<g, i>>)]
ExtendedToCaller(item, g, i) ==
    [reach |-> item.reach, through |-> Append(item.through, <<item.reach, i>>)]

\* extended_to
ExtendedTo(item, g, i) ==
    [reach |-> g, through |-> Append(item.through, <<item.reach, i>>)]

\* Variant: the last terminator is not visited.
BodyButLast == SubSeq(crate.body[d.reach], 1, Len(crate.body[d.reach]) - 1)

Body == crate.body[d.reach]

Init ==
    /\ crate \in Crates
    /\ pc = "entry"
    /\ to_visit = << >>
    /\ d = NoItem
    /\ pos = 0
    /\ calls_to = NoCalls
    /\ locally_reachable = << >>
    /\ all_reachable = [g \in Extern |-> << >>]
    /\ order = << >>

-----------------------------------------------------------------------------
\* analysis_entry_points or the debug block after it panics.
EntryPanic ==
    /\ pc = "entry"
    /\ EntryPanics(crate)
    /\ pc' = "panicked"
    /\ UNCHANGED <<crate, to_visit, d, pos, calls_to,
                   locally_reachable, all_reachable, order>>

\* CallGraphVisitor::new
New ==
    /\ pc = "entry"
    /\ ~EntryPanics(crate)
    /\ \E entry \in AnalysisEntryPoints(crate) :
          to_visit' = [k \in DOMAIN entry |->
                          [reach |-> entry[k], through |-> << >>]]
    /\ pc' = "loop"
    /\ UNCHANGED <<crate, d, pos, calls_to,
                   locally_reachable, all_reachable, order>>

\* Variants: the item popped, and what is left of the queue.
PopOf(k, rest) ==
    pc = "loop" /\ to_visit # << >> /\ d' = to_visit[k] /\ to_visit' = rest

PopBack  == PopOf(Len(to_visit), SubSeq(to_visit, 1, Len(to_visit) - 1))
PopTwice == PopOf(1, SubSeq(to_visit, 3, Len(to_visit)))
Peek     == PopOf(1, to_visit)

\* pop_front
Pop ==
    /\ pc = "loop"
    /\ to_visit # << >>
    /\ d' = Head(to_visit)
    /\ to_visit' = Tail(to_visit)

\* The popped item is in the map already, or has no typeck results.
Skip ==
    /\ Pop
    /\ \/ d'.reach \in DOMAIN locally_reachable
       \/ ~HasTypeck(crate, d'.reach)
    /\ UNCHANGED <<crate, pc, pos, calls_to,
                   locally_reachable, all_reachable, order>>

\* Variant: an item that is in the map is visited again.
VisitUnguarded ==
    /\ Pop
    /\ HasTypeck(crate, d'.reach)
    /\ pc' = "body"
    /\ pos' = 0
    /\ calls_to' = NoCalls
    /\ UNCHANGED <<crate, locally_reachable, all_reachable, order>>

\* The visit of a new item's body begins.
Visit ==
    /\ Pop
    /\ d'.reach \notin DOMAIN locally_reachable
    /\ HasTypeck(crate, d'.reach)
    /\ pc' = "body"
    /\ pos' = 0
    /\ calls_to' = NoCalls
    /\ UNCHANGED <<crate, locally_reachable, all_reachable, order>>

\* visit_terminator on a call: record it if the callee is a function
\* definition, then queue a local callee or count a foreign one.
VisitTerminator ==
    /\ pc = "body"
    /\ pos < Len(Body)
    /\ pos' = pos + 1
    /\ LET g == Body[pos'] IN
          /\ calls_to' = IF g \in Fns
                            THEN [calls_to EXCEPT ![g] = Append(@, pos')]
                            ELSE calls_to
          /\ to_visit' = IF g \in Local
                            THEN Append(to_visit, ExtendedTo(d, g, pos'))
                            ELSE to_visit
          /\ all_reachable' =
                IF g \in Extern
                   THEN [all_reachable EXCEPT ![g] = Append(@, <<d.reach, pos'>>)]
                   ELSE all_reachable
    /\ UNCHANGED <<crate, pc, d, locally_reachable, order>>

\* self.locally_reachable.insert(d.reach, d)
Insert ==
    /\ pc = "body"
    /\ pos = Len(Body)
    /\ locally_reachable' =
          [f \in DOMAIN locally_reachable \cup {d.reach} |->
              IF f = d.reach
                 THEN [through |-> d.through, calls_to |-> calls_to]
                 ELSE locally_reachable[f]]
    /\ pc' = "loop"
    /\ UNCHANGED <<crate, to_visit, d, pos, calls_to, all_reachable, order>>

\* Variant: no sort.
Unsorted(s) == TRUE

\* sort_by def_path_str
Sorted(s) == \A i, j \in DOMAIN s : i < j => Path[s[i]] <= Path[s[j]]

\* The values of the HashMap come in any order; the sort is stable.
SortByPath ==
    /\ pc = "loop"
    /\ to_visit = << >>
    /\ order' \in Orderings(DOMAIN locally_reachable)
    /\ Sorted(order')
    /\ pc' = "done"
    /\ UNCHANGED <<crate, to_visit, d, pos, calls_to,
                   locally_reachable, all_reachable>>

Next == EntryPanic \/ New \/ Skip \/ Visit \/ VisitTerminator \/ Insert
          \/ SortByPath

\* The analysis is one sequential computation: it keeps taking steps while it
\* has one to take.
Spec == Init /\ [][Next]_vars /\ WF_vars(Next)
-----------------------------------------------------------------------------
TypeOK ==
    /\ crate \in Crates
    /\ pc \in {"entry", "loop", "body", "done", "panicked"}
    /\ to_visit \in Seq(Item)
    /\ d \in Item \cup {NoItem}
    /\ pc = "body" => d \in Item
    /\ pos \in Nat
    /\ calls_to \in [Fns -> Seq(Nat)]
    /\ DOMAIN locally_reachable \subseteq Local
    /\ locally_reachable \in [DOMAIN locally_reachable -> Visited]
    /\ all_reachable \in [Extern -> Seq(Local \X Nat)]
    /\ order \in Seq(Local)

\* No work is lost: every entry point, and every local callee met so far, has
\* been visited, is being visited, is still queued, or has no body.
Accounted(f) ==
    \/ f \in DOMAIN locally_reachable
    \/ pc = "body" /\ f = d.reach
    \/ \E k \in DOMAIN to_visit : to_visit[k].reach = f
    \/ ~HasTypeck(crate, f)

\* The body positions of f the visitor has passed.
Passed(f) ==
    IF f \in DOMAIN locally_reachable THEN DOMAIN crate.body[f]
    ELSE IF pc = "body" /\ f = d.reach THEN 1 .. pos
    ELSE {}

\* The worklist loses nothing (reach.rs:107-139): between any two steps each
\* entry point and each local callee already met is accounted for.
NothingLost ==
    pc \in {"loop", "body", "done"} =>
        /\ \A f \in EntryPoints(crate) : Accounted(f)
        /\ \A f \in Local : \A i \in Passed(f) :
              crate.body[f][i] \in Local => Accounted(crate.body[f][i])

\* Nothing is invented either: all that is held is reachable, what is visited
\* has a body, and the item whose body is being visited is new.
WithinReach ==
    /\ DOMAIN locally_reachable \subseteq Analyzed(crate)
    /\ \A k \in DOMAIN to_visit : to_visit[k].reach \in Reachable(crate)
    /\ pc = "body" => /\ d.reach \in Analyzed(crate) \ DOMAIN locally_reachable
                      /\ pos <= Len(Body)

\* The worklist is used by the loop only.
IdleOutsideLoop ==
    /\ pc \notin {"loop", "body"} => to_visit = << >>
    /\ pc \in {"entry", "panicked"} => locally_reachable = << >> /\ d = NoItem

\* The loop invariant of the search (reach.rs:107-139): at every step what is
\* visited, queued or in hand is reachable, and together it accounts for every
\* entry point and for every call the visitor has passed.
SearchInv == NothingLost /\ WithinReach /\ IdleOutsideLoop

\* When the analysis returns it has visited exactly the functions with a body
\* that a chain of local calls reaches from an entry point: "all locally
\* reachable function definitions from the given `entry_points`" (reach.rs:42).
VisitedExactly ==
    pc = "done" => DOMAIN locally_reachable = Analyzed(crate)

\* What the error message prints as `reachable from [...]` is a chain of calls
\* the crate really makes, from an entry point to the function.
ThroughIsCallPath ==
    \A f \in DOMAIN locally_reachable :
        IsCallPath(crate, locally_reachable[f].through, f)

Depth(item) == Len(item.through)

\* g has been reached by at most n calls, or is queued to be.
ReachedWithin(g, n) ==
    \/ g \in DOMAIN locally_reachable /\ Depth(locally_reachable[g]) <= n
    \/ pc = "body" /\ g = d.reach /\ Depth(d) <= n
    \/ \E k \in DOMAIN to_visit : to_visit[k].reach = g /\ Depth(to_visit[k]) <= n
    \/ ~HasTypeck(crate, g)

\* Every chain the worklist holds is a chain of real calls.
PathInv ==
    /\ \A k \in DOMAIN to_visit :
          IsCallPath(crate, to_visit[k].through, to_visit[k].reach)
    /\ pc = "body" => IsCallPath(crate, d.through, d.reach)
    /\ ThroughIsCallPath

\* The queue holds items of the depth popped last, then items one call deeper;
\* what is visited is no deeper; and each callee met is within one call more
\* than its caller.
DepthInv ==
    /\ \A j, k \in DOMAIN to_visit : j < k => Depth(to_visit[j]) <= Depth(to_visit[k])
    /\ \A k \in DOMAIN to_visit :
          Depth(d) <= Depth(to_visit[k]) /\ Depth(to_visit[k]) <= Depth(d) + 1
    /\ \A f \in DOMAIN locally_reachable : Depth(locally_reachable[f]) <= Depth(d)
    /\ pc \in {"loop", "body", "done"} =>
          \A f \in EntryPoints(crate) : ReachedWithin(f, 0)
    /\ \A f \in DOMAIN locally_reachable : \A i \in DOMAIN crate.body[f] :
          crate.body[f][i] \in Local =>
              ReachedWithin(crate.body[f][i], Depth(locally_reachable[f]) + 1)
    /\ pc = "body" => \A i \in 1 .. pos :
          Body[i] \in Local => ReachedWithin(Body[i], Depth(d) + 1)

\* "BFS to get the shortest path to each item" (reach.rs:85,162): no chain of
\* calls from any entry point is shorter than the one recorded.
ShortestThrough ==
    \A f \in DOMAIN locally_reachable :
        \A n \in 0 .. Len(locally_reachable[f].through) - 1 :
            \A p \in [1 .. n -> Calls(crate)] : ~IsCallPath(crate, p, f)

\* The elements of a Vec.
Elements(vec) == {vec[k] : k \in DOMAIN vec}

\* vec has every element of S once, and nothing else.
HasOnce(vec, S) ==
    /\ Elements(vec) = S
    /\ \A j, k \in DOMAIN vec : vec[j] = vec[k] => j = k

Ascending(vec) == \A j, k \in DOMAIN vec : j < k => vec[j] < vec[k]

\* At every step the calls_to of a function has each call site passed so far
\* under its callee, in body order, and all_reachable has each of those that
\* leave the crate, over all the functions visited, once: a function queued
\* several times has its calls counted once (reach.rs:38,115,167-170).
CallSitesExact ==
    /\ \A f \in DOMAIN locally_reachable, g \in Fns :
          LET vec == locally_reachable[f].calls_to[g]
          IN Ascending(vec) /\ Elements(vec) = {i \in DOMAIN crate.body[f] : crate.body[f][i] = g}
    /\ pc = "body" => \A g \in Fns :
          Ascending(calls_to[g]) /\ Elements(calls_to[g]) = {i \in 1 .. pos : Body[i] = g}
    /\ \A g \in Extern :
          HasOnce(all_reachable[g],
                  {call \in Calls(crate) :
                      call[2] \in Passed(call[1]) /\ Callee(crate, call) = g})

\* How a function was first reached is never overwritten by a longer way to it
\* found later in the queue.
FirstPathKept ==
    [][\A f \in DOMAIN locally_reachable :
          /\ f \in DOMAIN locally_reachable'
          /\ locally_reachable'[f] = locally_reachable[f]]_vars

\* The worklist empties on every crate, recursive ones included: the analysis
\* returns or has panicked before it began.
Terminates == <>(pc \in {"done", "panicked"})

\* Every function the annotations ask for is analyzed: in a workspace crate the
\* annotated ones, under a crate attribute the public or all of them; in a
\* dependency the public ones, whatever it is annotated with (entry.rs:14-42).
Requested(f) ==
    /\ crate.kind[f] = "fn"
    /\ \/ f \in crate.pub /\ (crate.is_dependency \/ HasGlobal(crate, "check_unsafe_pub"))
       \/ ~crate.is_dependency
             /\ (IsDirectlyAnnotated(crate, f) \/ HasGlobal(crate, "check_unsafe"))

RequestedAnalyzed ==
    pc = "done" => \A f \in Local : Requested(f) => f \in DOMAIN locally_reachable

\* Attributes found in somebody else's crate never bring the compilation down:
\* only the annotations of the workspace itself can panic the analysis.
DependencyNeverPanics == pc = "panicked" => ~crate.is_dependency

-----------------------------------------------------------------------------
\* The caller an item was queued by.
Caller(item) == item.through[Len(item.through)][1]

\* An item is queued by a function that is in the map by the time it is popped;
\* the loop runs only if the entry points could be found.
OriginInv ==
    /\ pc \in {"loop", "body", "done"} => ~EntryPanics(crate)
    /\ \A k \in DOMAIN to_visit :
          to_visit[k].through # << >> =>
              \/ Caller(to_visit[k]) \in DOMAIN locally_reachable
              \/ pc = "body" /\ Caller(to_visit[k]) = d.reach
    /\ pc = "body" /\ d.through # << >> => Caller(d) \in DOMAIN locally_reachable

\* The worklist implements the abstract search: an item is found when it is
\* inserted in the map.
Abs == INSTANCE ReachAbs WITH
          found  <- DOMAIN locally_reachable,
          status <- IF pc \in {"done", "panicked"} THEN pc ELSE "running"

\* Each step of the worklist is a step of the abstract search or leaves it
\* unchanged, and the search makes progress (reach.rs:107-139).
ImplementsSearch == Abs!Spec
=============================================================================
