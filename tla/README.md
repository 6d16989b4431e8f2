# sniff-test in TLA+

sniff-test is a cargo plugin that checks how a Rust crate documents and uses
its unsafe functions.  Run as the compiler of every crate, it takes the call
graph from rustc, finds the functions reachable from annotated entry points,
trusts those whose doc comment states obligations (`# Safety`), and demands of
all others a `SAFETY:` comment on every raw pointer dereference and on every
call of a function with obligations.

This directory holds TLA+ modules of it, from the lines of a doc comment to
the build of a workspace; the TLC runs that check them on small crates; and
TLAPS proofs, for crates, annotations, comments and workspaces of any size, of
every safety property the runs check and that hold: of the reachability
analysis and its repetition, the search for the comment that justifies a call,
the check from the text to its report, the spans, the driver's verdict and what
cargo keeps of it.  Source paths below are relative to
`src/crates/sniff-test/src`.

## The system

| part | state | operations | talks to |
|---|---|---|---|
| attributes (`reachability/attrs.rs`) | none | parse `sniff_tool::` attributes of an item or of the crate | entry points |
| entry points (`reachability/entry.rs`) | a HashSet while it is collected | collect annotated, public or all functions | attributes; its result starts the worklist |
| reachability (`reachability/reach.rs`) | queue, visited map, map of foreign callees, calls of the item in hand | pop, skip, visit a body, queue a callee, insert, sort | reads MIR; its list is what the check iterates over |
| obligations of calls (`reachability/calls.rs`) | none | which callees of a function have obligations | annotations |
| definition annotations (`annotations/mod.rs`, `new_parsing.rs`, `doc.rs`) | none; reads the global arguments | doc string or override, marker, section, bullets, obligation | TOML overrides; panics of the parser |
| TOML overrides (`annotations/toml.rs`) | map from printed paths to doc strings | read the file once per crate | replaces doc comments |
| call-site annotations (`annotations/mod.rs`, `check/expr.rs`) | the last match of the visitor; the node the climb is at | find the HIR expression of a call, climb to a comment, compare conditions | crate check; the HIR |
| properties (`properties/*.rs`) | found axioms | find dereferences, the `unsafe` keyword check | crate check; the HIR |
| crate check (`check/mod.rs`) | counters, functions to check, errors | two loops over the reachable functions | all of the above; its errors are reported |
| comment spans (`annotations/span.rs`) | spans collected and merged | doc string offsets to byte positions | the spans of annotations and conditions |
| report (`check/err.rs`) | none | one diagnostic per error | rustc's diagnostics |
| driver (`lib.rs`, `bin/sniff-test-driver.rs`) | global `ARGS` | guess what a dependency is, take a posture, check, stop rustc or go on | rustc around it |
| cargo plugin (`lib.rs`, `bin/cargo-sniff-test.rs`) | none of its own; cargo's fingerprints | make the driver cargo's compiler | cargo, which runs one driver process per crate, in parallel |
| dead code (`annotations/parsing.rs`, `obligation.rs`, `utils/err.rs`) | | | nothing |

A driver process is one sequential computation; what makes it hard is not
threads but orders nobody chose (HashMap and HashSet iteration), a worklist in
which a function waits several times, early returns that drop part of a result,
panics that take the compilation down, a call found again by its span, offsets
that count characters of one string and bytes of another, and three arguments
that change what the same annotation means.  Around the processes, cargo runs
several at once and none for a crate it takes to be fresh, while their inputs
may be edited.

What makes each part correct:

- entry points: everything the annotations ask for is analyzed, and a
  dependency's own attributes cannot harm the build;
- reachability: exactly the reachable functions, each with a shortest chain of
  real calls and all of its call sites, the same each time;
- annotations: the same text means the same at each place it is parsed, and
  the stricter mode is stricter;
- call sites: the nearest comment around a call or dereference decides, no
  neighbour's, and it is known which conditions it can consider;
- crate check: the report names exactly the functions with something wrong,
  whatever the order; a broken override file counts for nothing; the counters count what they say; a crash has a cause the
  author can find;
- spans: the bytes of the characters asked for and no others;
- report and driver: rustc is stopped exactly when something is wrong, and what
  is printed is true;
- workspace: a build that passes has judged what is there now.

## Modules

| module | models |
|---|---|
| `Crate` | one type-checked crate, its attributes and entry points, and its call graph with `Reachable`, `Analyzed` and `IsCallPath`, the reference definitions |
| `Reach` | the worklist of `reach.rs`, one action per step of its loop |
| `ReachAbs` | what the worklist promises: a search that finds functions one at a time, in any order, and stops when none is left |
| `Twice` | the same crate analyzed twice |
| `Annotations` | doc strings, overrides, conditions and obligations |
| `Check` | `check_crate_for_property`: TOML file, reachability (the actions of `Reach`), the two loops, the verdict |
| `Hir` | a body as a tree of HIR nodes with comments on them; which calls and dereferences it has (closures differ), buzzwords, and what the visitor and the climb come to (`FoundExpr`, `CommentFor`) |
| `Callsite` | one justification step by step: `SpanExprFinder`, the climb of `parse_expr`, `satisfies_obligation`; `JustifyCall` and `JustifyAxiom` are the two ways in |
| `Placed` | `Check` composed with `Hir`: the calls, sites and axioms of the crate are those of its bodies |
| `Spans` | `span_some_comments`, `merge_adjacent`, and `src_span` on the ranges of annotations and conditions |
| `Driver` | one driver process: `is_dependency`, the postures, `Check`, `report_error`, the verdict |
| `Workspace` | cargo (external) building a workspace with a driver process per crate, and a user who edits, cleans and builds again |
| `ReachProofs`, `HirProofs`, `CallsiteProofs`, `CheckProofs`, `PlacedProofs`, `SpanProofs`, `DriverProofs`, `WorkspaceProofs` | theorems, with proofs |
| `MCReach`, `MCTwice`, `MCCheck`, `MCCallsite`, `MCPlaced`, `MCSpans`, `MCDriver`, `MCWorkspace` | the instances the runs enumerate |

`Check` and `Twice` extend `Reach`, `Driver` and `Placed` extend `Check`: their
states hold the variables of what they extend and one of their actions is a
step of it.  `Callsite` is to `Hir` what a program is to its specification:
its invariant `Implements` says that the steps come to the definitions
`Placed` gives to `Check`.  In `Workspace` a driver process is one step with
the outcomes `Driver` leaves open.  Variables and operators carry the names of
the code where it has names for them (`to_visit`, `locally_reachable`,
`calls_to`, `through`, `final_spans`, `line_start_char_no`, ...).

What is abstracted:

- MIR is the sequence of callees of the Call terminators of each body; a span
  is the call site `<<f, i>>` it belongs to, and in `Hir` a number several
  nodes may share.  A Vec of spans is the sequence of those pushed, so a call
  recorded twice is there twice.
- A doc string is a sequence of lines, each of one of the kinds the regular
  expressions tell apart.  A bullet has its colon, if any, on its first line;
  of the lines up to the next bullet it matters whether one is not blank, as a
  name without a description is an error.  Whether the range given to a bullet
  has a character of the doc comment is an input (`spanned`).  `Spans` keeps
  where the lines lie in the file.
- `Check` and `Driver` take as inputs whether a call is found in the HIR,
  whether a comment is found for it and what that considers (`Site`), and so
  the dereferences (`axioms`): any combination.  `Placed` derives them from
  bodies.
- The text of a comment is its set of words; `Lower` and `Substr` are the
  lower-casing of a word and the relation between words and their parts.
- A diagnostic is the function it is about, the chain and the counts.  The
  `expect` on the colon in a printed span (`check/err.rs:99`) is left out: rustc
  prints every span with one.
- HashMap and HashSet iteration is a choice of any order.
- A panic is the stage `"crashed"` (in `Reach`, `pc = "panicked"`): it ends the
  compilation and nothing collected so far is reported.

Operators under a comment that begins with "Variant" are wrong on purpose:
each is a plausible bug in the definition after it, and stands for it when the
checks are tested for their power to notice.

## Runs

| run | instances | shows |
|---|---|---|
| `reach` | 3 functions with up to 2 calls each, another crate's among them; 4 functions in cycles with 1 or 2 entry points; 2 items of each kind, visibility and annotation under up to 2 crate attributes, in the workspace or not | `TypeOK`, `SearchInv`, `VisitedExactly`, `CallSitesExact`, `PathInv`, `DepthInv`, `ShortestThrough`, `RequestedAnalyzed`, `DependencyNeverPanics`, `FirstPathKept`, `Terminates`; the worklist implements `ReachAbs` (`ImplementsSearch`) |
| `twice_same` | 3 functions, up to 2 calls each, every set of entry points, two functions printing the same path | `SameAnalysis` |
| `check` | up to 3 calls of 2 functions with or without a comment for some conditions; good and bad annotations, conditions whose range is empty, good and bad TOML files, under all arguments; calls that cannot be placed; an implementation of a local or foreign trait function, with overrides | `CheckTypeOK`, `ReportExact`, `BrokenFileIsNoFile`, `ErrorsListBadCalls`, `StatsExact`, `CrashHasCause`, `FinePassIsCoarsePass`, `PassIsFinal`, `Concludes` |
| `callsite` | every body of an owner and 3 nodes in 4 patterns of equal spans, comments on any of them; comments of any of 10 words against conditions of one and two words | `CallsiteTypeOK`, `Implements`, `OwnComment`, `NamedInLowerCase`, `Answered` |
| `placed_text` | 2 functions; a body with a block or closure and two calls or a dereference in it, 3 comments at each, 3 ways to document the callees | `PassIsJustified` |
| `spans_lines` | every range of up to 3 lines of at most 2 characters, or 4 lines, indented or not, one perhaps a block comment; two bullets after up to 6 lines | `SpanTypeOK`, `SpansExact`, `SpansMerged` |
| `driver` | members beside and below the root, excluded and registry packages, the postures; 2 functions that call each other and a foreign one, 3 functions along chains of different lengths | `DriverTypeOK`, `VerdictExact`, `MessagesTrue`, `GuessedCratesChecked`, `DriverEnds` |
| `workspace_current` | 2 members and a registry package, 2 versions of each source and of the TOML file, 3 postures | `PassIsCurrent`, `DependenciesFirst`, `BuildEnds`; no deadlock |

Why these are enough: two functions suffice for recursion, three for a function
reached along different ways and for a trait with an implementation and a
caller, four for the graphs where a depth-first worklist finds a longer chain.
Bodies of up to three calls have all that matters at a call: the same callee
twice, others in between, a call through a pointer, into another crate, or of
a function without a body.  Two conditions are what a comment can
half-consider.  Three nodes below an owner are a call in a commented node in
another one, with a neighbour.  Each line of a doc comment is treated by
itself, up to where the one before it ended; lines of no, one or two characters
have every case of the arithmetic.  Two dependencies of one crate are what runs
in parallel, and a dependency chain of length one is what makes a crate stale;
the theorems have any graph.

No counter is bounded artificially: queues, counters and spans are bounded by
the instances.  Deadlock is checked in `workspace_current`, where a build that
hangs would be one; the others end, and each liveness property says that they
end where they should.

`MessagesTrue` is about the messages for missing comments (`Basic`), which have
a chain and counts; two of the others name the wrong thing, as listed below.
`GuessedCratesChecked` and `Workspace` take the guess of `is_dependency` as
right; where it is wrong is in the list too.

`spans_lines` leaves out doc comments with a blank line or a block comment
before the range.  The first are those of `spans_blanks`; for the second see
the list below.

Four runs end in a counterexample, each to a sentence of the repository:

- `check_same_names`, `SameNamesConsistent`: "only the name is important"
  (`annotations/mod.rs:185`).  `Obligation` compares `Spanned<Condition>`,
  spans included, so in fine-grained mode a trait and its implementation never
  agree unless both come from the TOML file.
- `callsite_trait`, `DefinitionJustifiesNothing`: "This shouldn't be allowed,
  but a buggy implementation could feasibly accidentally allow it"
  (`tests/unsafe/placement/call_block_def.rs:4`), of a comment on a definition.
  The climb stops at items and impl items, and not at a default method of a
  trait.
- `placed_closures`, `ClosuresChecked`: "all local functions in the crate are
  properly annotated" (`check/mod.rs:22`).  The body of a closure is checked
  for dereferences, which are searched in the HIR, and not for calls, which are
  read from the MIR.
- `spans_blanks`, `SpansExact`: "the set of spans relevant for a certain range"
  (`annotations/span.rs:14`).  A blank `///` line before the range adds a span
  of its slashes.

Other places where the source and its comments part, met while modelling.  The
model follows the code in all of them; no run is given to them:

- functions nested in different blocks of one function print the same path and
  stay in HashMap order after the sort that makes the order "deterministic"
  (`reach.rs:73`), and which of two shortest chains is printed depends on the
  HashSet (`entry.rs:40`): `SameAnalysis` claims paths and depths only;
- the file in the documentation of `annotations/toml.rs:7` has condition names of two
  words, which the parser refuses, with a panic in fine-grained mode;
- the words of a comment are lower-cased (`annotations/mod.rs:124`) and the
  names of conditions are not: a condition `Alignment` is reported as missed
  under a comment that says `Alignment`, and the capitalised entries of the
  synonym table (`annotations/mod.rs:142`) never match.  `NamedInLowerCase`
  says which conditions a comment can consider and which none can;
- the repetitions of a macro give several calls one span, the last one found
  stands for all (`check/expr.rs:34`): `OwnComment` and `PassIsJustified` are
  about bodies whose calls have spans of their own;
- the closing `*/` of a block comment before the range (`span.rs:12`) is not
  cut off and becomes a span;
- the offsets of a condition count from the end of its section's header, and
  are used as if they counted from the start of the comment
  (`annotations/new_parsing.rs:112`): the span is one of other text, or, where
  that range has no character of a line, none, and the unwrap at
  `annotations/mod.rs:52` panics, in the coarse mode and for the callees in
  other crates too.  It is one of the causes in `CrashHasCause`;
- `is_dependency` looks at argument four (`lib.rs:208-221`): a member beside the
  root is taken for a dependency; an excluded path dependency, and a package of
  an edition cargo does not pass, for a member.  `GuessedCratesChecked` is about
  the others;
- `Find` is `todo!()` (`lib.rs:257`);
- the message of `CallMissedObligations` names the caller where its text says
  the callee (`check/err.rs:54`), and that of `Trait` has the trait and the
  property swapped (`check/err.rs:66`);
- the arguments and the TOML file are in no fingerprint (`lib.rs:154`): a
  build under `Verify` after one under `Trust` passes with the old verdict
  unless `cargo clean` runs first.  `PassIsCurrent` has that as its condition;
- the README's command line has no `--dependencies`, which has no default
  (`lib.rs:57`): clap refuses it (`Refuse` in `Workspace`).

## Fairness

`Reach`, `Check`, `Callsite` and `Driver` have weak fairness on their whole
next-state relation.  The code is a sequential program without waiting: it
takes its next step whenever there is one.  No fairness is assumed of a choice
among orders.  `Workspace` has weak fairness on `Finish` and on `Spawn(p)` and
`Drive(p)` of each package: cargo starts what it can start, and a driver
process ends (`DriverEnds`).  The user's actions have none: the TOML file may
be edited for ever, and nobody need build again.  `Spans`, `Placed` and `Twice`
are for safety and have none.

## Proofs

Everything is proved under the named assumptions of the modules: a crate has
finitely many local definitions, with bodies only where rustc has them
(`CrateAssumption`); notes have their types (`NotesAssumption`); lower-casing
maps words to words and a word contains itself (`HirAssumption`), what is in
lower case stays as it is and has only lower-case parts, and the capitalised
words of the synonym table are such (`LowerAssumption`); bodies are
trees in the order of a walk, with any nodes (`CallsiteAssumption`); a source
has one body per local function, with the calls and comments its crate has
(`PlacedAssumption`); doc attributes follow each other, each on lines of its
own behind at least the three bytes of `///` or `/**`, and a range has a
character (`SpanAssumption`); the invocations are of the listed origins and
postures (`DriverAssumption`); a workspace is finite and its dependencies have
no cycle (`WorkspaceAssumption`).

`ReachProofs`, of every step of `Reach`:

- `TypeCorrect`, the type invariant;
- `SearchInvariant`: `SearchInv` is inductive together with the types.  Each
  entry point and each local callee of what is visited, or of the part of the
  current body already passed, is visited, in hand, queued or without a body
  (`NothingLost`); all that is held is reachable (`WithinReach`).  The first
  half is needed for the end: with an empty queue it says that the visited set
  is closed under calls;
- `VisitedExactlyReachable`: at the end the visited functions are exactly
  `Analyzed`.  `Reachable` is the least closed set; `NothingLost` makes the
  visited functions, with the bodyless ones, a closed set, and `WithinReach`
  gives the other inclusion;
- `PathsAreReal` and `BreadthFirst`: `PathInv` and `DepthInv` are inductive.
  The queue is sorted by depth and spans at most two levels, because callees
  are appended while their caller is in hand;
- `ShortestPaths`: by induction on the length of a chain (`NoShorterPath`,
  with `LeastNat` for the least counterexample), `DepthInv` puts the function
  at its end within that depth;
- `CallSitesRecorded` and `EntriesAreFinal`: with `OriginInv` and the guard of
  `Visit`, a body is visited once, so the spans pushed for a callee are in
  body order (`AscendingAppend`), and a call that leaves the crate, which has not
  been passed before, is pushed onto the list of all functions for the first
  time (`OnceAppend`);
- `AllRequestedAnalyzed`: the entry points the annotations ask for are those
  found, and by `VisitedExactlyReachable` they are analyzed;
  `DependenciesNeverPanic`: none of the causes of a panic there applies to a
  dependency;
- `ImplementsSearchSafety`: under the refinement mapping `found <- DOMAIN
  locally_reachable` each step is a step of `ReachAbs` or stutters.  That a
  popped function is discoverable needs its caller in the map (`OriginInv`);
- `AnalysesAgree`, of `Twice`: at the end of each analysis (`WorklistInv`), and
  of what is kept of the first (`FirstInv`), the functions, their depths and
  their call sites are those the crate determines (`Returned`), whatever order
  the entry points came in: two ascending Vecs with the same elements are equal
  (`AscendingAgree`), and two that have the same elements once are as long as each
  other (`OnceNoLonger`).  Two lists sorted by path, of the same functions,
  have the same path at each place (`SortedAgree`): were the path at a place smaller in one
  list, all its functions up to that place would be among the fewer before it
  in the other, against the pigeonhole principle.

`CheckProofs`, of every step of `Check`:

- `ReportCorrect`: `ReportExact` follows from `ReachInv /\ CheckInv`.  A step
  of the check is a step of the worklist or leaves it alone
  (`CheckStepIsReachStep`), so the invariants above hold during the check, with
  `OrderInv`: the sorted list has exactly the visited functions.  `CheckInv`
  relates the position in each loop to what has been collected: `Partitioned`
  (of the functions up to `at`, those without obligations are set apart and the
  faulty others are reported), then `Checked` (the same of all functions with
  obligations, and of the checked part of the others).  `ReportExact` says
  nothing before the end, so it needs both.  One lemma for each way a function
  is disposed of (`DefErrorsExact`, `MissedIsFaulty`, `UnjustifiedIsFaulty`,
  `JustifiedIsNotFaulty`) relates the code's sets per callee to the
  definition's quantifier over call sites;
- `CheckTypeCorrect`, the type invariant;
- `NothingOfABrokenFile`: no function is faulty with a broken file and not
  without one, or the other way round (`WithoutFileSameFaults`), so
  `ReportExact` of the one is that of the other;
- `FineIsStricter`: a passing check has no errors, hence no faulty function,
  and what is faulty in the coarse mode is faulty in the fine-grained one
  (`CoarseFaultIsFault`);
- `ErrorsAreBadCalls`: `ErrorInv` says of every error in the list what
  `ErrorsListBadCalls` says of those returned; an error is built from the call
  sites of a visited function, which the worklist has recorded exactly;
- `PassDoesNotDependOnOrder`: `PassInv` says that a function left behind by a
  loop without an error has nothing that could panic or return early.  That no
  order of the hash maps would have turned up anything else follows, since none
  has anything to turn up;
- `PanicsHaveACause`: `CrashInv` and the guard of each panicking step.  A
  parse panics for the missing conditions of a fine-grained check or, in any
  mode, for a condition with an empty range;
- `StatsAreExact`: `StatsInv` relates the counters to the functions up to the
  position in the loop, as cardinalities.  It needs that the sorted list names
  each function once (`AnalyzedOrder`), and that the call sites of a function
  add up callee by callee without overlap, a fact about cardinalities of
  disjoint sets; and that a Vec is as long as it has call sites
  (`CountedOnce`), as it has each once.

The theorems about `Check` include every order of the hash maps and every
crash, which ends the check and makes no claim.

`HirProofs` has what the tree of a body is made of, for trees of any depth.
`After(t, n)` is a CHOOSE, so the first fact is that it exists (`AfterIs`, with
the least node behind `n` whose parent is before `n`); then `Contains(t, a, n)`
says that no node from `a + 1` to `n` has its parent before `a`
(`ContainsIff`), which turns every question about subtrees into one about
intervals.  `CommentFor` of a node without a comment is that of its parent
(`CommentOfParent`), which is what the climb does in a step.

`CallsiteProofs`: `CallsiteInv` is inductive.  `FindInv` says that what the
visitor has found is the last of the outermost expressions with the span among
the nodes before `at`, and that nothing around `at` is one, or a closure: a
match and a closure are skipped as a whole.  `ClimbInv` says that the comment
for the start of the climb is still the one for where it is.  From it
`CallsiteTypeCorrect`, `ClimbImplements`, `NearestCommentCounts` (with the
nearest comment of `CommentFor`) and, with `JudgeInv`, `LowerCaseDecides`: no
part of lower-cased text has a capital (`CapitalNotInText`).

`PlacedProofs`: `TextJustifiesPass` joins the two halves.  `SourceInv` keeps
what the crate and its notes have of the source.  At the end `ReportCorrect`
says that no function of a passing crate is faulty; a function without a fault
has a comment at each call of the MIR and each dereference
(`NotFaultyIsJustified`); and the calls of the MIR, which the crate has in the
order of the text, are all those outside closures (`OrderExists`: a set of
nodes has an enumeration in that order).

`SpanProofs`: `TrimInv`, `ApartInv` and `MergeInv` hold for every doc comment
and every range: the spans collected are in order with a byte between them, and
the fold joins what is adjacent; hence `SpanTypeCorrect` and `SpansAreMerged`,
without a condition.  `SpansAreExact` has the condition the run has (`Plain`): the
comment is written as one, not as `#[doc = ".."]`, and no blank line and no end
of a block comes before the range; `spans_blanks` shows why blank lines are
left out.  Then the spans collected are
the pieces of the attributes the range touches, and no others (`PiecesInv`);
only the first can begin within its line, so what a merge adds is a newline
(`JoinInv`); and the bytes of the merged spans are those of the pieces merged so
far, and newlines (`ResultInv`).  `TrimmedExact`, `WantedInterval`
and `PieceExact` are the arithmetic from characters to bytes.

`DriverProofs`: `VerdictInv` puts the invariants of the check (`WholeInv`)
under the condition that the crate is checked, and relates the diagnostics to
the errors one by one: `VerdictInvariant`.  From it, `VerdictIsExact` (with
`ReportExact`), `MessagesAreTrue` (with `PathInv` for the chain and `ErrorInv`
for the counts, which are finite), `GuessedAreChecked`, `DriverTypeCorrect`.

`WorkspaceProofs`: `BuildInv` says that processes run only while cargo builds,
each for a package that needs one and whose dependencies do not (`RunningInv`);
that, unless someone has changed them, what cargo keeps was made under the
present arguments and file (`UntouchedInv`); and that after a passing build every
package is fresh (`PassedInv`).  `RunningInv` is what makes it inductive: the
sources do not change under a process, and the package of one is not a
dependency of another's.  From it `VerdictsAreCurrent` and,
as an action property, `DependenciesBuiltFirst`.

Everything ends.  A liveness property needs fairness, and the enabledness of a
step, and stays with TLC; but that no behaviour goes on for ever does not, and
is proved for instances of any size, as an action property: each step goes
down in an order that is well-founded.

- `AnalysesAdvance`: `Ahead` is the phase, the number of functions not visited,
  whether a body is open, and the length of the queue or what is left of the
  body, in lexicographic order (`Nearer`, from the library's
  `WFLexProductOrdering`).  The queue may grow while a body is read, so the
  number of functions not visited must come first, and it does not fall when an
  item is skipped, so it is not enough;
- `ChecksAdvance` and `DriversAdvance` put that under the stages of the check,
  and add the functions ahead in each loop and the errors not yet reported;
- `JustificationsAdvance`: one number, the nodes not visited and then the node
  the climb has reached, since a parent comes before its children;
- `BuildsAdvance`: one number, two steps for each package waiting, one for each
  process at work and one for the end.  An edit of the TOML file is no progress
  and no setback.  `NeverStuck` is the other half of it: as the dependencies
  have no cycle, a build in which nothing runs has a package to start, or is to
  be ended.

Only model-checked: the liveness properties (`Terminates`, `Concludes`,
`Answered`, `DriverEnds`, `BuildEnds`, the liveness half of `ImplementsSearch`).
The theorems just named are what the prover can say of them: fairness and
ENABLED, with which a run must also take the steps there are, are out of its
reach.  Every other property of a passing run is a theorem.

## Not modelled, and what is left

Left out for good: `annotations/parsing.rs`, `obligation.rs` and `utils/err.rs`
(no code reaches them); the panic property (never run, and its call-site
expression is `todo!()`); `span_all_comments` (unused); the attribute macro,
the build script and the snapshot harness (no state of their own); logging and
the wording of diagnostics; the passing of `--print` and `-vV` to rustc.

What could be added: the finding of `# Safety` sections character by
character, which would let the offsets of `new_parsing.rs` be derived and not
given; and, with it, a proof that the span of a condition is one of its own
text, for the doc comments where those offsets are right.
