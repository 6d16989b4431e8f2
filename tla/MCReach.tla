------------------------------ MODULE MCReach ------------------------------
(* Small crates for Reach.tla. *)
EXTENDS Reach

CONSTANT NoFn   \* a model value

L4 == 1 .. 4
OneExtern == {10}

\* def_path_str in the opposite of HIR order, two items sharing a path.
PathOf == [f \in Fns |-> IF f = 10 THEN 9 ELSE IF f <= 2 THEN 5 ELSE 6 - f]

Plain(bodies, kinds, entries) ==
    [kind          : {kinds},
     body          : bodies,
     pub           : {{}},
     attrs         : {[f \in Local |-> IF f \in E THEN {"check_unsafe"} ELSE {}] :
                          E \in entries},
     globals       : {<< >>},
     is_dependency : {FALSE}]

AllFn == [f \in Local |-> "fn"]

SeqsUpTo2(S) == {<< >>} \cup {<<x>> : x \in S} \cup {<<x, y>> : x, y \in S}

\* Three functions of at most two calls each, to 2, 3 or another crate (twice
\* the same and themselves included), with some calls of 1 to close cycles; or
\* with a third function that has no body, and calls through a pointer.
Three(bodies) == {b \in [Local -> bodies] : b[4] = << >>}

CallCrates ==
    Plain(Three(SeqsUpTo2({2, 3, 10}) \cup {<<1>>, <<3, 1>>}), AllFn, {{1}, {2, 3}})
    \cup Plain({b \in Three(SeqsUpTo2({2, 3, NoFn})) : b[3] = << >>},
               [f \in Local |-> IF f = 3 THEN "bodyless" ELSE "fn"], {{1}, {1, 2}, {}})

\* Four functions, each calling one of the others, or a pair of them in a given
\* order: graphs on which a depth-first or unordered worklist finds longer paths.
GraphBodies ==
    {<< >>} \cup {<<x>> : x \in Local} \cup {<<2, 3>>, <<3, 2>>, <<3, 4>>, <<4, 2>>}

GraphCrates ==
    Plain({b \in [Local -> GraphBodies] :
              /\ b[1] # << >>
              /\ \A f \in Local : f \notin {b[f][i] : i \in DOMAIN b[f]}},
          AllFn, {{1}, {1, 2}})

\* Two definitions of every kind, visibility and annotation, in crates with
\* every combination of up to two crate attributes; the others stay out of it.
Padded(x, y, rest) == <<x, y, rest, rest>>

EntryCrates ==
    {c \in [kind          : {Padded(x, y, "bodyless") : x, y \in Kinds},
            body          : {<< << >>, << >>, << >>, << >> >>, << <<2>>, <<10>>, << >>, << >> >>},
            pub           : SUBSET {1, 2},
            attrs         : {Padded(x, y, {}) :
                                x \in {{}, {"check_unsafe"}, {"check_panics"},
                                       {"check_unsafe_pub", "check_unsafe"}},
                                y \in {{}, {"check_unsafe"}}},
            globals       : SeqsUpTo2(AttrNames),
            is_dependency : BOOLEAN] :
        /\ \A f \in Local : c.kind[f] = "bodyless" => c.body[f] = << >>
        /\ c.body[1] # << >> => c.kind[2] # "const"}

AllCrates == CallCrates \cup GraphCrates \cup EntryCrates
=============================================================================
