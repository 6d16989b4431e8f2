------------------------------ MODULE MCDriver ------------------------------
(* Small invocations for Driver.tla. *)
EXTENDS Driver, TLC

CONSTANTS NoFn, c1, c2   \* model values

L3 == 1 .. 3
OneExtern == {10}
TwoConds == {c1, c2}
PathOf == [f \in Fns |-> f]

OfKind(k) == [kind |-> k, name |-> c1, spanned |-> TRUE]
Cond(c)   == [kind |-> "cond", name |-> c, spanned |-> TRUE]
NoDoc   == << >>
General == <<OfKind("marker")>>
Both    == <<OfKind("marker"), Cond(c1), Cond(c2)>>

\* What is below the root, with and without an edition, what is taken for a
\* dependency and is none, and the other way round, and each posture.
Inv(origin, edition, posture) == [origin |-> origin, edition |-> edition, posture |-> posture]

SomeInvocations ==
    {Inv("member", e, "Trust") : e \in BOOLEAN}
    \cup {Inv("member_beside", TRUE, "Trust"), Inv("excluded", TRUE, "Verify"),
          Inv("registry", FALSE, "Verify")}
    \cup {Inv("registry", TRUE, p) : p \in Postures}

\* f1 may be annotated, f2 is public; calls of each other, the other crate's
\* function and oneself, and a third function nothing calls.
CrateOf(body, annotated, dep) ==
    [kind |-> [f \in Local |-> "fn"], body |-> body, pub |-> {2}, globals |-> << >>,
     attrs |-> [f \in Local |-> IF f \in annotated THEN {"check_unsafe"} ELSE {}],
     is_dependency |-> dep]

Bodies == {<< <<2, 2, 10>>, <<10, 1>>, << >> >>, << <<2>>, <<10, 10, 2>>, << >> >>}
SmallCrates == {CrateOf(b, a, dep) : b \in Bodies, a \in {{}, {1}}, dep \in BOOLEAN}

Site0      == [hir |-> TRUE, comment |-> FALSE, covers |-> {}]
Comment(C) == [hir |-> TRUE, comment |-> TRUE, covers |-> C]
Nowhere    == [hir |-> FALSE, comment |-> FALSE, covers |-> {}]

SitesFor(b) ==
    {<<[i \in DOMAIN b[1] |-> IF i = 2 THEN Comment({c1, c2}) ELSE x],
       [i \in DOMAIN b[2] |-> IF i = 2 THEN y ELSE x], << >> >> :
        x \in {Site0, Comment({c1}), Comment({c1, c2})}, y \in {Comment({c1, c2}), Nowhere}}

SmallNotes ==
    UNION {[args     : {[fine_grained |-> g, check_dependencies |-> FALSE, buzzword_checking |-> TRUE] :
                           g \in BOOLEAN},
            toml     : {[status |-> "missing", tables |-> << >>]},
            doc      : {1 :> NoDoc @@ 2 :> x @@ 3 :> NoDoc @@ 10 :> e : x \in {NoDoc, General, Both}, e \in {NoDoc, Both}},
            unsafe   : {{}, {2}},
            trait_fn : {<<1, 2, 3>>, <<1, 10, 3>>},
            axioms   : {<< <<TRUE>>, <<FALSE, FALSE>>, << >> >>, << << >>, <<TRUE>>, << >> >>},
            sites    : SitesFor(b)] : b \in Bodies}

\* Three functions, reached along chains of different lengths.
ChainCrates ==
    {[kind |-> [f \in Local |-> "fn"], body |-> b, pub |-> {2}, globals |-> << >>,
      attrs |-> [f \in Local |-> IF f = 1 THEN {"check_unsafe"} ELSE {}],
      is_dependency |-> dep] :
        dep \in BOOLEAN, b \in {<< <<2, 3>>, <<1, 3>>, <<10, 1>> >>, << <<1, 3>>, <<10>>, <<3, 2, 10>> >>,
                              << <<3>>, << >>, <<10, 10, 2>> >>}}

ChainNotes ==
    UNION {[args     : {[fine_grained |-> FALSE, check_dependencies |-> FALSE, buzzword_checking |-> TRUE]},
            toml     : {[status |-> "missing", tables |-> << >>]},
            doc      : {1 :> NoDoc @@ 2 :> x @@ 3 :> NoDoc @@ 10 :> General : x \in {NoDoc, General}},
            unsafe   : {{}},
            trait_fn : {<<1, 2, 3>>},
            axioms   : {<< << >>, <<a>>, << >> >> : a \in BOOLEAN},
            sites    : {<<[i \in DOMAIN c.body[1] |-> x], [i \in DOMAIN c.body[2] |-> x],
                          [i \in DOMAIN c.body[3] |-> y]>> : x, y \in {Site0, Comment({})}}] :
            c \in ChainCrates}

AllCrates == SmallCrates \cup ChainCrates
AllNotes  == SmallNotes \cup ChainNotes
=============================================================================
