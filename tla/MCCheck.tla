------------------------------ MODULE MCCheck ------------------------------
(* Small annotated crates for Check.tla. *)
EXTENDS Check, TLC

CONSTANTS NoFn, c1, c2   \* model values

L3 == 1 .. 3
OneExtern == {10}
TwoConds == {c1, c2}
PathOf == [f \in Fns |-> f]

-----------------------------------------------------------------------------
(* Doc comments.                                                           *)

OfKind(k) == [kind |-> k, name |-> c1, spanned |-> TRUE]
Cond(c)   == [kind |-> "cond", name |-> c, spanned |-> TRUE]

NoDoc     == << >>
General   == <<OfKind("text"), OfKind("marker"), OfKind("text")>>
One       == <<OfKind("marker"), Cond(c1), OfKind("text")>>
Both      == <<OfKind("submarker"), Cond(c1), Cond(c2)>>
Swapped   == <<OfKind("marker"), Cond(c2), Cond(c1)>>
Broken    == <<OfKind("marker"), Cond(c1), OfKind("nocolon")>>
Bare      == <<OfKind("marker"), OfKind("bare"), OfKind("blank"), OfKind("text")>>
Blank     == <<OfKind("marker"), OfKind("bare"), OfKind("blank")>>
Empty     == <<OfKind("marker"), OfKind("bare"), Cond(c2)>>
Elsewhere == <<OfKind("marker"), Cond(c1), OfKind("header"), OfKind("spaced")>>
Unrelated == <<OfKind("header"), OfKind("spaced")>>

\* A short first line and four blank ones: the range of the condition, which
\* counts from the header and is used from the start, lies on the blank lines.
LostCond  == [Cond(c1) EXCEPT !.spanned = FALSE]
Gap       == <<OfKind("text"), OfKind("blank"), OfKind("blank"), OfKind("blank"),
               OfKind("blank"), OfKind("marker")>>
Lost      == Append(Gap, LostCond)
LostLate  == Gap \o <<OfKind("nocolon"), LostCond>>

-----------------------------------------------------------------------------
(* Crates and the file of overrides.                                       *)

\* The first function is the annotated entry point.
Crate(body, kind) ==
    [kind |-> kind, body |-> body, pub |-> {}, globals |-> << >>,
     attrs |-> [f \in Local |-> IF f = 1 THEN {"check_unsafe"} ELSE {}],
     is_dependency |-> FALSE]

AllFn == [f \in Local |-> "fn"]

NoToml      == [status |-> "missing", tables |-> << >>]
Unreadable  == [status |-> "unreadable", tables |-> << >>]
Override(f, doc, bad) ==
    [status |-> "tables",
     tables |-> [p \in {f, 10} |-> [bad |-> bad /\ p = 10,
                                    doc |-> IF p = f THEN doc ELSE General]]]

Site0      == [hir |-> TRUE, comment |-> FALSE, covers |-> {}]
Comment(C) == [hir |-> TRUE, comment |-> TRUE, covers |-> C]
Nowhere    == [hir |-> FALSE, comment |-> FALSE, covers |-> {}]

AllArgs == [fine_grained : BOOLEAN, check_dependencies : BOOLEAN, buzzword_checking : BOOLEAN]
Buzz    == {a \in AllArgs : a.buzzword_checking /\ ~a.check_dependencies}

-----------------------------------------------------------------------------
(* Calls: f1 calls f2 and another crate, several times, each time with or  *)
(* without a comment that considers some of the conditions.                *)

CallCrates == {Crate(b, AllFn) : b \in {<< <<2, 2, 10>>, << >>, << >> >>,
                                        << <<10, 2>>, <<10>>, << >> >>,
                                        << <<NoFn, 2, 1>>, <<1>>, << >> >>}}

CallSites == {Site0, Comment({}), Comment({c1}), Comment({c1, c2})}

\* Of a call through a pointer the site does not matter.
SitesOf(calls) ==
    {s \in [DOMAIN calls -> CallSites] : \A i \in DOMAIN s : calls[i] = NoFn => s[i] = Site0}

CallNotes ==
    UNION {[args     : Buzz,
            toml     : {NoToml},
            doc      : {[f \in Fns |-> IF f = 2 THEN x ELSE IF f = 10 THEN e ELSE NoDoc] :
                           x \in {NoDoc, General, Both}, e \in {NoDoc, One, Empty}},
            unsafe   : {{2}},
            trait_fn : {[f \in Local |-> f]},
            axioms   : {<< <<TRUE, a>>, << >>, << >> >> : a \in BOOLEAN},
            sites    : {<<x, y, << >> >> : x \in SitesOf(c.body[1]), y \in SitesOf(c.body[2])}]
            : c \in CallCrates}

-----------------------------------------------------------------------------
(* Docs: well and badly written annotations, in the source and in the TOML *)
(* file, calls that cannot be placed, and every combination of arguments.  *)
(* The third function, which nothing calls, is left alone.                 *)

DocCrate  == Crate(<< <<10, 2>>, <<10>>, <<1>> >>, AllFn)
DocCrates == {DocCrate, [DocCrate EXCEPT !.globals = <<"abc">>]}

DocSites == {<<x, y, <<Site0>> >> :
                x \in {<<Comment({c1}), Nowhere>>, <<Comment({c1, c2}), Comment({c1, c2})>>,
                       <<Site0, Comment({c1})>>},
                y \in {<<Comment(TwoConds)>>, <<Nowhere>>}}

DocNotes ==
    [args     : AllArgs,
     toml     : {Unreadable, Override(2, Unrelated, FALSE), Override(1, Broken, TRUE),
                 Override(2, Broken, FALSE)},
     doc      : {<<NoDoc, x, NoDoc>> @@ (10 :> e) :
                    x \in {General, Elsewhere, Bare, Blank, Lost},
                    e \in {LostLate, Both, NoDoc, Lost}},
     unsafe   : {{2}, {}},
     trait_fn : {[f \in Local |-> f], [f \in Local |-> IF f = 2 THEN 10 ELSE f]},
     axioms   : {<< << >>, << >>, << >> >>},
     sites    : DocSites]

-----------------------------------------------------------------------------
(* Traits: f1 calls f2, which implements the function f3 of a local trait, *)
(* or one of a trait of another crate.                                     *)

TraitCrates == {Crate(<< <<2, 3>>, << >>, << >> >>, [AllFn EXCEPT ![3] = k]) :
                    k \in {"fn", "bodyless"}}

TraitNotes ==
    [args     : Buzz,
     toml     : {NoToml, Override(2, One, FALSE), Override(3, Both, FALSE),
                 Override(3, Unrelated, FALSE)},
     doc      : {<<NoDoc, x, e>> @@ (10 :> g) :
                    x \in {NoDoc, General, One, Both}, e \in {NoDoc, General, One, Swapped},
                    g \in {One, Empty}},
     unsafe   : {{2}, {3}, {2, 3}},
     trait_fn : {<<1, t, 3>> : t \in {2, 3, 10}},
     axioms   : {<< << >>, << >>, << >> >>},
     sites    : {<< <<x, Comment({c1, c2})>>, << >>, << >> >> : x \in {Site0, Comment({c1, c2})}}]

\* The trait and its implementation carry the same documentation.
SameDocNotes == {n \in TraitNotes : n.toml = NoToml /\ n.doc[2] = n.doc[3]}

-----------------------------------------------------------------------------
AllCrates == CallCrates \cup DocCrates \cup TraitCrates
AllNotes  == CallNotes \cup DocNotes \cup TraitNotes
=============================================================================
