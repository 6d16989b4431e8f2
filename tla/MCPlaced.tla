------------------------------ MODULE MCPlaced ------------------------------
(* Small crates with their text: f1, the entry point, calls f2 and another *)
(* crate's function; f2 dereferences a raw pointer, with or without        *)
(* obligations.                                                            *)
EXTENDS Placed, TLC

CONSTANTS NoFn, c1, c2   \* model values

L2 == 1 .. 2
OneExtern == {10}
TwoConds == {c1, c2}
PathOf == [f \in Fns |-> f]

AllWords  == {"validity", "valid", "VALID", "other"}
LowerOf   == [w \in AllWords |-> IF w = "VALID" THEN "valid" ELSE w]
Contained == {<<w, w>> : w \in AllWords} \cup {<<"valid", "validity">>}
NamesOf   == c1 :> <<"validity">> @@ c2 :> <<"other", "validity">>

-----------------------------------------------------------------------------
OfKind(k) == [kind |-> k, name |-> c1, spanned |-> TRUE]
Cond(c)   == [kind |-> "cond", name |-> c, spanned |-> TRUE]
NoDoc   == << >>
General == <<OfKind("marker")>>
Both    == <<OfKind("marker"), Cond(c1), Cond(c2)>>

Plain == [kind |-> "other", parent |-> 1, span |-> 0, call |-> 0,
          operand |-> FALSE, marked |-> FALSE, text |-> {}]
Owner(kind, marked) == [Plain EXCEPT !.kind = kind, !.parent = 0, !.marked = marked]

\* Comments: none, one that considers c1, one for both.
Comments == {[m |-> FALSE, x |-> {}],
             [m |-> TRUE, x |-> {"VALID"}], [m |-> TRUE, x |-> {"other", "valid"}]}

With(node, comment) == [node EXCEPT !.marked = comment.m, !.text = comment.x]

\* A block or closure, below it a call or an operand, and another call below
\* the block, the first call or the owner.
Trees1 ==
    {<<Owner(o, TRUE),
       With([Plain EXCEPT !.kind = k, !.span = IF k = "other" THEN 0 ELSE 9], x),
       With([Plain EXCEPT !.kind = "expr", !.parent = 2, !.span = 1, !.operand = (g = 0), !.call = g], y),
       With([Plain EXCEPT !.kind = "expr", !.parent = p, !.span = s, !.call = 10], z)>> :
        o \in {"item", "trait_item"}, k \in {"other", "closure"},
        g \in {0, 2}, p \in 1 .. 3, s \in {1, 2}, x, y, z \in Comments}

Tree2 == <<Owner("item", FALSE),
           [Plain EXCEPT !.kind = "expr", !.span = 1, !.operand = TRUE]>>

SourceOf(t, doc2, doc10, fine) ==
    [trees |-> <<t, Tree2>>,
     crate |-> [kind |-> [f \in Local |-> "fn"], body |-> <<BodyOf(t), BodyOf(Tree2)>>,
                pub |-> {}, globals |-> << >>,
                attrs |-> [f \in Local |-> IF f = 1 THEN {"check_unsafe"} ELSE {}],
                is_dependency |-> FALSE],
     notes |-> [args |-> [fine_grained |-> fine, check_dependencies |-> FALSE,
                          buzzword_checking |-> TRUE],
                toml |-> [status |-> "missing", tables |-> << >>],
                doc |-> 1 :> NoDoc @@ 2 :> doc2 @@ 10 :> doc10,
                unsafe |-> {2},
                trait_fn |-> [f \in Local |-> f],
                axioms |-> <<AxiomsOf(t), AxiomsOf(Tree2)>>,
                sites |-> <<SitesOf(t), SitesOf(Tree2)>>]]

Written == {<<General, NoDoc, FALSE>>, <<Both, General, TRUE>>, <<General, Both, TRUE>>}

SmallSources ==
    {SourceOf(t, w[1], w[2], w[3]) : t \in Trees1, w \in Written}

ClosureSources == {s \in SmallSources : s.trees[1][2].kind = "closure"}

CratesOf == {s.crate : s \in SmallSources}
NotesOf  == {s.notes : s \in SmallSources}
=============================================================================
