----------------------------- MODULE MCCallsite -----------------------------
(* Small bodies for Callsite.tla. *)
EXTENDS Callsite

AllWords  == {"", "validity", "valid", "Validity", "invalid",
              "alignment", "align", "Alignment", "Align", "other"}
LowerOf   == [w \in AllWords |-> CASE w = "Validity"  -> "validity"
                                   [] w = "Alignment" -> "alignment"
                                   [] w = "Align"     -> "align"
                                   [] OTHER           -> w]
Contained == {<<w, w>> : w \in AllWords}
             \cup {<<"valid", "validity">>, <<"valid", "invalid">>,
                   <<"Valid", "Validity">>,
                   <<"align", "alignment">>, <<"Align", "Alignment">>}

Leaf == [kind |-> "expr", parent |-> 1, span |-> 0, call |-> 0,
         operand |-> FALSE, marked |-> FALSE, text |-> {}]
Owner(kind, marked) == [Leaf EXCEPT !.kind = kind, !.parent = 0, !.marked = marked]

-----------------------------------------------------------------------------
(* Climb: every body of three nodes, expressions with one of two spans,    *)
(* comments on any of the nodes; each plain expression is a call, and the  *)
(* last node may be a dereferenced operand.                                *)

Shapes == {p \in [1 .. 3 -> 1 .. 3] : /\ p[1] = 1 /\ p[2] \in {1, 2}
                                      /\ p[3] \in {1, 2, 3} \ (IF p[2] = 1 THEN {2} ELSE {})}

\* A node below the root, parents counted from the root.
NodeOf(kind, parent, s, marked, operand) ==
    [Leaf EXCEPT !.kind = kind, !.parent = parent,
                 !.span = IF kind = "other" THEN 0 ELSE s,
                 !.call = IF kind = "expr" THEN s ELSE 0,
                 !.marked = marked, !.operand = operand /\ kind = "expr"]

Kinds3 == {"expr", "closure", "other"}

ClimbTrees ==
    {<<Owner(o, m[1])>> \o [n \in 1 .. 3 |->
          NodeOf(k[n], p[n], s[n], m[n + 1], n = 3)] :
        o \in Owners, p \in Shapes, k \in [1 .. 3 -> Kinds3],
        s \in {<<1, 2, 3>>, <<1, 1, 2>>, <<1, 2, 1>>, <<2, 1, 1>>},
        m \in [1 .. 4 -> BOOLEAN]}

ClimbCases == {[tree |-> t, names |-> << >>] : t \in ClimbTrees}
TraitCases == {[tree |-> t, names |-> << >>] :
                  t \in {u \in ClimbTrees : u[1].kind = "trait_item" /\ u[2].kind # "closure"}}

-----------------------------------------------------------------------------
(* Words: a call in a commented block, the comment any set of words, the   *)
(* conditions named in lower case or not, some in two words.               *)

WordTrees ==
    {<<Owner("item", FALSE),
       [Leaf EXCEPT !.kind = "other", !.marked = TRUE, !.text = x],
       [Leaf EXCEPT !.parent = 2, !.span = 1, !.call = 1, !.operand = TRUE]>> :
        x \in SUBSET AllWords}

AskedFor == {<<n>> : n \in {<<"validity">>, <<"alignment", "validity">>, <<"", "">>}}
            \cup {<< <<"other">>, <<"validity">> >>, << <<"Alignment">> >>,
                  << <<"Validity">>, <<"alignment", "Alignment">> >>}

WordCases == {[tree |-> t, names |-> n] : t \in WordTrees, n \in AskedFor}

AllCases == ClimbCases \cup WordCases
=============================================================================
