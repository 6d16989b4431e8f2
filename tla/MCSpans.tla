------------------------------ MODULE MCSpans ------------------------------
(* Small doc comments for Spans.tla. *)
EXTENDS Spans, SequencesExt

\* Lines of the given lengths, each `indent` bytes after the last one's newline;
\* the one numbered `block` closes with two more bytes.
AttrsOf(lens, indent, block) ==
    FoldLeft(LAMBDA doc, len :
        LET last  == IF doc = << >> THEN [lo |-> 9, before |-> 0, len |-> 0, after |-> 0, offset |-> -1]
                     ELSE doc[Len(doc)]
            gap   == IF doc = << >> THEN 0 ELSE indent
        IN Append(doc, [lo     |-> last.lo + last.before + last.len + last.after + 1 + gap,
                        before |-> 3, len |-> len,
                        after  |-> IF Len(doc) + 1 = block THEN 2 ELSE 0,
                        offset |-> last.offset + last.len + 1]), << >>, lens)

TotalOf(lens) == FoldLeft(LAMBDA x, y : x + y, Len(lens) - 1, lens)

\* Any range of a doc comment of such lines.
Whole(lens, indent, block) ==
    {[doc |-> AttrsOf(lens, indent, block), chars |-> [start |-> r[1], end |-> r[2]], first |-> FALSE] :
        r \in {r \in (0 .. TotalOf(lens)) \X (0 .. TotalOf(lens)) : r[1] < r[2]}}

Lens == UNION {[1 .. n -> 0 .. 2] : n \in 1 .. 3} \cup [1 .. 4 -> {0, 2}]

\* The ranges parse_fn_def asks for when text comes before the header: from
\* the newline after the last such text to the end.
FromHeader(w) ==
    /\ \E k \in 1 .. Len(w.doc) - 1 :
          w.doc[k].len > 0 /\ w.chars.start = w.doc[k].offset + w.doc[k].len
    /\ w.doc[Len(w.doc)].len > 0
    /\ w.chars.end = w.doc[Len(w.doc)].offset + w.doc[Len(w.doc)].len

\* Up to three lines of up to two characters, or four lines, some blank, at the
\* start of the line or indented, one of them perhaps a block comment.
AllInputs   == UNION {Whole(l, x, y) : l \in Lens, x \in {0, 2}, y \in 0 .. 2}
BlankInputs == {w \in AllInputs : BlankBefore(w) /\ ~BlockBefore(w) /\ FromHeader(w)}

-----------------------------------------------------------------------------
(* The conditions of a doc comment: some lines, ` # Safety`, and bullets   *)
(* ` - a: b`.  The range of a condition is from the end of its marker to   *)
(* the next bullet, or to the end.  It is counted from the end of the      *)
(* header's line, and src_span takes it as if it were counted from the     *)
(* start of the comment.                                                   *)

Condition(before, bullets, k) ==
    [doc   |-> AttrsOf(before \o <<9>> \o [b \in 1 .. bullets |-> 7], 0, 0),
     chars |-> [start |-> 8 * (k - 1) + 3, end |-> IF k < bullets THEN 8 * k ELSE 8 * k - 1],
     first |-> TRUE]

ConditionInputs ==
    {Condition(before, 2, k) : before \in UNION {[1 .. n -> {0, 2, 5}] : n \in 0 .. 6}, k \in 1 .. 2}

LineInputs == {w \in AllInputs \cup ConditionInputs : ~BlankBefore(w) /\ ~BlockBefore(w)}
=============================================================================
