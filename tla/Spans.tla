------------------------------- MODULE Spans -------------------------------
(***************************************************************************)
(* From a range of a doc string back to the source: span_some_comments and *)
(* merge_adjacent (annotations/span.rs), and src_span (annotations/mod.rs) *)
(* on the ranges its callers give it.                                      *)
(*                                                                         *)
(* Positions count bytes.  A doc attribute is where it begins in the file, *)
(* how much of it is before and after its text, and how long the text is   *)
(* and where it begins in the doc string, which joins the texts with       *)
(* newlines.                                                               *)
(***************************************************************************)
EXTENDS Integers, Sequences, FiniteSets

CONSTANT Inputs     \* attributes, the range asked for, whether for a condition

DocAttr == [lo : Nat, before : Nat, len : Nat, after : Nat, offset : Nat]
Chars   == [start : Nat, end : Nat]

DOC_COMMENT_PREFIX_LEN == 3

AttrEnd(a) == a.lo + a.before + a.len + a.after

\* Attributes in the order of the file, each on a line of its own; no way to
\* write one is shorter than the slashes.  The range has a character in it.
IsInput(w) ==
    /\ w.doc \in Seq(DocAttr) /\ w.chars \in Chars /\ w.first \in BOOLEAN
    /\ w.chars.start < w.chars.end
    /\ \A k \in DOMAIN w.doc : w.doc[k].before >= DOC_COMMENT_PREFIX_LEN
    /\ w.doc # << >> => w.doc[1].offset = 0
    /\ \A k \in 1 .. Len(w.doc) - 1 :
          /\ AttrEnd(w.doc[k]) < w.doc[k + 1].lo
          /\ w.doc[k + 1].offset = w.doc[k].offset + w.doc[k].len + 1

ASSUME SpanAssumption == \A w \in Inputs : IsInput(w)

\* Before the range, a doc line with no text, or the end of a block comment.
BlankBefore(w) ==
    \E k \in DOMAIN w.doc : w.doc[k].len = 0 /\ w.doc[k].offset < w.chars.start
BlockBefore(w) ==
    \E k \in DOMAIN w.doc :
        w.doc[k].after > 0 /\ w.doc[k].offset + w.doc[k].len <= w.chars.start

\* A comment written with slashes or as a block, and not as #[doc = ".."].
IsComment(w) == \A k \in DOMAIN w.doc : w.doc[k].before = DOC_COMMENT_PREFIX_LEN

VARIABLES
    input,               \* doc_comments and the range
    i,                   \* attributes done
    line_start_char_no,
    final_spans,         \* Vec of spans
    merged,              \* the vector merge_adjacent folds into
    stage                \* where span_some_comments or its caller is

spanVars == <<input, i, line_start_char_no, final_spans, merged, stage>>

doc_comments == input.doc
chars        == input.chars

SpanInit ==
    /\ input \in Inputs
    /\ i = 0
    /\ line_start_char_no = 0
    /\ final_spans = << >>
    /\ merged = << >>
    /\ stage = "trim"

Saturating(n) == IF n < 0 THEN 0 ELSE n
Least(m, n)   == IF m < n THEN m ELSE n

\* Span::new orders its ends.
Span(lo, hi) == IF lo <= hi THEN [lo |-> lo, hi |-> hi] ELSE [lo |-> hi, hi |-> lo]

AttrSpan(a) == Span(a.lo, AttrEnd(a))

WantedStart(a) == Saturating(chars.start - line_start_char_no)
WantedEnd(a)   == Least(Saturating(chars.end - line_start_char_no), a.len)

\* Variant: the prefix is not counted.
BytePosNoPrefix(a, char) == a.lo + char

BytePos(a, char) == IF char = 0 THEN a.lo ELSE a.lo + char + DOC_COMMENT_PREFIX_LEN

\* What is left of the attribute's span: with_lo, then with_hi.
Trimmed(a) ==
    LET start == BytePos(a, WantedStart(a))
        end   == BytePos(a, WantedEnd(a))
        span  == IF start > a.lo THEN Span(start, AttrSpan(a).hi) ELSE AttrSpan(a)
    IN IF end < span.hi THEN Span(span.lo, end) ELSE span

\* Variant: spans with nothing in them are kept.
TrimKeepsEmpty ==
    /\ stage = "trim" /\ i < Len(doc_comments)
    /\ LET a == doc_comments[i + 1] IN
          /\ final_spans' = Append(final_spans, Trimmed(a))
          /\ line_start_char_no' = line_start_char_no + a.len + 1
    /\ i' = i + 1
    /\ UNCHANGED <<input, merged, stage>>

Trim ==
    /\ stage = "trim" /\ i < Len(doc_comments)
    /\ LET a == doc_comments[i + 1] IN
          /\ final_spans' = IF Trimmed(a).lo = Trimmed(a).hi THEN final_spans
                            ELSE Append(final_spans, Trimmed(a))
          /\ line_start_char_no' = line_start_char_no + a.len + 1
    /\ i' = i + 1
    /\ UNCHANGED <<input, merged, stage>>

StartMerge ==
    /\ stage = "trim" /\ i = Len(doc_comments)
    /\ stage' = "merge"
    /\ i' = 0
    /\ UNCHANGED <<input, line_start_char_no, final_spans, merged>>

\* Variant: the newline is forgotten.
AdjacentTouching(last, span) == last.hi = span.lo

\* One byte, the newline, lies between adjacent spans.
Adjacent(last, span) == last.hi + 1 = span.lo

\* One step of merge_adjacent's fold.  The callers fold the result once more,
\* which by SpansMerged changes nothing.
Merge ==
    /\ stage = "merge" /\ i < Len(final_spans)
    /\ LET span == final_spans[i + 1]
           n    == Len(merged)
       IN merged' = IF n > 0 /\ Adjacent(merged[n], span)
                       THEN [merged EXCEPT ![n] = Span(@.lo, span.hi)]
                       ELSE Append(merged, span)
    /\ i' = i + 1
    /\ UNCHANGED <<input, line_start_char_no, final_spans, stage>>

\* src_span takes the first span, which a condition's range may not have.
Return ==
    /\ stage = "merge" /\ i = Len(final_spans)
    /\ stage' = IF input.first /\ merged = << >> THEN "panicked" ELSE "done"
    /\ UNCHANGED <<input, i, line_start_char_no, final_spans, merged>>

SpanNext == Trim \/ StartMerge \/ Merge \/ Return

SpanSpec == SpanInit /\ [][SpanNext]_spanVars
-----------------------------------------------------------------------------
SpanTypeOK ==
    /\ IsInput(input)
    /\ i \in Nat /\ line_start_char_no \in Nat
    /\ \A s \in {final_spans[k] : k \in DOMAIN final_spans}
                \cup {merged[k] : k \in DOMAIN merged} : s.lo \in Nat /\ s.lo < s.hi
    /\ stage \in {"trim", "merge", "done", "panicked"}

\* The bytes of the wanted characters of attribute k.
WantedBytes(k) ==
    LET a == doc_comments[k] IN
    {a.lo + a.before + c : c \in {c \in 0 .. a.len - 1 :
        a.offset + c \in chars.start .. chars.end - 1}}

\* Those of its prefix, which belongs to its first character.
PrefixBytes(k) ==
    LET a == doc_comments[k] IN
    IF a.lo + a.before \in WantedBytes(k) THEN a.lo .. a.lo + a.before - 1 ELSE {}

Bytes(span) == span.lo .. span.hi - 1
Result == UNION {Bytes(merged[k]) : k \in DOMAIN merged}
Wanted == UNION {WantedBytes(k) \cup PrefixBytes(k) : k \in DOMAIN doc_comments}

\* The single bytes between two attributes.
Newlines == {doc_comments[k].lo - 1 : k \in 2 .. Len(doc_comments)}

\* The spans hold the bytes of the characters asked for, with the slashes
\* before them and the newlines between them, and nothing else, whatever the
\* lengths of the lines before and after the range: "the set of spans relevant
\* for a certain range of characters" (span.rs:14).  The unwrap of a condition's
\* first span (mod.rs:52) fails only if its range holds no character of a line.
SpansExact ==
    stage \in {"done", "panicked"} => Wanted \subseteq Result /\ Result \subseteq Wanted \cup Newlines

\* The spans come in the order of the text, do not overlap, and no two that
\* are next to each other are left apart (span.rs:97).
SpansMerged ==
    stage = "done" =>
        \A k \in 1 .. Len(merged) - 1 : merged[k].hi + 1 < merged[k + 1].lo
=============================================================================
