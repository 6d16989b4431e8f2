----------------------------- MODULE SpanProofs -----------------------------
(* Theorems about Spans.tla, for doc comments of any number of lines and any *)
(* range of their characters.                                                *)
EXTENDS Spans, TLAPS

SpanType == {s \in [lo : Nat, hi : Nat] : s.lo < s.hi}

LEMMA SpanIsSpan ==
    ASSUME NEW lo \in Nat, NEW hi \in Nat
    PROVE  /\ Span(lo, hi) \in [lo : Nat, hi : Nat]
           /\ lo <= hi => Span(lo, hi).lo = lo /\ Span(lo, hi).hi = hi
           /\ hi <= lo => Span(lo, hi).lo = hi /\ Span(lo, hi).hi = lo
<1> QED BY DEF Span

LEMMA Attribute ==
    ASSUME NEW a \in DocAttr
    PROVE  /\ a.lo \in Nat /\ a.before \in Nat /\ a.len \in Nat /\ a.after \in Nat
           /\ a.offset \in Nat /\ AttrEnd(a) \in Nat /\ a.lo <= AttrEnd(a)
           /\ AttrSpan(a).lo = a.lo /\ AttrSpan(a).hi = AttrEnd(a)
<1>1. /\ a.lo \in Nat /\ a.before \in Nat /\ a.len \in Nat /\ a.after \in Nat
      /\ a.offset \in Nat
  BY DEF DocAttr
<1>2. AttrEnd(a) \in Nat /\ a.lo <= AttrEnd(a)
  BY <1>1 DEF AttrEnd
<1> QED BY <1>1, <1>2, SpanIsSpan DEF AttrSpan
-----------------------------------------------------------------------------
(* One attribute.                                                          *)

\* The positions computed lie within the attribute, the end not before its
\* beginning and not behind its text.
LEMMA Positions ==
    ASSUME NEW a \in DocAttr, chars \in Chars, line_start_char_no \in Nat,
           NEW S, S = WantedStart(a), NEW E, E = WantedEnd(a)
    PROVE  /\ S = (IF chars.start < line_start_char_no THEN 0
                   ELSE chars.start - line_start_char_no)
           /\ S \in Nat
           /\ E \in Nat /\ E <= a.len
           /\ BytePos(a, S) = (IF S = 0 THEN a.lo ELSE a.lo + S + 3)
           /\ BytePos(a, E) = (IF E = 0 THEN a.lo ELSE a.lo + E + 3)
           /\ E = (IF chars.end < line_start_char_no THEN 0
                   ELSE IF chars.end - line_start_char_no < a.len
                        THEN chars.end - line_start_char_no ELSE a.len)
<1>1. chars.start \in Nat /\ chars.end \in Nat
  BY DEF Chars
<1> QED BY <1>1, Attribute
        DEF WantedStart, WantedEnd, BytePos, Saturating, Least, DOC_COMMENT_PREFIX_LEN

\* What Trimmed computes, by the cases it tells apart.
LEMMA TrimmedIs ==
    ASSUME NEW a \in DocAttr, a.before >= 3, chars \in Chars, line_start_char_no \in Nat,
           NEW lo, lo = BytePos(a, WantedStart(a)), NEW hi, hi = BytePos(a, WantedEnd(a))
    PROVE  /\ lo \in Nat /\ hi \in Nat /\ a.lo <= lo /\ a.lo <= hi /\ hi <= AttrEnd(a)
           /\ hi = AttrEnd(a) /\ lo <= hi => Trimmed(a) = Span(lo, hi)
           /\ lo <= AttrEnd(a) /\ hi < AttrEnd(a) => Trimmed(a) = Span(lo, hi)
           /\ lo > AttrEnd(a) => Trimmed(a) = Span(AttrEnd(a), hi)
<1>1. /\ a.lo \in Nat /\ a.before \in Nat /\ a.len \in Nat /\ a.after \in Nat
      /\ AttrEnd(a) = a.lo + a.before + a.len + a.after
      /\ AttrSpan(a).lo = a.lo /\ AttrSpan(a).hi = AttrEnd(a)
  BY Attribute DEF AttrEnd
<1>2. PICK S, E : S = WantedStart(a) /\ E = WantedEnd(a)
  OBVIOUS
<1>3. /\ S \in Nat /\ E \in Nat /\ E <= a.len
      /\ lo = (IF S = 0 THEN a.lo ELSE a.lo + S + 3)
      /\ hi = (IF E = 0 THEN a.lo ELSE a.lo + E + 3)
  BY <1>2, Positions
<1>4. lo \in Nat /\ hi \in Nat /\ a.lo <= lo /\ a.lo <= hi /\ hi <= AttrEnd(a)
  BY <1>1, <1>3
<1>5. AttrEnd(a) \in Nat
  BY Attribute
<1> DEFINE first == IF lo > a.lo THEN Span(lo, AttrEnd(a)) ELSE AttrSpan(a)
<1>6. Trimmed(a) = IF hi < first.hi THEN Span(first.lo, hi) ELSE first
  BY <1>1 DEF Trimmed
<1>7. lo <= AttrEnd(a) => first = Span(lo, AttrEnd(a)) /\ first.lo = lo /\ first.hi = AttrEnd(a)
  <2>1. lo = a.lo => Span(lo, AttrEnd(a)) = AttrSpan(a)
    BY DEF AttrSpan
  <2>2. lo <= AttrEnd(a) => Span(lo, AttrEnd(a)).lo = lo /\ Span(lo, AttrEnd(a)).hi = AttrEnd(a)
    BY <1>4, <1>5 DEF Span
  <2> QED BY <1>4, <1>1, <2>1, <2>2
<1>8. lo > AttrEnd(a) => first.lo = AttrEnd(a) /\ first.hi = lo
  <2>1. lo > AttrEnd(a) => lo > a.lo /\ ~(lo <= AttrEnd(a))
    BY <1>1, <1>4, <1>5
  <2> QED BY <2>1 DEF Span
<1> HIDE DEF first
<1>9. lo > AttrEnd(a) => Trimmed(a) = Span(AttrEnd(a), hi)
  <2>1. lo > AttrEnd(a) => hi < lo
    BY <1>4, <1>5
  <2> QED BY <1>6, <1>8, <2>1
<1>10. lo <= AttrEnd(a) /\ hi < AttrEnd(a) => Trimmed(a) = Span(lo, hi)
  BY <1>6, <1>7
<1>11. hi = AttrEnd(a) /\ lo <= hi => Trimmed(a) = Span(lo, hi)
  <2>1. hi = AttrEnd(a) => ~(hi < AttrEnd(a))
    BY <1>4
  <2> QED BY <1>6, <1>7, <2>1
<1> QED BY <1>4, <1>9, <1>10, <1>11

\* Whatever the range, what is left of an attribute is part of it.
LEMMA TrimmedWithin ==
    ASSUME NEW a \in DocAttr, a.before >= 3, chars \in Chars, line_start_char_no \in Nat
    PROVE  /\ Trimmed(a) \in [lo : Nat, hi : Nat]
           /\ a.lo <= Trimmed(a).lo /\ Trimmed(a).lo <= Trimmed(a).hi
           /\ Trimmed(a).hi <= AttrEnd(a)
<1>1. PICK lo, hi : lo = BytePos(a, WantedStart(a)) /\ hi = BytePos(a, WantedEnd(a))
  OBVIOUS
<1>2. /\ lo \in Nat /\ hi \in Nat /\ a.lo <= lo /\ a.lo <= hi /\ hi <= AttrEnd(a)
      /\ hi = AttrEnd(a) /\ lo <= hi => Trimmed(a) = Span(lo, hi)
      /\ lo <= AttrEnd(a) /\ hi < AttrEnd(a) => Trimmed(a) = Span(lo, hi)
      /\ lo > AttrEnd(a) => Trimmed(a) = Span(AttrEnd(a), hi)
  BY <1>1, TrimmedIs
<1>3. AttrEnd(a) \in Nat /\ a.lo \in Nat /\ a.lo <= AttrEnd(a)
  BY Attribute
<1>4. CASE lo <= AttrEnd(a)
  <2>1. Trimmed(a) = Span(lo, hi)
    BY <1>2, <1>3, <1>4
  <2>2. CASE lo <= hi
    BY <1>2, <1>3, <2>1, <2>2 DEF Span
  <2>3. CASE ~(lo <= hi)
    BY <1>2, <1>3, <1>4, <2>1, <2>3 DEF Span
  <2> QED BY <2>2, <2>3
<1>5. CASE lo > AttrEnd(a)
  <2>1. Trimmed(a) = Span(AttrEnd(a), hi)
    BY <1>2, <1>5
  <2>2. CASE AttrEnd(a) <= hi
    BY <1>2, <1>3, <2>1, <2>2 DEF Span
  <2>3. CASE ~(AttrEnd(a) <= hi)
    BY <1>2, <1>3, <2>1, <2>3 DEF Span
  <2> QED BY <2>2, <2>3
<1> QED BY <1>2, <1>3, <1>4, <1>5
-----------------------------------------------------------------------------
(* The spans are apart, for every input.                                   *)

Stages == {"trim", "merge", "done", "panicked"}

StateInv ==
    /\ input \in Inputs
    /\ i \in Nat /\ line_start_char_no \in Nat
    /\ final_spans \in Seq(SpanType) /\ merged \in Seq(SpanType)
    /\ stage \in Stages

\* While trimming, the spans so far end before the attribute that is next.
TrimInv ==
    stage = "trim" =>
        /\ i <= Len(doc_comments) /\ merged = << >>
        /\ i < Len(doc_comments) =>
              /\ line_start_char_no = doc_comments[i + 1].offset
              /\ \A j \in DOMAIN final_spans : final_spans[j].hi < doc_comments[i + 1].lo

ApartInv == \A j \in 1 .. Len(final_spans) - 1 : final_spans[j].hi < final_spans[j + 1].lo

\* While merging, the last span of the result ends where the last one merged does.
MergeInv ==
    /\ stage # "trim" =>
          /\ i <= Len(final_spans)
          /\ i = 0 => merged = << >>
          /\ i > 0 => /\ merged # << >>
                      /\ merged[Len(merged)].hi = final_spans[i].hi
    /\ stage \in {"done", "panicked"} => i = Len(final_spans)
    /\ \A k \in 1 .. Len(merged) - 1 : merged[k].hi + 1 < merged[k + 1].lo

SpanInv == StateInv /\ TrimInv /\ ApartInv /\ MergeInv

LEMMA InputIs ==
    ASSUME input \in Inputs
    PROVE  /\ doc_comments \in Seq(DocAttr)
           /\ chars \in Chars /\ chars.start \in Nat /\ chars.end \in Nat
           /\ chars.start < chars.end
           /\ Len(doc_comments) \in Nat
           /\ \A k \in 1 .. Len(doc_comments) :
                 doc_comments[k] \in DocAttr /\ doc_comments[k].before >= 3
           /\ doc_comments # << >> => doc_comments[1].offset = 0
           /\ \A k \in 1 .. Len(doc_comments) - 1 :
                 /\ AttrEnd(doc_comments[k]) < doc_comments[k + 1].lo
                 /\ doc_comments[k + 1].offset = doc_comments[k].offset + doc_comments[k].len + 1
<1>1. IsInput(input)
  BY SpanAssumption
<1> QED BY <1>1 DEF IsInput, doc_comments, chars, Chars, DOC_COMMENT_PREFIX_LEN

LEMMA SpanInvInit == ASSUME SpanInit PROVE SpanInv
<1>1. input \in Inputs
  BY DEF SpanInit
<1>2. StateInv
  BY DEF SpanInit, StateInv, Stages
<1>3. TrimInv
  BY <1>1, InputIs DEF SpanInit, TrimInv
<1> QED BY <1>2, <1>3 DEF SpanInit, SpanInv, ApartInv, MergeInv

\* What Trim does with an attribute.
LEMMA TrimStep ==
    ASSUME SpanInv, Trim, NEW a, a = doc_comments[i + 1], NEW t, t = Trimmed(a)
    PROVE  /\ i + 1 \in 1 .. Len(doc_comments)
           /\ a \in DocAttr /\ a.before >= 3
           /\ a.lo <= t.lo /\ t.hi <= AttrEnd(a)
           /\ final_spans \in Seq(SpanType)
           /\ \/ t.lo = t.hi /\ final_spans' = final_spans
              \/ t \in SpanType /\ final_spans' = Append(final_spans, t)
<1>1. /\ input \in Inputs /\ i \in Nat /\ i < Len(doc_comments)
      /\ final_spans \in Seq(SpanType) /\ line_start_char_no \in Nat
  BY DEF SpanInv, StateInv, Trim
<1>2. /\ i + 1 \in 1 .. Len(doc_comments) /\ a \in DocAttr /\ a.before >= 3
      /\ chars \in Chars
  BY <1>1, InputIs
<1>3. /\ t \in [lo : Nat, hi : Nat] /\ a.lo <= t.lo /\ t.lo <= t.hi /\ t.hi <= AttrEnd(a)
  BY <1>1, <1>2, TrimmedWithin
<1>4. t.lo # t.hi => t \in SpanType
  BY <1>3 DEF SpanType
<1>5. final_spans' = IF t.lo = t.hi THEN final_spans ELSE Append(final_spans, t)
  BY DEF Trim
<1> QED BY <1>1, <1>2, <1>3, <1>4, <1>5

LEMMA TrimKeepsInv == ASSUME SpanInv, Trim PROVE SpanInv'
<1>1. PICK a, t : a = doc_comments[i + 1] /\ t = Trimmed(a)
  OBVIOUS
<1>2. /\ i + 1 \in 1 .. Len(doc_comments)
      /\ a \in DocAttr /\ a.before >= 3
      /\ a.lo <= t.lo /\ t.hi <= AttrEnd(a)
      /\ final_spans \in Seq(SpanType)
      /\ \/ t.lo = t.hi /\ final_spans' = final_spans
         \/ t \in SpanType /\ final_spans' = Append(final_spans, t)
  BY <1>1, TrimStep
<1>3. /\ input \in Inputs /\ i \in Nat /\ line_start_char_no \in Nat
      /\ stage = "trim" /\ stage' = stage /\ merged' = merged /\ merged = << >>
      /\ input' = input /\ doc_comments' = doc_comments
      /\ i' = i + 1 /\ line_start_char_no' = line_start_char_no + a.len + 1
      /\ line_start_char_no = a.offset
      /\ \A j \in DOMAIN final_spans : final_spans[j].hi < a.lo
  BY <1>1 DEF SpanInv, StateInv, TrimInv, Trim, doc_comments
<1>4. /\ a.lo \in Nat /\ a.len \in Nat /\ a.offset \in Nat /\ AttrEnd(a) \in Nat
      /\ a.lo <= AttrEnd(a) /\ Len(doc_comments) \in Nat
  BY <1>2, <1>3, Attribute, InputIs
<1>5. StateInv'
  <2>1. final_spans' \in Seq(SpanType)
    BY <1>2
  <2> QED BY <1>3, <1>4, <2>1 DEF StateInv, Stages
<1>6. \A j \in DOMAIN final_spans' : final_spans'[j].hi <= AttrEnd(a)
  <2>1. \A j \in DOMAIN final_spans : final_spans[j] \in SpanType
    BY <1>2
  <2>2. \A j \in DOMAIN final_spans : final_spans[j].hi <= AttrEnd(a)
    BY <1>3, <1>4, <2>1 DEF SpanType
  <2> QED BY <1>2, <2>2
<1>7. TrimInv'
  <2>1. i + 1 < Len(doc_comments) =>
           /\ AttrEnd(a) < doc_comments[i + 2].lo
           /\ doc_comments[i + 2].offset = a.offset + a.len + 1
           /\ doc_comments[i + 2].lo \in Nat
    <3>1. SUFFICES ASSUME i + 1 < Len(doc_comments)
                   PROVE  /\ AttrEnd(a) < doc_comments[i + 2].lo
                          /\ doc_comments[i + 2].offset = a.offset + a.len + 1
                          /\ doc_comments[i + 2].lo \in Nat
      OBVIOUS
    <3>2. i + 1 \in 1 .. Len(doc_comments) - 1 /\ i + 2 \in 1 .. Len(doc_comments) /\ (i + 1) + 1 = i + 2
      BY <1>3, <1>4, <3>1
    <3>3. doc_comments[i + 2] \in DocAttr
      BY <1>3, <3>2, InputIs
    <3> QED BY <1>1, <1>3, <3>2, <3>3, InputIs, Attribute
  <2>2. \A j \in DOMAIN final_spans' : final_spans'[j].hi \in Nat
    <3>1. final_spans' \in Seq(SpanType)
      BY <1>2
    <3>2. \A j \in DOMAIN final_spans' : final_spans'[j] \in SpanType
      BY <3>1
    <3> QED BY <3>2 DEF SpanType
  <2>3. i + 1 < Len(doc_comments) =>
           \A j \in DOMAIN final_spans' : final_spans'[j].hi < doc_comments[i + 2].lo
    BY <1>4, <1>6, <2>1, <2>2
  <2>4. i' + 1 = i + 2 /\ i' <= Len(doc_comments)
    BY <1>2, <1>3, <1>4
  <2> QED BY <1>3, <2>1, <2>3, <2>4 DEF TrimInv
<1>8. ApartInv'
  <2>1. ApartInv
    BY DEF SpanInv
  <2>2. CASE final_spans' = final_spans
    BY <2>1, <2>2 DEF ApartInv
  <2>3. CASE t \in SpanType /\ final_spans' = Append(final_spans, t)
    <3>1. \A j \in DOMAIN final_spans : final_spans[j] \in SpanType
      BY <1>2
    <3>2. \A j \in DOMAIN final_spans : final_spans[j].hi < t.lo
      BY <1>2, <1>3, <1>4, <2>3, <3>1 DEF SpanType
    <3> QED BY <1>2, <2>1, <2>3, <3>2 DEF ApartInv
  <2> QED BY <1>2, <2>2, <2>3
<1>9. MergeInv'
  BY <1>3 DEF MergeInv
<1> QED BY <1>5, <1>7, <1>8, <1>9 DEF SpanInv

LEMMA MergeKeepsInv == ASSUME SpanInv, Merge PROVE SpanInv'
<1>1. /\ input \in Inputs /\ i \in Nat /\ line_start_char_no \in Nat
      /\ final_spans \in Seq(SpanType) /\ merged \in Seq(SpanType)
      /\ stage = "merge" /\ stage' = stage /\ i' = i + 1
      /\ UNCHANGED <<input, line_start_char_no, final_spans>>
      /\ i + 1 \in 1 .. Len(final_spans)
  BY DEF SpanInv, StateInv, Merge
<1>2. PICK span, n : span = final_spans[i + 1] /\ n = Len(merged)
  OBVIOUS
<1>3. /\ span \in SpanType /\ n \in Nat
      /\ merged' = IF n > 0 /\ Adjacent(merged[n], span)
                      THEN [merged EXCEPT ![n] = Span(@.lo, span.hi)]
                      ELSE Append(merged, span)
  BY <1>1, <1>2 DEF Merge
<1>4. /\ n > 0 => i > 0
      /\ n > 0 => merged[n].hi = final_spans[i].hi
      /\ \A k \in 1 .. n - 1 : merged[k].hi + 1 < merged[k + 1].lo
  BY <1>1, <1>2 DEF SpanInv, MergeInv
<1>5. n > 0 => merged[n] \in SpanType /\ merged[n].hi < span.lo
  BY <1>1, <1>2, <1>3, <1>4 DEF SpanInv, ApartInv, SpanType
<1>6. CASE n > 0 /\ Adjacent(merged[n], span)
  <2>1. PICK new : new = Span(merged[n].lo, span.hi)
    OBVIOUS
  <2>2. new \in SpanType /\ new.lo = merged[n].lo /\ new.hi = span.hi
    <3>1. /\ merged[n].lo \in Nat /\ span.hi \in Nat /\ merged[n].lo <= span.hi
          /\ merged[n].lo < span.hi
      BY <1>3, <1>5, <1>6 DEF SpanType
    <3>2. new = [lo |-> merged[n].lo, hi |-> span.hi]
      BY <2>1, <3>1 DEF Span
    <3> QED BY <3>1, <3>2 DEF SpanType
  <2>3. merged' = [merged EXCEPT ![n] = new]
    BY <1>3, <1>6, <2>1
  <2>4. merged' \in Seq(SpanType) /\ Len(merged') = n /\ merged'[n] = new
        /\ \A k \in 1 .. n - 1 : merged'[k] = merged[k]
    BY <1>1, <1>2, <1>3, <1>6, <2>2, <2>3
  <2>5. \A k \in 1 .. n - 1 : merged'[k].hi + 1 < merged'[k + 1].lo
    BY <1>3, <1>4, <2>2, <2>4
  <2>6. StateInv'
    BY <1>1, <2>4 DEF StateInv, Stages
  <2>7. MergeInv'
    BY <1>1, <1>2, <1>3, <1>6, <2>2, <2>4, <2>5 DEF MergeInv
  <2> QED BY <1>1, <2>6, <2>7 DEF SpanInv, TrimInv, ApartInv
<1>7. CASE ~(n > 0 /\ Adjacent(merged[n], span))
  <2>1. merged' = Append(merged, span)
    BY <1>3, <1>7
  <2>2. merged' \in Seq(SpanType) /\ Len(merged') = n + 1 /\ merged'[n + 1] = span
        /\ \A k \in 1 .. n : merged'[k] = merged[k]
    BY <1>1, <1>2, <1>3, <2>1
  <2>3. n > 0 => merged[n].hi + 1 < span.lo
    <3>1. SUFFICES ASSUME n > 0 PROVE merged[n].hi + 1 < span.lo
      OBVIOUS
    <3>2. merged[n].hi \in Nat /\ span.lo \in Nat /\ merged[n].hi < span.lo
      BY <1>3, <1>5, <3>1 DEF SpanType
    <3>3. merged[n].hi + 1 # span.lo
      BY <1>7, <3>1 DEF Adjacent
    <3> QED BY <3>2, <3>3
  <2>4. \A k \in 1 .. n : merged'[k].hi + 1 < merged'[k + 1].lo
    <3> SUFFICES ASSUME NEW k \in 1 .. n
                 PROVE  merged'[k].hi + 1 < merged'[k + 1].lo
      OBVIOUS
    <3>1. CASE k = n
      BY <2>2, <2>3, <3>1, <1>3
    <3>2. CASE k # n
      <4>1. k \in 1 .. n - 1 /\ k + 1 \in 1 .. n
        BY <1>3, <3>2
      <4> QED BY <1>4, <2>2, <4>1
    <3> QED BY <3>1, <3>2
  <2>5. StateInv'
    BY <1>1, <2>2 DEF StateInv, Stages
  <2>6. MergeInv'
    <3>1. merged' # << >> /\ merged'[Len(merged')].hi = final_spans'[i'].hi
      BY <1>1, <1>2, <1>3, <2>2
    <3>2. Len(merged') - 1 = n /\ i' <= Len(final_spans') /\ ~(i' = 0)
      BY <1>1, <1>3, <2>2
    <3>3. stage' = "merge"
      BY <1>1
    <3> QED BY <2>4, <3>1, <3>2, <3>3 DEF MergeInv
  <2> QED BY <1>1, <2>5, <2>6 DEF SpanInv, TrimInv, ApartInv
<1> QED BY <1>6, <1>7

LEMMA SpanInvNext == ASSUME SpanInv, [SpanNext]_spanVars PROVE SpanInv'
<1>1. CASE StartMerge
  <2>1. StateInv'
    BY <1>1 DEF SpanInv, StateInv, StartMerge, Stages
  <2>2. MergeInv'
    BY <1>1 DEF SpanInv, StateInv, TrimInv, MergeInv, StartMerge
  <2> QED BY <1>1, <2>1, <2>2 DEF SpanInv, TrimInv, ApartInv, StartMerge
<1>2. CASE Return
  <2>1. StateInv' /\ stage' # "trim"
    BY <1>2 DEF SpanInv, StateInv, Return, Stages
  <2>2. MergeInv'
    BY <1>2 DEF SpanInv, MergeInv, Return
  <2> QED BY <1>2, <2>1, <2>2 DEF SpanInv, TrimInv, ApartInv, Return
<1>3. CASE UNCHANGED spanVars
  BY <1>3 DEF SpanInv, StateInv, TrimInv, ApartInv, MergeInv, spanVars, doc_comments
<1> QED BY <1>1, <1>2, <1>3, TrimKeepsInv, MergeKeepsInv DEF SpanNext

LEMMA SpanInvAlways == SpanSpec => []SpanInv
<1> QED BY SpanInvInit, SpanInvNext, PTL DEF SpanSpec

\* Every span has a byte in it, whatever the attributes and the range: the
\* bounds passed to with_lo and with_hi never cross (span.rs:14).
THEOREM SpanTypeCorrect == SpanSpec => []SpanTypeOK
<1>1. SpanInv => SpanTypeOK
  <2> SUFFICES ASSUME SpanInv PROVE SpanTypeOK
    OBVIOUS
  <2>1. /\ input \in Inputs /\ i \in Nat /\ line_start_char_no \in Nat
        /\ final_spans \in Seq(SpanType) /\ merged \in Seq(SpanType) /\ stage \in Stages
    BY DEF SpanInv, StateInv
  <2>2. \A s \in {final_spans[k] : k \in DOMAIN final_spans}
                 \cup {merged[k] : k \in DOMAIN merged} : s \in SpanType
    BY <2>1
  <2>3. IsInput(input)
    BY <2>1, SpanAssumption
  <2> QED BY <2>1, <2>2, <2>3 DEF SpanTypeOK, SpanType, Stages
<1> QED BY <1>1, SpanInvAlways, PTL

\* The spans returned are in the order of the text, apart, and no two of them
\* could still be merged: the callers' second merge_adjacent changes nothing
\* (span.rs:97).
THEOREM SpansAreMerged == SpanSpec => []SpansMerged
<1>1. SpanInv => SpansMerged
  BY DEF SpanInv, MergeInv, SpansMerged
<1> QED BY <1>1, SpanInvAlways, PTL
-----------------------------------------------------------------------------
(* The spans hold what was asked for.                                      *)

Plain(w) == ~BlankBefore(w) /\ ~BlockBefore(w) /\ IsComment(w)

\* The range has a character of this attribute in it, and the part of the
\* attribute that stands for those.
Touches(a) ==
    /\ a.len > 0
    /\ chars.start < a.offset + a.len /\ a.offset < chars.end

Piece(a) ==
    [lo |-> IF chars.start <= a.offset THEN a.lo ELSE a.lo + 3 + (chars.start - a.offset),
     hi |-> a.lo + 3 + Least(chars.end - a.offset, a.len)]

LEMMA TrimmedExact ==
    ASSUME NEW a \in DocAttr, a.before = 3, chars \in Chars, chars.start < chars.end,
           line_start_char_no = a.offset,
           a.len = 0 => chars.start <= a.offset,
           a.after > 0 => chars.start < a.offset + a.len
    PROVE  /\ Touches(a) => Trimmed(a) = Piece(a) /\ Trimmed(a).lo < Trimmed(a).hi
           /\ ~Touches(a) => Trimmed(a).lo = Trimmed(a).hi
<1>1. PICK lo, hi, S, E : /\ S = WantedStart(a) /\ E = WantedEnd(a)
                          /\ lo = BytePos(a, S) /\ hi = BytePos(a, E)
  OBVIOUS
<1>2. /\ a.lo \in Nat /\ a.len \in Nat /\ a.after \in Nat /\ a.offset \in Nat
      /\ AttrEnd(a) = a.lo + 3 + a.len + a.after /\ AttrEnd(a) \in Nat
      /\ chars.start \in Nat /\ chars.end \in Nat
  BY Attribute DEF AttrEnd, Chars
<1>3. /\ S = (IF chars.start < a.offset THEN 0 ELSE chars.start - a.offset)
      /\ E = (IF chars.end < a.offset THEN 0
              ELSE IF chars.end - a.offset < a.len THEN chars.end - a.offset ELSE a.len)
      /\ lo = (IF S = 0 THEN a.lo ELSE a.lo + S + 3)
      /\ hi = (IF E = 0 THEN a.lo ELSE a.lo + E + 3)
  BY <1>1, <1>2, Positions
<1>4. /\ lo \in Nat /\ hi \in Nat
      /\ hi = AttrEnd(a) /\ lo <= hi => Trimmed(a) = Span(lo, hi)
      /\ lo <= AttrEnd(a) /\ hi < AttrEnd(a) => Trimmed(a) = Span(lo, hi)
      /\ lo > AttrEnd(a) => Trimmed(a) = Span(AttrEnd(a), hi)
  BY <1>1, <1>2, TrimmedIs
<1>5. CASE Touches(a)
  <2>1. /\ a.len > 0 /\ chars.start < a.offset + a.len /\ a.offset < chars.end
    BY <1>5 DEF Touches
  <2>2. /\ lo < hi /\ hi <= AttrEnd(a)
        /\ lo = (IF chars.start <= a.offset THEN a.lo ELSE a.lo + 3 + (chars.start - a.offset))
    BY <1>2, <1>3, <2>1
  <2>3. hi = a.lo + 3 + Least(chars.end - a.offset, a.len)
    BY <1>2, <1>3, <2>1 DEF Least
  <2>4. Trimmed(a) = Span(lo, hi)
    BY <1>2, <1>4, <2>2
  <2>5. Span(lo, hi) = [lo |-> lo, hi |-> hi]
    BY <1>4, <2>2 DEF Span
  <2> QED BY <1>5, <2>2, <2>3, <2>4, <2>5 DEF Piece
<1>6. CASE ~Touches(a)
  <2>1. \/ a.len = 0
        \/ a.len > 0 /\ chars.start >= a.offset + a.len
        \/ a.offset >= chars.end
    BY <1>2, <1>6 DEF Touches
  <2>2. CASE a.len = 0 \/ a.offset >= chars.end
    <3>1. lo = a.lo /\ hi = a.lo
      BY <1>2, <1>3, <2>2
    <3>2. Trimmed(a) = Span(lo, hi)
      BY <1>2, <1>4, <3>1
    <3>3. Span(lo, hi).lo = Span(lo, hi).hi
      BY <3>1 DEF Span
    <3> QED BY <1>6, <3>2, <3>3
  <2>3. CASE a.len > 0 /\ chars.start >= a.offset + a.len
    <3>1. hi = AttrEnd(a) /\ lo >= AttrEnd(a)
      BY <1>2, <1>3, <2>3
    <3>2. CASE lo = AttrEnd(a)
      <4>1. Trimmed(a) = Span(lo, hi)
        BY <1>2, <1>4, <3>1, <3>2
      <4>2. Span(lo, hi).lo = Span(lo, hi).hi
        BY <3>1, <3>2 DEF Span
      <4> QED BY <1>6, <4>1, <4>2
    <3>3. CASE lo > AttrEnd(a)
      <4>1. Trimmed(a) = Span(AttrEnd(a), hi)
        BY <1>4, <3>3
      <4>2. Span(AttrEnd(a), hi).lo = Span(AttrEnd(a), hi).hi
        BY <3>1 DEF Span
      <4> QED BY <1>6, <4>1, <4>2
    <3> QED BY <1>2, <1>4, <3>1, <3>2, <3>3
  <2> QED BY <2>1, <2>2, <2>3
<1> QED BY <1>5, <1>6

\* The wanted bytes of N characters, whose bytes begin at T and whose first is
\* character O of the doc string, for the range from st to en.
LEMMA WantedInterval ==
    ASSUME NEW T \in Nat, NEW N \in Nat, NEW O \in Nat, NEW st \in Nat, NEW en \in Nat,
           NEW W, W = {T + c : c \in {c \in 0 .. N - 1 : O + c \in st .. en - 1}}
    PROVE  \A b \in Int : b \in W <=> /\ T <= b /\ b < T + N
                                     /\ st - O <= b - T /\ b - T < en - O
<1> SUFFICES ASSUME NEW b \in Int
             PROVE  b \in W <=> /\ T <= b /\ b < T + N
                              /\ st - O <= b - T /\ b - T < en - O
  OBVIOUS
<1>1. b \in W <=> \E c \in 0 .. N - 1 : O + c \in st .. en - 1 /\ b = T + c
  OBVIOUS
<1>2. ASSUME NEW c \in 0 .. N - 1, O + c \in st .. en - 1, b = T + c
      PROVE  /\ T <= b /\ b < T + N
             /\ st - O <= b - T /\ b - T < en - O
  BY <1>2
<1>3. ASSUME T <= b, b < T + N, st - O <= b - T, b - T < en - O
      PROVE  \E c \in 0 .. N - 1 : O + c \in st .. en - 1 /\ b = T + c
  <2>1. PICK c \in Int : c = b - T
    OBVIOUS
  <2>2. c \in 0 .. N - 1 /\ O + c \in st .. en - 1 /\ b = T + c
    BY <1>3, <2>1
  <2> QED BY <2>2
<1> QED BY <1>1, <1>2, <1>3

\* The part of an attribute holds the bytes of its wanted characters, and the
\* slashes if the first of them is wanted.
LEMMA PieceExact ==
    ASSUME input \in Inputs, Plain(input), NEW k \in 1 .. Len(doc_comments)
    PROVE  WantedBytes(k) \cup PrefixBytes(k) =
              IF Touches(doc_comments[k]) THEN Bytes(Piece(doc_comments[k])) ELSE {}
<1>1. PICK a, L, N, O, st, en :
          /\ a = doc_comments[k] /\ L = a.lo /\ N = a.len /\ O = a.offset
          /\ st = chars.start /\ en = chars.end
  OBVIOUS
<1>2. /\ a \in DocAttr /\ a.before = 3
      /\ st \in Nat /\ en \in Nat /\ st < en
  BY <1>1, InputIs DEF Plain, IsComment, doc_comments, DOC_COMMENT_PREFIX_LEN
<1>3. L \in Nat /\ N \in Nat /\ O \in Nat
  BY <1>1, <1>2, Attribute
<1>4. PICK W, P, T : W = WantedBytes(k) /\ P = PrefixBytes(k) /\ T = L + 3
  OBVIOUS
<1>5. W = {T + c : c \in {c \in 0 .. N - 1 : O + c \in st .. en - 1}}
  BY <1>1, <1>2, <1>4 DEF WantedBytes
<1>6. \A b \in Int : b \in W <=> /\ T <= b /\ b < T + N
                               /\ st - O <= b - T /\ b - T < en - O
  <2>1. T \in Nat
    BY <1>3, <1>4
  <2> QED BY <1>2, <1>3, <1>5, <2>1, WantedInterval
<1>7. W \subseteq Int
  BY <1>3, <1>4, <1>5
<1>8. P = IF T \in W THEN L .. T - 1 ELSE {}
  <2>1. PICK n : n = a.before
    OBVIOUS
  <2>2. P = IF (L + n) \in W THEN L .. ((L + n) - 1) ELSE {}
    BY <1>1, <1>2, <1>3, <1>4, <2>1 DEF PrefixBytes
  <2>3. L + n = T
    BY <1>2, <1>4, <2>1
  <2> QED BY <2>2, <2>3
<1>9. T \in W <=> N > 0 /\ st <= O /\ O < en
  BY <1>2, <1>3, <1>4, <1>6
<1>10. CASE Touches(a)
  <2>1. N > 0 /\ st < O + N /\ O < en
    BY <1>1, <1>10 DEF Touches
  <2>2. PICK lo, hi :
           /\ lo = (IF st <= O THEN L ELSE L + 3 + (st - O))
           /\ hi = L + 3 + (IF en - O < N THEN en - O ELSE N)
    OBVIOUS
  <2>3. Piece(a) = [lo |-> lo, hi |-> hi]
    BY <1>1, <2>2 DEF Piece, Least
  <2>4. Bytes(Piece(a)) = lo .. hi - 1
    BY <2>3 DEF Bytes
  <2>5. lo \in Int /\ hi \in Int
    BY <1>2, <1>3, <2>2
  <2>6. ASSUME NEW b \in Int PROVE b \in W \cup P <=> lo <= b /\ b < hi
    <3>1. CASE st <= O
      <4>1. P = L .. T - 1
        BY <1>8, <1>9, <2>1, <3>1
      <4>2. b \in W <=> T <= b /\ b < hi
        BY <1>2, <1>3, <1>4, <1>6, <2>2, <3>1
      <4>3. b \in P <=> lo <= b /\ b < T
        BY <1>3, <1>4, <2>2, <3>1, <4>1
      <4>4. T <= hi /\ lo <= T /\ T \in Int
        BY <1>2, <1>3, <1>4, <2>1, <2>2, <3>1
      <4> QED BY <2>5, <4>2, <4>3, <4>4
    <3>2. CASE ~(st <= O)
      <4>1. P = {}
        BY <1>8, <1>9, <3>2
      <4>2. b \in W <=> lo <= b /\ b < hi
        BY <1>2, <1>3, <1>4, <1>6, <2>2, <3>2
      <4> QED BY <4>1, <4>2
    <3> QED BY <3>1, <3>2
  <2>7. W \cup P \subseteq Int
    BY <1>3, <1>4, <1>7, <1>8
  <2>8. \A b : b \in W \cup P <=> b \in lo .. hi - 1
    BY <2>5, <2>6, <2>7
  <2>9. W \cup P = lo .. hi - 1
    BY <2>8
  <2> QED BY <1>1, <1>4, <1>10, <2>4, <2>9
<1>11. CASE ~Touches(a)
  <2>1. N = 0 \/ st >= O + N \/ O >= en
    BY <1>1, <1>2, <1>3, <1>11 DEF Touches
  <2>2. \A b \in Int : b \notin W
    BY <1>2, <1>3, <1>4, <1>6, <2>1
  <2>3. W = {}
    BY <1>7, <2>2
  <2>4. P = {}
    BY <1>8, <2>3
  <2> QED BY <1>1, <1>4, <1>11, <2>3, <2>4
<1> QED BY <1>10, <1>11

\* The attributes done, and the bytes of the first n spans and of a sequence.
Done      == IF stage = "trim" THEN i ELSE Len(doc_comments)
FirstBytes(n) == UNION {Bytes(final_spans[j]) : j \in 1 .. n}
Covered(spans) == UNION {Bytes(spans[k]) : k \in DOMAIN spans}

PiecesInv ==
    /\ \A j \in DOMAIN final_spans :
          \E k \in 1 .. Done : Touches(doc_comments[k]) /\ final_spans[j] = Piece(doc_comments[k])
    /\ \A k \in 1 .. Done :
          Touches(doc_comments[k]) =>
              \E j \in DOMAIN final_spans : final_spans[j] = Piece(doc_comments[k])

\* Only the first span can begin in the middle of its attribute, so the byte
\* before any other is a newline.
JoinInv ==
    /\ \A j \in 2 .. Len(final_spans) : final_spans[j].lo - 1 \in Newlines
    /\ stage = "trim" /\ final_spans # << >> => i > 0 /\ chars.start < line_start_char_no

ResultInv ==
    stage # "trim" => /\ FirstBytes(i) \subseteq Covered(merged)
                      /\ Covered(merged) \subseteq FirstBytes(i) \cup Newlines

ExactInv == Plain(input) => PiecesInv /\ JoinInv /\ ResultInv

LEMMA CoveredAppend ==
    ASSUME NEW s \in Seq(SpanType), NEW t \in SpanType
    PROVE  Covered(Append(s, t)) = Covered(s) \cup Bytes(t)
<1>1. PICK u : u = Append(s, t)
  OBVIOUS
<1>2. /\ Len(s) \in Nat /\ DOMAIN s = 1 .. Len(s) /\ DOMAIN u = 1 .. Len(s) + 1
      /\ u[Len(s) + 1] = t /\ \A k \in 1 .. Len(s) : u[k] = s[k]
  BY <1>1
<1>3. \A b : b \in Covered(u) <=> \E k \in 1 .. Len(s) + 1 : b \in Bytes(u[k])
  BY <1>2 DEF Covered
<1>4. \A b : b \in Covered(s) <=> \E k \in 1 .. Len(s) : b \in Bytes(s[k])
  BY <1>2 DEF Covered
<1>5. \A k : k \in 1 .. Len(s) + 1 <=> k \in 1 .. Len(s) \/ k = Len(s) + 1
  BY <1>2
<1>6. ASSUME NEW b PROVE b \in Covered(u) <=> b \in Covered(s) \/ b \in Bytes(t)
  BY <1>2, <1>3, <1>4, <1>5
<1> QED BY <1>1, <1>6

LEMMA CoveredExtend ==
    ASSUME NEW s \in Seq(SpanType), NEW t \in SpanType, s # << >>,
           s[Len(s)].hi + 1 = t.lo,
           NEW new \in SpanType, new.lo = s[Len(s)].lo, new.hi = t.hi
    PROVE  Covered([s EXCEPT ![Len(s)] = new]) = Covered(s) \cup {t.lo - 1} \cup Bytes(t)
<1>1. PICK u, n, last : u = [s EXCEPT ![Len(s)] = new] /\ n = Len(s) /\ last = s[n]
  OBVIOUS
<1>2. /\ n \in Nat /\ n \in 1 .. n /\ DOMAIN s = 1 .. n /\ DOMAIN u = 1 .. n
      /\ u[n] = new /\ \A k \in 1 .. n : k # n => u[k] = s[k]
      /\ last \in SpanType
  BY <1>1
<1>3. \A b : b \in Covered(u) <=> \E k \in 1 .. n : b \in Bytes(u[k])
  BY <1>2 DEF Covered
<1>4. \A b : b \in Covered(s) <=> \E k \in 1 .. n : b \in Bytes(s[k])
  BY <1>2 DEF Covered
<1>5. \A b : b \in Bytes(new) <=> b \in Bytes(last) \/ b = t.lo - 1 \/ b \in Bytes(t)
  <2>1. PICK l, m, p, q : /\ l = last.lo /\ m = last.hi /\ p = t.lo /\ q = t.hi
    OBVIOUS
  <2>2. /\ l \in Nat /\ m \in Nat /\ p \in Nat /\ q \in Nat
        /\ l < m /\ m + 1 = p /\ p < q
    BY <1>1, <1>2, <2>1 DEF SpanType
  <2>3. Bytes(new) = l .. q - 1 /\ Bytes(last) = l .. m - 1 /\ Bytes(t) = p .. q - 1
    BY <1>1, <2>1 DEF Bytes
  <2> QED BY <2>1, <2>2, <2>3
<1>6. ASSUME NEW b
      PROVE  b \in Covered(u) <=> b \in Covered(s) \/ b = t.lo - 1 \/ b \in Bytes(t)
  BY <1>1, <1>2, <1>3, <1>4, <1>5
<1> QED BY <1>1, <1>6

LEMMA ExactInvInit == ASSUME SpanInit PROVE ExactInv
BY DEF SpanInit, ExactInv, PiecesInv, JoinInv, ResultInv, Done

LEMMA TrimKeepsExact == ASSUME SpanInv, ExactInv, Trim PROVE ExactInv'
<1> SUFFICES ASSUME Plain(input)', input' = input
             PROVE  PiecesInv' /\ JoinInv' /\ ResultInv'
  BY DEF ExactInv, Trim
<1>0. Plain(input) /\ PiecesInv /\ JoinInv
  BY DEF ExactInv
<1>1. PICK a, t : a = doc_comments[i + 1] /\ t = Trimmed(a)
  OBVIOUS
<1>2. /\ i + 1 \in 1 .. Len(doc_comments) /\ a \in DocAttr
      /\ final_spans \in Seq(SpanType)
      /\ \/ t.lo = t.hi /\ final_spans' = final_spans
         \/ t \in SpanType /\ final_spans' = Append(final_spans, t)
  BY <1>1, TrimStep
<1>3. /\ input \in Inputs /\ i \in Nat /\ line_start_char_no \in Nat
      /\ stage = "trim" /\ stage' = "trim"
      /\ doc_comments' = doc_comments /\ chars' = chars
      /\ i' = i + 1 /\ line_start_char_no' = line_start_char_no + a.len + 1
      /\ line_start_char_no = a.offset
      /\ final_spans' = IF t.lo = t.hi THEN final_spans ELSE Append(final_spans, t)
  BY <1>1 DEF SpanInv, StateInv, TrimInv, Trim, doc_comments, chars
<1>4. /\ a.before = 3
      /\ a.len = 0 => chars.start <= a.offset
      /\ a.after > 0 => chars.start < a.offset + a.len
      /\ chars.start \in Nat /\ chars.end \in Nat /\ chars.start < chars.end /\ chars \in Chars
      /\ a.lo \in Nat /\ a.len \in Nat /\ a.offset \in Nat
  <2>1. /\ chars.start \in Nat /\ chars.end \in Nat /\ chars.start < chars.end /\ chars \in Chars
        /\ a.lo \in Nat /\ a.len \in Nat /\ a.offset \in Nat
    BY <1>2, <1>3, InputIs, Attribute
  <2>2. i + 1 \in DOMAIN doc_comments
    BY <1>2, <1>3, InputIs
  <2>3. a.before = 3
    BY <1>0, <1>1, <2>2 DEF Plain, IsComment, doc_comments, DOC_COMMENT_PREFIX_LEN
  <2>4. ~(a.len = 0 /\ a.offset < chars.start)
    BY <1>0, <1>1, <2>2 DEF Plain, BlankBefore, doc_comments, chars
  <2>5. ~(a.after > 0 /\ a.offset + a.len <= chars.start)
    BY <1>0, <1>1, <2>2 DEF Plain, BlockBefore, doc_comments, chars
  <2> QED BY <2>1, <2>3, <2>4, <2>5
<1>5. /\ Touches(a) => t = Piece(a) /\ t.lo < t.hi
      /\ ~Touches(a) => t.lo = t.hi
  BY <1>1, <1>2, <1>3, <1>4, TrimmedExact
<1>6. /\ Touches(a) => t = Piece(a) /\ t \in SpanType /\ final_spans' = Append(final_spans, t)
      /\ ~Touches(a) => final_spans' = final_spans
  <2>1. Touches(a) => t.lo # t.hi
    <3>1. Touches(a) => t.lo < t.hi /\ t.hi \in Int
      BY <1>4, <1>5 DEF Piece, Least
    <3> QED BY <3>1
  <2> QED BY <1>2, <1>3, <1>5, <2>1
<1>7. \A k \in 1 .. Len(doc_comments) :
         /\ Touches(doc_comments[k])' <=> Touches(doc_comments[k])
         /\ Piece(doc_comments[k])' = Piece(doc_comments[k])
  BY <1>3 DEF Touches, Piece
<1>8. Done = i /\ Done' = i + 1 /\ \A k : k \in 1 .. i + 1 <=> k \in 1 .. i \/ k = i + 1
  BY <1>3 DEF Done
<1>9. DOMAIN final_spans \subseteq DOMAIN final_spans'
      /\ \A j \in DOMAIN final_spans : final_spans'[j] = final_spans[j]
  BY <1>2
<1>10. PiecesInv'
  <2>1. \A j \in DOMAIN final_spans' :
           \E k \in 1 .. i + 1 : Touches(doc_comments[k]) /\ final_spans'[j] = Piece(doc_comments[k])
    <3> SUFFICES ASSUME NEW j \in DOMAIN final_spans'
                 PROVE  \E k \in 1 .. i + 1 :
                           Touches(doc_comments[k]) /\ final_spans'[j] = Piece(doc_comments[k])
      OBVIOUS
    <3>1. CASE j \in DOMAIN final_spans
      <4>1. PICK k \in 1 .. i : Touches(doc_comments[k]) /\ final_spans[j] = Piece(doc_comments[k])
        BY <1>0, <1>8, <3>1 DEF PiecesInv
      <4> QED BY <1>8, <1>9, <3>1, <4>1
    <3>2. CASE j \notin DOMAIN final_spans
      <4>1. Touches(a) /\ j = Len(final_spans) + 1 /\ final_spans'[j] = t
        BY <1>2, <1>6, <3>2
      <4>2. i + 1 \in 1 .. i + 1 /\ final_spans'[j] = Piece(doc_comments[i + 1])
            /\ Touches(doc_comments[i + 1])
        BY <1>1, <1>6, <1>8, <4>1
      <4> QED BY <4>2
    <3> QED BY <3>1, <3>2
  <2>2. \A k \in 1 .. i + 1 :
           Touches(doc_comments[k]) =>
              \E j \in DOMAIN final_spans' : final_spans'[j] = Piece(doc_comments[k])
    <3> SUFFICES ASSUME NEW k \in 1 .. i + 1, Touches(doc_comments[k])
                 PROVE  \E j \in DOMAIN final_spans' : final_spans'[j] = Piece(doc_comments[k])
      OBVIOUS
    <3>1. CASE k \in 1 .. i
      BY <1>0, <1>8, <1>9, <3>1 DEF PiecesInv
    <3>2. CASE k = i + 1
      <4>1. Touches(a) /\ final_spans' = Append(final_spans, t) /\ t = Piece(doc_comments[k])
        BY <1>1, <1>6, <3>2
      <4>2. Len(final_spans) + 1 \in DOMAIN final_spans' /\ final_spans'[Len(final_spans) + 1] = t
        BY <1>2, <4>1
      <4> QED BY <4>1, <4>2
    <3> QED BY <1>8, <3>1, <3>2
  <2>3. \A k \in 1 .. i + 1 : k \in 1 .. Len(doc_comments)
    BY <1>2, <1>3, InputIs
  <2> QED BY <1>3, <1>7, <1>8, <2>1, <2>2, <2>3 DEF PiecesInv
<1>11. JoinInv'
  <2>1. Newlines' = Newlines
    BY <1>3 DEF Newlines
  <2>2. final_spans # << >> => i > 0 /\ chars.start < a.offset
    BY <1>0, <1>3 DEF JoinInv
  <2>3. \A j \in 2 .. Len(final_spans) : final_spans[j].lo - 1 \in Newlines
    BY <1>0 DEF JoinInv
  <2>4. Touches(a) /\ final_spans # << >> => t.lo - 1 \in Newlines
    <3> SUFFICES ASSUME Touches(a), final_spans # << >>
                 PROVE  t.lo - 1 \in Newlines
      OBVIOUS
    <3>1. t.lo = a.lo
      BY <1>4, <1>6, <2>2 DEF Piece
    <3>2. i + 1 \in 2 .. Len(doc_comments)
      BY <1>2, <1>3, <2>2, InputIs
    <3> QED BY <1>1, <3>1, <3>2 DEF Newlines
  <2>5. ASSUME NEW j \in 2 .. Len(final_spans')
        PROVE  final_spans'[j].lo - 1 \in Newlines
    <3>1. CASE j \in 2 .. Len(final_spans)
      <4>1. final_spans'[j] = final_spans[j]
        BY <1>2, <1>9, <3>1
      <4> QED BY <2>3, <3>1, <4>1
    <3>2. CASE j \notin 2 .. Len(final_spans)
      <4>1. final_spans' = Append(final_spans, t) /\ Touches(a)
        BY <1>6, <3>2
      <4>2. j = Len(final_spans) + 1 /\ final_spans # << >> /\ final_spans'[j] = t
        BY <1>2, <3>2, <4>1
      <4> QED BY <2>4, <4>1, <4>2
    <3> QED BY <3>1, <3>2
  <2>6. final_spans' # << >> => i + 1 > 0 /\ chars.start < a.offset + a.len + 1
    <3>1. Touches(a) => chars.start < a.offset + a.len
      BY DEF Touches
    <3> QED BY <1>3, <1>4, <1>6, <2>2, <3>1
  <2> QED BY <1>3, <2>1, <2>5, <2>6 DEF JoinInv
<1>12. ResultInv'
  BY <1>3 DEF ResultInv
<1> QED BY <1>10, <1>11, <1>12

LEMMA MergeKeepsExact == ASSUME SpanInv, ExactInv, Merge PROVE ExactInv'
<1> SUFFICES ASSUME Plain(input), input' = input
             PROVE  PiecesInv' /\ JoinInv' /\ ResultInv'
  BY DEF ExactInv, Merge
<1>1. /\ i \in Nat /\ final_spans \in Seq(SpanType) /\ merged \in Seq(SpanType)
      /\ stage = "merge" /\ stage' = stage /\ i' = i + 1 /\ i + 1 \in 1 .. Len(final_spans)
      /\ UNCHANGED <<line_start_char_no, final_spans>>
      /\ PiecesInv /\ JoinInv /\ ResultInv
  BY DEF SpanInv, StateInv, Merge, ExactInv
<1>2. PICK span, n : span = final_spans[i + 1] /\ n = Len(merged)
  OBVIOUS
<1>3. /\ span \in SpanType /\ n \in Nat
      /\ merged' = IF n > 0 /\ Adjacent(merged[n], span)
                      THEN [merged EXCEPT ![n] = Span(@.lo, span.hi)]
                      ELSE Append(merged, span)
  BY <1>1, <1>2 DEF Merge
<1>4. PiecesInv' /\ JoinInv'
  <2>1. doc_comments' = doc_comments /\ chars' = chars
    BY DEF doc_comments, chars
  <2> QED BY <1>1, <2>1 DEF PiecesInv, JoinInv, Done, Touches, Piece, Newlines
<1>5. Newlines' = Newlines
  BY DEF Newlines, doc_comments
<1>6. \A b : b \in FirstBytes(i)' <=> b \in FirstBytes(i) \/ b \in Bytes(span)
  <2>1. \A b : b \in FirstBytes(i)' <=> \E j \in 1 .. i + 1 : b \in Bytes(final_spans[j])
    BY <1>1 DEF FirstBytes, Bytes
  <2>2. \A b : b \in FirstBytes(i) <=> \E j \in 1 .. i : b \in Bytes(final_spans[j])
    BY DEF FirstBytes
  <2>3. \A j : j \in 1 .. i + 1 <=> j \in 1 .. i \/ j = i + 1
    BY <1>1
  <2> QED BY <1>2, <2>1, <2>2, <2>3
<1>7. \E extra \in SUBSET Newlines :
         Covered(merged') = Covered(merged) \cup extra \cup Bytes(span)
  <2>1. CASE n > 0 /\ Adjacent(merged[n], span)
    <3>1. merged # << >> /\ merged[n].hi + 1 = span.lo /\ merged[n] \in SpanType
      BY <1>1, <1>2, <1>3, <2>1 DEF Adjacent
    <3>2. PICK new : new = Span(merged[n].lo, span.hi)
      OBVIOUS
    <3>3. new \in SpanType /\ new.lo = merged[n].lo /\ new.hi = span.hi
      <4>1. /\ merged[n].lo \in Nat /\ span.hi \in Nat /\ merged[n].lo <= span.hi
            /\ merged[n].lo < span.hi
        BY <1>3, <3>1 DEF SpanType
      <4>2. new = [lo |-> merged[n].lo, hi |-> span.hi]
        BY <3>2, <4>1 DEF Span
      <4> QED BY <4>1, <4>2 DEF SpanType
    <3>4. merged' = [merged EXCEPT ![Len(merged)] = new]
      BY <1>2, <1>3, <2>1, <3>2
    <3>5. Covered(merged') = Covered(merged) \cup {span.lo - 1} \cup Bytes(span)
      <4>1. merged[Len(merged)].hi + 1 = span.lo /\ new.lo = merged[Len(merged)].lo
        BY <1>2, <3>1, <3>3
      <4>2. Covered([merged EXCEPT ![Len(merged)] = new]) =
               Covered(merged) \cup {span.lo - 1} \cup Bytes(span)
        BY <1>1, <1>3, <3>1, <3>3, <4>1, CoveredExtend
      <4> QED BY <3>4, <4>2
    <3>6. span.lo - 1 \in Newlines
      <4>1. i > 0
        BY <1>1, <1>2, <2>1 DEF SpanInv, MergeInv
      <4>2. i + 1 \in 2 .. Len(final_spans)
        BY <1>1, <4>1
      <4> QED BY <1>1, <1>2, <4>2 DEF JoinInv
    <3> QED BY <3>5, <3>6
  <2>2. CASE ~(n > 0 /\ Adjacent(merged[n], span))
    <3>1. merged' = Append(merged, span)
      BY <1>3, <2>2
    <3>2. Covered(merged') = Covered(merged) \cup {} \cup Bytes(span)
      BY <1>1, <1>3, <3>1, CoveredAppend
    <3> QED BY <3>2
  <2> QED BY <2>1, <2>2
<1>8. ResultInv'
  <2>1. /\ FirstBytes(i) \subseteq Covered(merged)
        /\ Covered(merged) \subseteq FirstBytes(i) \cup Newlines
    BY <1>1 DEF ResultInv
  <2>2. Covered(merged)' = Covered(merged')
    BY DEF Covered, Bytes
  <2>3. /\ FirstBytes(i)' \subseteq Covered(merged')
        /\ Covered(merged') \subseteq FirstBytes(i)' \cup Newlines
    BY <1>6, <1>7, <2>1
  <2> QED BY <1>5, <2>2, <2>3 DEF ResultInv
<1> QED BY <1>4, <1>8

LEMMA ExactInvNext == ASSUME SpanInv, ExactInv, [SpanNext]_spanVars PROVE ExactInv'
<1>1. CASE StartMerge
  <2>1. input' = input /\ doc_comments' = doc_comments /\ chars' = chars
        /\ final_spans' = final_spans /\ merged' = merged /\ stage = "trim" /\ stage' = "merge"
        /\ i = Len(doc_comments) /\ i' = 0 /\ merged = << >>
    BY <1>1 DEF SpanInv, TrimInv, StartMerge, doc_comments, chars
  <2>2. Done' = Done
    BY <2>1 DEF Done
  <2>3. FirstBytes(i)' = {} /\ Covered(merged)' = {}
    BY <2>1 DEF FirstBytes, Covered
  <2> QED BY <2>1, <2>2, <2>3
          DEF ExactInv, PiecesInv, JoinInv, ResultInv, Touches, Piece, Newlines
<1>2. CASE Return
  <2>1. input' = input /\ doc_comments' = doc_comments /\ chars' = chars
        /\ final_spans' = final_spans /\ merged' = merged /\ i' = i
        /\ stage = "merge" /\ stage' # "trim"
    BY <1>2 DEF Return, doc_comments, chars
  <2> QED BY <2>1 DEF ExactInv, PiecesInv, JoinInv, ResultInv, Touches, Piece, Newlines,
                      Done, FirstBytes, Covered, Bytes
<1>3. CASE UNCHANGED spanVars
  <2>1. doc_comments' = doc_comments /\ chars' = chars
    BY <1>3 DEF spanVars, doc_comments, chars
  <2> QED BY <1>3, <2>1 DEF ExactInv, PiecesInv, JoinInv, ResultInv, Touches, Piece, Newlines,
                            Done, FirstBytes, Covered, Bytes, spanVars
<1> QED BY <1>1, <1>2, <1>3, TrimKeepsExact, MergeKeepsExact DEF SpanNext

\* If nothing blank and no block ends before the range, and every attribute is
\* written with slashes, the bytes of the spans are those of the characters
\* asked for, the slashes before them and newlines between them, in every doc
\* comment and for every range (span.rs:14).
THEOREM SpansAreExact == SpanSpec => [](Plain(input) => SpansExact)
<1>1. SpanInv /\ ExactInv => (Plain(input) => SpansExact)
  <2> SUFFICES ASSUME SpanInv, ExactInv, Plain(input), stage \in {"done", "panicked"}
               PROVE  Wanted \subseteq Result /\ Result \subseteq Wanted \cup Newlines
    BY DEF SpansExact
  <2>1. /\ i = Len(final_spans) /\ final_spans \in Seq(SpanType) /\ input \in Inputs
        /\ stage # "trim" /\ PiecesInv /\ ResultInv
    BY DEF SpanInv, StateInv, MergeInv, ExactInv
  <2>2. Done = Len(doc_comments) /\ DOMAIN doc_comments = 1 .. Len(doc_comments)
    BY <2>1, InputIs DEF Done
  <2>3. \A b : b \in FirstBytes(i) <=> \E j \in DOMAIN final_spans : b \in Bytes(final_spans[j])
    BY <2>1 DEF FirstBytes
  <2>4. \A b : b \in Wanted <=> \E k \in 1 .. Len(doc_comments) :
                                   b \in WantedBytes(k) \cup PrefixBytes(k)
    BY <2>2 DEF Wanted
  <2>5. \A b : b \in Wanted <=>
           \E k \in 1 .. Len(doc_comments) :
              Touches(doc_comments[k]) /\ b \in Bytes(Piece(doc_comments[k]))
    BY <2>1, <2>4, PieceExact
  <2>6. FirstBytes(i) = Wanted
    <3>1. /\ \A j \in DOMAIN final_spans : \E k \in 1 .. Len(doc_comments) :
                Touches(doc_comments[k]) /\ final_spans[j] = Piece(doc_comments[k])
          /\ \A k \in 1 .. Len(doc_comments) :
                Touches(doc_comments[k]) =>
                    \E j \in DOMAIN final_spans : final_spans[j] = Piece(doc_comments[k])
      BY <2>1, <2>2 DEF PiecesInv
    <3>2. ASSUME NEW b, b \in FirstBytes(i) PROVE b \in Wanted
      BY <2>3, <2>5, <3>1, <3>2
    <3>3. ASSUME NEW b, b \in Wanted PROVE b \in FirstBytes(i)
      <4>1. PICK k \in 1 .. Len(doc_comments) :
               Touches(doc_comments[k]) /\ b \in Bytes(Piece(doc_comments[k]))
        BY <2>5, <3>3
      <4>2. PICK j \in DOMAIN final_spans : final_spans[j] = Piece(doc_comments[k])
        BY <3>1, <4>1
      <4> QED BY <2>3, <4>1, <4>2
    <3> QED BY <3>2, <3>3
  <2>7. Result = Covered(merged)
    BY DEF Result, Covered
  <2> QED BY <2>1, <2>6, <2>7 DEF ResultInv
<1>2. SpanSpec => []ExactInv
  BY SpanInvAlways, ExactInvInit, ExactInvNext, PTL DEF SpanSpec
<1> QED BY <1>1, <1>2, SpanInvAlways, PTL
=============================================================================
