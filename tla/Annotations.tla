---------------------------- MODULE Annotations ----------------------------
(***************************************************************************)
(* What the annotations of a crate mean: annotations/toml.rs, doc.rs,      *)
(* mod.rs and new_parsing.rs.                                              *)
(*                                                                         *)
(* A doc string is a sequence of lines reduced to what the regexes tell    *)
(* apart.  A bullet stands for the bullet line only; the lines after it,   *)
(* up to the next bullet, belong to its text.  Other lines have no colon   *)
(* in them: a colon there would make the name before it two words, so the  *)
(* bullet stays malformed either way.                                      *)
(***************************************************************************)
EXTENDS Crate

CONSTANT Conds     \* names of conditions

Markers == {"marker",      \* `# Safety`
            "submarker"}   \* `## Safety`, any other number of #
Bullets == {"cond",        \* `- name: description`
            "bare",        \* `- name:`
            "nocolon",     \* `- text`
            "noname",      \* `- : description`
            "spaced"}      \* `- two words: description`
LineKinds == Markers \cup Bullets \cup {"header",   \* `# Another section`
                                        "blank",    \* white space only
                                        "text"}     \* anything else

\* The range of a bullet counts from the end of its section's header and is
\* used from the start of the comment: spanned says whether, there, it touches
\* a character of some line (Spans.tla).
Line == [kind : LineKinds, name : Conds, spanned : BOOLEAN]
Docs == Seq(Line)

\* A table of the file read at the root of the package, a map from paths: a
\* doc string, or "bad": no table, or one without a `requirements` string.
Table    == [bad : BOOLEAN, doc : Docs]
NoTables == << >>

Args == [fine_grained : BOOLEAN, check_dependencies : BOOLEAN,
         buzzword_checking : BOOLEAN]

\* What the tool finds at a call site: whether some HIR expression has the
\* span of the call, whether a `SAFETY:` comment is found on it or around it,
\* and the conditions its text considers.
Site == [hir : BOOLEAN, comment : BOOLEAN, covers : SUBSET Conds]

\* All that is written about a crate, next to the code of Crate.tla.  The file
\* may be missing or no TOML; trait_fn[f] is the trait function f implements,
\* or f itself; an axiom, a dereference of a raw pointer, has a comment or not.
IsNotes(n) ==
    /\ DOMAIN n = {"args", "toml", "doc", "unsafe", "trait_fn", "axioms", "sites"}
    /\ n.args \in Args
    /\ n.toml.status \in {"missing", "unreadable", "tables"}
    /\ n.toml.tables \in [DOMAIN n.toml.tables -> Table]
    /\ n.doc \in [Fns -> Docs]
    /\ n.unsafe \subseteq Fns
    /\ n.trait_fn \in [Local -> Fns]
    /\ n.axioms \in [Local -> Seq(BOOLEAN)]
    /\ n.sites \in [Local -> Seq(Site)]

-----------------------------------------------------------------------------
\* Variant: the tables without an error are kept.
FromFilePartly(n) ==
    IF n.toml.status = "tables"
       THEN [p \in {q \in DOMAIN n.toml.tables : ~n.toml.tables[q].bad} |-> n.toml.tables[p]]
       ELSE NoTables

\* TomlAnnotation::from_file, then the caller's default: a missing file is
\* empty, and any error in it leaves no override at all.
FromFile(n) ==
    IF n.toml.status = "tables" /\ \A p \in DOMAIN n.toml.tables : ~n.toml.tables[p].bad
       THEN n.toml.tables
       ELSE NoTables

\* An override replaces the doc comment, also one without a marker.  It is
\* looked up by path, so every item printed with that path gets it.
Overridden(toml, f) == Path[f] \in DOMAIN toml

DocStr(n, toml, f) ==
    IF Overridden(toml, f) THEN toml[Path[f]].doc ELSE n.doc[f]

\* fn_def_regex finds a marker line.
IsAnnotated(n, toml, f) ==
    \E i \in DOMAIN DocStr(n, toml, f) : DocStr(n, toml, f)[i].kind \in Markers

\* The lines between the first marker and the next section of depth one.
MarkerAt(doc) ==
    CHOOSE i \in DOMAIN doc :
        doc[i].kind \in Markers /\ \A j \in 1 .. i - 1 : doc[j].kind \notin Markers

SectionEnd(doc) ==
    CHOOSE e \in MarkerAt(doc) + 1 .. Len(doc) + 1 :
        /\ e <= Len(doc) => doc[e].kind \in {"marker", "header"}
        /\ \A j \in MarkerAt(doc) + 1 .. e - 1 : doc[j].kind \notin {"marker", "header"}

Section(doc) == SubSeq(doc, MarkerAt(doc) + 1, SectionEnd(doc) - 1)

-----------------------------------------------------------------------------
(* try_parse_conditions                                                    *)

IsBullet(line) == line.kind \in Bullets

\* What follows a bullet, up to the next one, is trimmed: blank lines are
\* nothing.
IsFollowed(text, i) ==
    \E j \in i + 1 .. Len(text) :
        /\ text[j].kind # "blank"
        /\ \A k \in i + 1 .. j : ~IsBullet(text[k])

\* A bare name needs a description in the lines that follow it.
Malformed(text, i) ==
    \/ text[i].kind \in {"nocolon", "noname", "spaced"}
    \/ text[i].kind = "bare" /\ ~IsFollowed(text, i)

HasBullets(text)      == \E i \in DOMAIN text : IsBullet(text[i])
HasConditions(text)   == HasBullets(text) /\ \A i \in DOMAIN text : ~Malformed(text, i)
ConditionNames(text)  == [i \in DOMAIN SelectSeq(text, IsBullet) |->
                              SelectSeq(text, IsBullet)[i].name]

Text(n, toml, f) == Section(DocStr(n, toml, f))

\* src_span unwraps the first span of the range of each well-formed bullet of a
\* doc comment, in any mode and any crate, until a malformed bullet ends the
\* parsing.
SrcSpanPanics(n, toml, f) ==
    /\ IsAnnotated(n, toml, f)
    /\ ~Overridden(toml, f)
    /\ LET text == Text(n, toml, f) IN
          \E i \in DOMAIN text : /\ IsBullet(text[i])
                                 /\ ~text[i].spanned
                                 /\ \A j \in 1 .. i : ~Malformed(text, j)

\* Variant: the documentation of other crates is always checked.
ParsePanicsAnywhere(n, toml, f) ==
    \/ SrcSpanPanics(n, toml, f)
    \/ /\ IsAnnotated(n, toml, f)
       /\ ~HasConditions(Text(n, toml, f))
       /\ n.args.fine_grained

\* violation_from_text: a marker whose section names no conditions, or names
\* them badly, is fatal where conditions are asked for.
ParsePanics(n, toml, f) ==
    \/ SrcSpanPanics(n, toml, f)
    \/ /\ IsAnnotated(n, toml, f)
       /\ ~HasConditions(Text(n, toml, f))
       /\ f \in Local \/ n.args.check_dependencies
       /\ n.args.fine_grained

-----------------------------------------------------------------------------
(* creates_obligation.  Two conditions are equal if their names and their  *)
(* spans are: `from` stands for the spans, which two doc comments never    *)
(* share and which are the same dummy for every TOML override.             *)

None             == [kind |-> "none", names |-> << >>, from |-> -1]
ConsiderProperty == [kind |-> "property", names |-> << >>, from |-> -1]

\* Variant: where conditions are asked for, there is no other obligation.
ObligationIfConditions(n, toml, f) ==
    IF ~IsAnnotated(n, toml, f) THEN None
    ELSE IF ~n.args.fine_grained THEN ConsiderProperty
    ELSE IF ~HasConditions(Text(n, toml, f)) THEN None
    ELSE [kind  |-> "conditions",
          names |-> ConditionNames(Text(n, toml, f)),
          from  |-> IF Overridden(toml, f) THEN -1 ELSE f]

Obligation(n, toml, f) ==
    IF ~IsAnnotated(n, toml, f) THEN None
    ELSE IF n.args.fine_grained /\ HasConditions(Text(n, toml, f))
    THEN [kind  |-> "conditions",
          names |-> ConditionNames(Text(n, toml, f)),
          from  |-> IF Overridden(toml, f) THEN -1 ELSE f]
    ELSE ConsiderProperty

\* unconsidered_conditions
Unconsidered(obligation, site) ==
    {c \in Conds : \E i \in DOMAIN obligation.names : obligation.names[i] = c}
        \ site.covers
=============================================================================
