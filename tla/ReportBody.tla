------------------------------ MODULE ReportBody ------------------------------
(* What report.md draws from the approved claims beside the claims themselves *)
(* (CaseReport has those): summary, timeline, indicators, techniques, tools,  *)
(* and the references to audit rows that the PDF resolves.                    *)
(*                                                                            *)
(* obs gives the record of an observation id, approved the approved findings  *)
(* in their order, trail the files of audit/.  A text is the words, the       *)
(* indicators and the references in it; what a pattern recognises is an input.*)
EXTENDS Naturals, Sequences, FiniteSets, SequencesExt, Loops

\* The reading a finding names, of the observation it is about.
ReadingOf(obs, f) ==
    LET readings == obs[f.oid].readings
    IN Among(readings, {r \in Range(readings) : r.iid = f.iid})

FirstOf(s) == IF s = <<>> THEN <<>> ELSE <<s[1]>>
Distinct(s) == Walked(s, <<>>, LAMBDA out, x : IF x \in Range(out) THEN out ELSE Append(out, x))

-----------------------------------------------------------------------------
(* Summary and timeline *)

\* A word is of a finding, and ends a sentence or not.
FirstSentence(words) ==
    LET ends == {i \in DOMAIN words : words[i].ends}
    IN IF ends = {} THEN words ELSE SubSeq(words, 1, CHOOSE i \in ends : \A j \in ends : i <= j)

\* The bullet: dash, finding, confidence and sentence.  A claim without text has none.
Bullet(f, readings) ==
    IF readings = <<>> \/ readings[1].words = <<>> THEN <<>>
    ELSE [i \in 1 .. 3 |-> [fid |-> f.fid, ends |-> FALSE]]
         \o [i \in DOMAIN FirstSentence(readings[1].words) |->
               [fid |-> f.fid, ends |-> readings[1].words[i].ends]]

\* A sentence ends where a blank follows, so the last word kept ends none.
Truncated(kept) ==
    LET ends == {i \in 1 .. Len(kept) - 1 : kept[i].ends}
    IN IF ends = {} THEN kept ELSE SubSeq(kept, 1, CHOOSE i \in ends : \A j \in ends : j <= i)

SummaryWords(obs, approved) ==
    Chained([k \in DOMAIN approved |-> Bullet(approved[k], ReadingOf(obs, approved[k]))])

\* "[...truncated - see Findings below.]": five words of no finding, which come on
\* top of the limit.
TruncationMarker == [i \in 1 .. 5 |-> [fid |-> 0, ends |-> FALSE]]

ExecutiveSummary(words, limit) ==
    IF Len(words) <= limit THEN words ELSE Truncated(SubSeq(words, 1, limit)) \o TruncationMarker

\* A reading's time of recording, or Undated, a dash that sorts behind every time.
Undated == 1000
TimelineRow(f, readings, audit) ==
    [at  |-> IF readings = <<>> THEN Undated ELSE readings[1].at,
     ref |-> FirstOf(audit), fid |-> f.fid]

\* list.sort, which is stable.
Sorted(rows) ==
    LET order == Ordered(DOMAIN rows, {p \in (DOMAIN rows) \X (DOMAIN rows) :
                     \/ rows[p[1]].at < rows[p[2]].at
                     \/ rows[p[1]].at = rows[p[2]].at /\ p[1] < p[2]})
    IN [k \in DOMAIN rows |-> rows[order[k]]]

TimelineRows(obs, approved) ==
    Sorted([k \in DOMAIN approved |->
              TimelineRow(approved[k], ReadingOf(obs, approved[k]), obs[approved[k].oid].audit)])

-----------------------------------------------------------------------------
(* Indicators and techniques *)

\* Mutant: the citations of an indicator are those of the last claim.
CitedLast(cites, audit) == audit

\* The citations of an indicator after one more observation with it.
CitedAlso(cites, audit) == Distinct(cites \o audit)

Noted(found, x, audit) ==
    [y \in DOMAIN found \cup {x} |->
       IF y # x THEN found[y]
       ELSE CitedAlso(IF x \in DOMAIN found THEN found[x] ELSE <<>>, audit)]

WithIndicator(found, named, audit) ==
    Walked(Distinct(named), found, LAMBDA acc, x : Noted(acc, x, audit))

\* From an indicator to the audit ids behind it.
Indicators(obs, approved) ==
    Walked(approved, <<>>, LAMBDA acc, f : WithIndicator(acc, obs[f.oid].named, obs[f.oid].audit))

\* A cited span is the tags of a detection: words, techniques and others.  The
\* pattern takes a technique with the word right before it.
Tagged(span) ==
    LET at == Among([i \in 1 .. Len(span) |-> i],
                    {i \in 1 .. Len(span) - 1 : span[i].kind = "word" /\ span[i + 1].kind = "technique"})
    IN [k \in DOMAIN at |-> [tactic |-> span[at[k]].name, id |-> span[at[k] + 1].name]]

\* A technique keeps the first tactic it is met under.
Evidenced(table, tag, oid) ==
    [t \in DOMAIN table \cup {tag.id} |->
       IF t # tag.id THEN table[t]
       ELSE IF t \in DOMAIN table THEN [table[t] EXCEPT !.by = @ \cup {oid}]
       ELSE [tactic |-> tag.tactic, by |-> {oid}]]

WithTechniques(table, o) ==
    Walked(Chained([k \in DOMAIN o.spans |-> Tagged(o.spans[k])]), table,
           LAMBDA t, tag : Evidenced(t, tag, o.oid))

\* Of every record of findings.json, approved or not; a finding has the id of its
\* observation and no spans.
Techniques(records) ==
    Walked(records, <<>>, LAMBDA table, o : WithTechniques(table, o))

-----------------------------------------------------------------------------
(* The audit files *)

\* Lines of the files that can be read; blank lines, cut lines and lines that
\* are no object are passed over.
TrailEntries(trail) ==
    LET lines == Chained([k \in DOMAIN trail |-> IF trail[k].readable THEN trail[k].lines ELSE <<>>])
    IN Among(lines, {l \in Range(lines) : l.kind = "row"})

\* Methodology: each tool once.  A row's tool may be empty.
ToolsUsed(trail) ==
    LET named == [k \in DOMAIN TrailEntries(trail) |-> TrailEntries(trail)[k].tool]
    IN Distinct(Among(named, Range(named) \ {""}))

\* AuditIndex.from_dir: the ids a reference can be resolved to; 0 is none, or malformed.
AuditIndex(trail) == {TrailEntries(trail)[k].id : k \in DOMAIN TrailEntries(trail)} \ {0}

\* The appendix: a digest for each file, or that it cannot be read.
Appendix(trail) ==
    [k \in DOMAIN trail |-> IF trail[k].readable THEN <<"sha256", trail[k].lines>> ELSE <<"unreadable">>]

-----------------------------------------------------------------------------
(* References and the PDF *)

\* Those in the text of the reading that is drawn, and in the observation's own.
TextRefs(readings, said) == (IF readings = <<>> THEN <<>> ELSE readings[1].refs) \o said

\* Those of an approved claim: behind the text's, one for each audit id.
References(f, readings, said, audit) ==
    TextRefs(readings, said) \o [k \in DOMAIN audit |-> [fid |-> f.fid, aid |-> audit[k]]]

\* An unreviewed observation is drawn with its first reading.  Its own references
\* begin with O-, which the pattern does not match; those in the text it does.
Unapproved(obs, approved) == DOMAIN obs \ {approved[k].oid : k \in DOMAIN approved}

ExtractedRefs(obs, approved) ==
    Chained([k \in DOMAIN approved |->
               References(approved[k], ReadingOf(obs, approved[k]),
                          obs[approved[k].oid].said, obs[approved[k].oid].audit)])
    \o Chained(SetToSeq({TextRefs(obs[o].readings, obs[o].said) : o \in Unapproved(obs, approved)}))

\* The first reference that cannot be resolved, or none; the finding is not looked at.
Broken(refs, trail) == FirstOf(Among(refs, {r \in Range(refs) : r.aid \notin AuditIndex(trail)}))

\* What can keep PdfRenderer.render from its end, in the order it meets it.
PdfRender(refs, trail, env) ==
    IF ~env.weasyprint THEN "ImportError"
    ELSE IF ~env.report THEN "FileNotFoundError"
    ELSE IF ~env.frontmatter THEN "ValueError"
    ELSE IF Broken(refs, trail) # <<>> THEN "BrokenVerifyLink"
    ELSE IF ~env.draws THEN "Exception" ELSE "rendered"

\* export --pdf: report.pdf and the exit code.
ExportPdf(old, refs, trail, env) ==
    IF PdfRender(refs, trail, env) = "rendered" THEN [pdf |-> refs, code |-> 0]
    ELSE [pdf |-> old, code |-> 2]

-----------------------------------------------------------------------------
(* Laws *)

\* A summary that fits its limit tells of every approved claim with text, in order.
\* One that does not is cut within it, and says so: it leaves no sentence unfinished
\* if it has finished any.
SummaryLaw(obs, approved, limit) ==
    LET words == SummaryWords(obs, approved)
        told  == ExecutiveSummary(words, limit)
    IN \/ /\ Len(words) <= limit /\ told = words
          /\ {told[i].fid : i \in DOMAIN told} =
                {f.fid : f \in {g \in Range(approved) :
                    \E r \in Range(obs[g.oid].readings) : r.iid = g.iid /\ r.words # <<>>}}
       \/ /\ Len(words) > limit
          /\ \E n \in 0 .. limit :
                /\ told = SubSeq(words, 1, n) \o TruncationMarker
                /\ (\E i \in 1 .. n : words[i].ends) => words[n].ends

\* Every approved claim has its one line in the timeline, none before an earlier
\* one; every indicator of an approved claim is listed with the audit ids of all
\* the approved claims that name it, and no other.
ClaimsLaw(obs, approved) ==
    LET rows  == TimelineRows(obs, approved)
        table == Indicators(obs, approved)
        cited(x) == UNION {Range(obs[f.oid].audit) :
                              f \in {g \in Range(approved) : x \in Range(obs[g.oid].named)}}
    IN /\ \A i, j \in DOMAIN rows : i < j => rows[i].at <= rows[j].at
       /\ \A f \in Range(approved) :
             Cardinality({i \in DOMAIN rows : rows[i].fid = f.fid})
               = Cardinality({k \in DOMAIN approved : approved[k].fid = f.fid})
       /\ DOMAIN table = UNION {Range(obs[f.oid].named) : f \in Range(approved)}
       /\ \A x \in DOMAIN table : Range(table[x]) = cited(x) /\ IsInjective(table[x])

\* The report names no technique that the span cited for it does not carry, and
\* every one that a detection names right behind its tactic.
TechniquesLaw(records) ==
    LET table == Techniques(records)
        carries(o, t) == \E s \in Range(o.spans) : \E i \in DOMAIN s :
                             s[i] = [kind |-> "technique", name |-> t]
        under(o, t) == \E s \in Range(o.spans) : \E i \in 2 .. Len(s) :
                           s[i] = [kind |-> "technique", name |-> t] /\ s[i - 1].kind = "word"
    IN \A t \in DOMAIN table \cup UNION {UNION {{x.name : x \in Range(s)} : s \in Range(o.spans)} :
                                            o \in Range(records)} :
          LET by == IF t \in DOMAIN table THEN table[t].by ELSE {}
          IN /\ by = {o.oid : o \in {r \in Range(records) : under(r, t)}}
             /\ \A id \in by : \E o \in Range(records) : o.oid = id /\ carries(o, t)

\* A PDF is written only when every audit id behind an approved claim, and every
\* one that an observation's text refers to, is that of a row which can be read;
\* else the old one stays.  The tools listed are those of such rows.
PdfLaw(obs, approved, trail, env) ==
    LET rows == UNION {{l \in Range(trail[k].lines) : l.kind = "row" /\ trail[k].readable} :
                          k \in DOMAIN trail}
        done == ExportPdf("old", ExtractedRefs(obs, approved), trail, env)
        behind == UNION {Range(obs[f.oid].audit) : f \in Range(approved)}
        named == UNION {{r.aid : r \in Range(obs[o].said)} : o \in DOMAIN obs}
    IN /\ done.code = 0 => behind \cup named \subseteq {l.id : l \in rows}
       /\ done.code # 0 => done.pdf = "old"
       /\ (\A o \in DOMAIN obs : \A r \in Range(obs[o].readings) : r.refs = <<>>)
             /\ (\A e \in DOMAIN env : env[e]) /\ behind \cup named \subseteq {l.id : l \in rows}
            => done.code = 0
       /\ Range(ToolsUsed(trail)) = {l.tool : l \in rows} \ {""}
       /\ {k \in DOMAIN trail : Appendix(trail)[k] = <<"unreadable">>}
             = {k \in DOMAIN trail : ~trail[k].readable}
===============================================================================
