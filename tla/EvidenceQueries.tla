---------------------------- MODULE EvidenceQueries ----------------------------
(***************************************************************************)
(* What the agent can ask of the evidence: search_evidence, get_record,    *)
(* timeline and list_detections over the rows of index.db, and             *)
(* read_tool_output over a stored text.  All of them answer with a part    *)
(* when there is more than the limit; the laws say which part.             *)
(*                                                                         *)
(* db is a sequence of rows, a row's id its place: [tool, ts, hit, host,   *)
(* poisoned], where poisoned rows make the sanitizer raise.  Scores of the *)
(* full-text index are not modelled: search returns some of the hits.      *)
(***************************************************************************)
EXTENDS Naturals, Integers, Sequences, FiniteSets, SequencesExt, Loops

CONSTANT MaxLimit      \* _MAX_LIMIT, and the 500 lines of a window

ASSUME QueryAssumption == MaxLimit \in Nat \ {0}

Least(S) == CHOOSE n \in S : \A m \in S : n <= m
Lesser(a, b) == IF a < b THEN a ELSE b
Greater(a, b) == IF a > b THEN a ELSE b

Levels == <<"critical", "high", "medium", "low", "informational">>
Rank(level) == CHOOSE i \in DOMAIN Levels : Levels[i] = level

-----------------------------------------------------------------------------
(* The store *)

Filtered(db, host, tool) ==
    {id \in DOMAIN db : (host = "any" \/ db[id].host = host) /\ (tool = "any" \/ db[id].tool = tool)}

\* ORDER BY ts DESC LIMIT: the newest first, and no fewer than one asked for.
NewestFirst(db, ids) ==
    Ordered(ids, {p \in ids \X ids : \/ db[p[1]].ts > db[p[2]].ts
                                     \/ db[p[1]].ts = db[p[2]].ts /\ p[1] < p[2]})
Recent(db, host, tool, limit) ==
    LET all == NewestFirst(db, Filtered(db, host, tool))
    IN SubSeq(all, 1, Lesser(Len(all), Greater(1, limit)))

\* The hits of a search, in the order of their rank; a malformed query raises.
Search(db, host, tool, limit) ==
    LET all == SetToSeq({id \in Filtered(db, host, tool) : db[id].hit})
    IN SubSeq(all, 1, Lesser(Len(all), Greater(1, limit)))

\* GROUP BY source_tool over the detections.
IsDetection(row) == row.alert
CountBySource(db) ==
    [t \in {db[id].tool : id \in {i \in DOMAIN db : IsDetection(db[i])}} |->
        Cardinality({id \in DOMAIN db : IsDetection(db[id]) /\ db[id].tool = t})]

-----------------------------------------------------------------------------
(* The tools *)

\* Row by row: one the sanitizer fails on is withheld, not the answer.
Redacted == "withheld"
SanitizedRecords(db, ids) ==
    [i \in DOMAIN ids |-> [id |-> ids[i], text |-> IF db[ids[i]].poisoned THEN Redacted ELSE "shown"]]

Refuse(reason) == [success |-> FALSE, reason |-> reason]

SearchEvidence(index, query, host, tool, limit) ==
    IF ~index.exists THEN Refuse("INDEX_NOT_BUILT")
    ELSE IF query = "malformed" THEN Refuse("INVALID_QUERY")
    ELSE [success |-> TRUE,
          results |-> SanitizedRecords(index.db, Search(index.db, host, tool, Lesser(limit, MaxLimit)))]

GetRecord(index, id) ==
    IF ~index.exists THEN Refuse("INDEX_NOT_BUILT")
    ELSE IF id \notin DOMAIN index.db THEN Refuse("RECORD_NOT_FOUND")
    ELSE [success |-> TRUE, results |-> SanitizedRecords(index.db, <<id>>)]

Timeline(index, host, tool, limit) ==
    IF ~index.exists THEN Refuse("INDEX_NOT_BUILT")
    ELSE [success |-> TRUE,
          results |-> SanitizedRecords(index.db, Recent(index.db, host, tool, Lesser(limit, MaxLimit)))]

\* One level: its count, and its newest rows while there is room for samples.
Sample(db, counts, s, level) ==
    IF level \notin DOMAIN counts THEN s
    ELSE LET rows == IF s.left > 0 THEN Recent(db, "any", level, s.left) ELSE <<>>
         IN [by_level |-> s.by_level \cup {<<level, counts[level]>>},
             samples |-> s.samples \o rows, left |-> s.left - Len(rows)]

\* What is of no known level is one bucket, counted and never sampled.
Other(counts) ==
    LET n == SumFunctionOnSet(counts, DOMAIN counts \ Range(Levels))
    IN IF n = 0 THEN {} ELSE {<<"other", n>>}

DetectionSummary(db, limit) ==
    LET counts == CountBySource(db)
        s == Walked(Levels, [by_level |-> {}, samples |-> <<>>, left |-> Lesser(Greater(1, limit), MaxLimit)],
                    LAMBDA x, level : Sample(db, counts, x, level))
    IN [total |-> SumFunction(counts),
        by_level |-> s.by_level \cup Other(counts), samples |-> s.samples]

ListDetections(index, limit) ==
    IF ~index.exists THEN Refuse("INDEX_NOT_BUILT")
    ELSE LET d == DetectionSummary(index.db, limit)
         IN [success |-> TRUE, total |-> d.total, by_level |-> d.by_level,
             results |-> SanitizedRecords(index.db, d.samples)]

\* read_tool_output: a window of a text of so many lines, numbered from 0.
Window(lines, line_start, max_lines) ==
    LET start == Greater(0, line_start)
    IN [line_start |-> start,
        content |-> {n \in start .. start + Greater(1, Lesser(max_lines, MaxLimit)) - 1 : n < lines},
        line_end |-> start + Cardinality({n \in start .. start + Greater(1, Lesser(max_lines, MaxLimit)) - 1 :
                                            n < lines}),
        total_lines |-> lines]

ReadToolOutput(file, line_start, max_lines) ==
    IF ~file.allowed THEN Refuse("PATH_NOT_ALLOWED")
    ELSE IF file.large THEN Refuse("OUTPUT_TOO_LARGE")
    ELSE IF file.vanishes THEN Refuse("READ_FAILED")
    ELSE [success |-> TRUE] @@ Window(file.lines, line_start, max_lines)

\* The agent follows line_end until it is total_lines.
Paging(lines, max_lines) ==
    LET at[n \in 0 .. lines] ==
            IF n = 0 THEN Window(lines, 0, max_lines)
            ELSE IF at[n - 1].line_end = lines THEN at[n - 1]
            ELSE LET w == Window(lines, at[n - 1].line_end, max_lines)
                 IN [w EXCEPT !.content = @ \cup at[n - 1].content]
    IN at[lines]

-----------------------------------------------------------------------------
(* Laws *)

\* _detection_summary: by_level always reconciles with the total, the samples
\* are detections of the index and no more than the limit, and none is left
\* out for one that is less severe.
DetectionsLaw(db, limit) ==
    LET d == DetectionSummary(db, limit)
        sampled == Range(d.samples)
        ranked == {id \in DOMAIN db : IsDetection(db[id]) /\ db[id].tool \in Range(Levels)}
    IN /\ d.total = Cardinality({id \in DOMAIN db : IsDetection(db[id])})
       /\ d.total = SumFunction([c \in d.by_level |-> c[2]])
       /\ Cardinality(sampled) = Len(d.samples) /\ sampled \subseteq ranked
       /\ Len(d.samples) = Lesser(Cardinality(ranked), Lesser(Greater(1, limit), MaxLimit))
       /\ \A in \in sampled, out \in ranked \ sampled : Rank(db[in].tool) <= Rank(db[out].tool)

\* One bad row costs its own text and never a hit of the answer; what an
\* answer names can be fetched again and is the same row.
AnswersLaw(index, limit) ==
    \A answer \in {SearchEvidence(index, "q", "any", "any", limit), Timeline(index, "any", "any", limit)} :
        answer.success =>
            /\ Len(answer.results) <= MaxLimit
            /\ \A r \in Range(answer.results) : GetRecord(index, r.id).results = <<r>>
            /\ \A r \in Range(answer.results) : r.text = Redacted <=> index.db[r.id].poisoned
            /\ Len(answer.results) < Lesser(Greater(1, limit), MaxLimit)
                  => {r.id : r \in Range(answer.results)}
                        \in {DOMAIN index.db, {id \in DOMAIN index.db : index.db[id].hit}}

\* A stored text is read whole, in windows of any size: each line once.
PagingLaw(lines, max_lines) ==
    LET read == Paging(lines, max_lines)
    IN read.line_end = lines /\ read.content = 0 .. lines - 1
=============================================================================
