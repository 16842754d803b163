------------------------------ MODULE IndexBuild ------------------------------
(***************************************************************************)
(* One build of index.db from what is registered: the prepared artifacts   *)
(* by their parsers, in whatever order these finish, the disk images by    *)
(* plaso, the memory images by Volatility's plugins; then what the index   *)
(* tools answer from it.  EvidencePipeline has the build among the other   *)
(* commands; here is what goes into it, out of it, and on the record.      *)
(*                                                                         *)
(* A row is [tool, of]: its source_tool and the number of the record it    *)
(* comes from.  What a file holds is a sequence of items, each a kind of   *)
(* event or entry as far as the feeders tell it from another.              *)
(***************************************************************************)
EXTENDS Naturals, Sequences, FiniteSets, SequencesExt

-----------------------------------------------------------------------------
(* Sigma: which rules of the seed and of a pack take part *)

\* A rule: id, 0 for none; whether this matcher can represent it.
LoadRule(set, rule) ==
    IF rule.id \in set.seen \ {0} THEN set
    ELSE IF ~rule.supported THEN [set EXCEPT !.skipped = Append(@, rule)]
    ELSE [set EXCEPT !.rules = Append(@, rule), !.seen = @ \cup {rule.id}]

\* A file of rules that cannot be parsed is one skip.
LoadFile(set, file) ==
    IF ~file.parses THEN [set EXCEPT !.skipped = Append(@, file)]
    ELSE FoldLeft(LoadRule, set, file.rules)

RuleSet(dirs) ==
    FoldLeft(LoadFile, [rules |-> <<>>, skipped |-> <<>>, seen |-> {}], FlattenSeq(dirs))

\* A rule fires on an event of its log source, under any name the taxonomies
\* have for a field; an event is the set of [field, value] it carries.
Aliases == {[canon |-> "Image", audit |-> "NewProcessName"],
            [canon |-> "User", audit |-> "SubjectUserName"]}
Normalized(event) ==
    LET carries(f) == {e \in event : e.field = f}
        named(a) == IF carries(a.canon) # {} THEN {}
                    ELSE {[field |-> a.canon, value |-> e.value] : e \in carries(a.audit)}
    IN event \cup UNION {named(a) : a \in Aliases}
Gate(rule, event) ==
    rule.process => \E e \in event : \/ e.field = "EventID" /\ e.value \in {"1", "4688"}
                                     \/ e.field = "Channel" /\ e.value = "sysmon"
Fires(rule, event) ==
    LET seen == Normalized(event)
        holds(test) == (\E e \in seen : e = test.is) # test.not
    IN /\ Gate(rule, seen)
       /\ IF rule.any THEN \E t \in rule.tests : holds(t) ELSE \A t \in rule.tests : holds(t)

\* A level that is no severity is counted as other.
Matched(rules, event) == SelectSeq(rules, LAMBDA r : Fires(r, event))

-----------------------------------------------------------------------------
(* The feeders *)

\* An event without an id leaves no row; a fault of the engine costs its
\* detections and not the event.
EventRows(item, rules) ==
    IF item.kind = "noid" THEN <<>>
    ELSE <<"evtx">> \o IF item.kind = "fault" THEN <<>>
                       ELSE [i \in DOMAIN Matched(rules, item.event) |->
                               Matched(rules, item.event)[i].level]

Readable(items) == SelectSeq(items, LAMBDA i : i.kind # "unreadable")
Lost(items) == Len(items) - Len(Readable(items))
RowsOfEvents(items, rules) ==
    FlattenSeq([i \in DOMAIN items |-> EventRows(items[i], rules)])

Raised == [rows |-> <<>>, skipped |-> 0, raised |-> TRUE]

\* Mutant: the fast parser's rows go out as they come, and the tolerant one
\* starts from the beginning.
EvtxFeederUnbuffered(file, rules, fallback) ==
    IF ~file.breaks /\ Lost(file.items) = 0
    THEN [rows |-> RowsOfEvents(file.items, rules), skipped |-> 0, raised |-> FALSE]
    ELSE IF ~fallback THEN Raised
    ELSE [rows |-> RowsOfEvents(Readable(file.items), rules) \o RowsOfEvents(Readable(file.items), rules),
          skipped |-> 2 + Lost(file.items), raised |-> FALSE]

\* The fast parser gives a file whole or not at all; the tolerant one, when it
\* is asked for, goes record by record - and, the alarm having gone off once,
\* without a deadline.
EvtxFeeder(file, rules, fallback) ==
    IF ~file.breaks /\ Lost(file.items) = 0
    THEN [rows |-> RowsOfEvents(file.items, rules), skipped |-> 0, raised |-> FALSE]
    ELSE IF ~fallback THEN Raised
    ELSE [rows |-> RowsOfEvents(Readable(file.items), rules),
          skipped |-> 2 + Lost(file.items), raised |-> FALSE]

\* The others skip what they cannot read, and count it.
OtherFeeder(kind, file) ==
    IF file.breaks THEN Raised
    ELSE [rows |-> [i \in DOMAIN Readable(file.items) |-> kind],
          skipped |-> Lost(file.items), raised |-> FALSE]

\* _kind_for: by type, and what is OTHER by its name.  The rest has no parser.
KindFor(rec) ==
    IF rec.type = "EVTX" THEN "evtx"
    ELSE IF rec.type = "HIVE" THEN "registry"
    ELSE IF rec.type = "OTHER" THEN rec.name ELSE "none"

Feed(rec, rules, fallback) ==
    IF KindFor(rec) = "evtx" THEN EvtxFeeder(rec.file, rules, fallback)
    ELSE OtherFeeder(KindFor(rec), rec.file)

-----------------------------------------------------------------------------
(* The build *)

SumOf(f) == FoldFunction(+, 0, f)

NoBuild(kinds) ==
    [db |-> <<>>, counts |-> [k \in kinds |-> 0], failures |-> {}, skips |-> {},
     plaso |-> 0, memory |-> {}, mounts |-> {}, advisories |-> {}, aborted |-> FALSE]

\* All the rows of one call, or none - as long as its pages fit the cache: the
\* bulk load runs without a journal, so what had been spilled stays.
BulkIngest(db, rows, insert) ==
    IF insert = "works" THEN [db |-> db \o rows, written |-> Len(rows), raised |-> FALSE]
    ELSE [db |-> db \o IF insert = "spilled" THEN SubSeq(rows, 1, Len(rows) - 1) ELSE <<>>,
          written |-> 0, raised |-> TRUE]

\* A worker that dies takes the pool with it: whatever has not come back fails.
IngestOne(b, n, rec, env) ==
    LET kind == KindFor(rec)
        fed == IF env.pool = "dead" THEN Raised ELSE Feed(rec, env.rules, env.fallback)
        put == BulkIngest(b.db, [i \in DOMAIN fed.rows |-> [tool |-> fed.rows[i], of |-> n]],
                          rec.file.insert)
    IN IF fed.raised \/ put.raised
       THEN [b EXCEPT !.db = put.db, !.failures = @ \cup {n}, !.advisories = @ \cup {<<n, "file">>}]
       ELSE [b EXCEPT !.db = put.db, !.counts[kind] = @ + put.written,
                      !.skips = @ \cup (IF fed.skipped = 0 THEN {} ELSE {<<n, fed.skipped>>}),
                      !.advisories = @ \cup (IF fed.skipped = 0 THEN {} ELSE {<<n, "file">>})]

\* What ingest_prepared_artifacts sets out to parse.
Routed(records) == {n \in DOMAIN records : KindFor(records[n]) # "none"}

\* done: the numbers of the routed records, as their parsers finish; the pool
\* is dead from the killer on.
IngestPrepared(b, records, done, env) ==
    LET dead(i) == \E j \in 1 .. i : records[done[j]].file.kills
    IN FoldLeft(LAMBDA x, i : IngestOne(x, done[i], records[done[i]],
                                        [env EXCEPT !.pool = IF dead(i) THEN "dead" ELSE "up"]),
                b, [i \in DOMAIN done |-> i])

\* plaso over a mounted image.  The tools are looked for before anything is
\* mounted; a mount that fails is taken down, a whole one in the end.
MissingTool == {"no log2timeline", "no psort", "no ewfmount", "no ntfs-3g"}

\* stuck: the mounts whose umount or fusermount is missing or fails, of which
\* nothing is said; both are tried.
Unmount(mounts, stuck) == mounts \cap stuck
MountImage(image) ==
    IF image.fails \in MissingTool THEN [mounts |-> {}, raised |-> TRUE]
    ELSE IF image.fails \in {"ewfmount", "ntfs-3g"}
         THEN [mounts |-> Unmount({"ewf"}, image.stuck), raised |-> TRUE]
         ELSE [mounts |-> {"ewf", "fs"}, raised |-> FALSE]

\* An event without a message gives no row.
Messages(events) == SelectSeq(events, LAMBDA e : e = "message")

\* A tool that is missing or fails is an advisory; an error of the index
\* itself nobody catches.
IngestTimeline(b, n, image) ==
    LET mount == MountImage(image)
        stays == IF mount.raised THEN mount.mounts ELSE Unmount(mount.mounts, image.stuck)
        rows == [i \in DOMAIN Messages(image.events) |-> [tool |-> "plaso", of |-> n]]
        put == BulkIngest(b.db, rows, image.insert)
        left == [b EXCEPT !.mounts = @ \cup {<<n, m>> : m \in stays}]
    IN IF mount.raised \/ image.fails \in {"log2timeline", "psort", "no output"}
       THEN [left EXCEPT !.advisories = @ \cup {<<n, "plaso">>}]
       ELSE [left EXCEPT !.db = put.db, !.plaso = @ + put.written, !.aborted = put.raised]

\* The processes malfind is pointed at: in netscan, with a suspicious command,
\* or in psscan and not in pslist; the smallest pids, as many as allowed.
Pids(rows) == {r.pid : r \in rows} \ (0 .. 4)
SelectMalfindPids(rows, max) ==
    LET hot(p) == {r \in rows[p] : r.suspicious}
        candidates == Pids(rows["netscan"])
                      \cup Pids(hot("cmdline") \cup hot("pslist") \cup hot("psscan"))
                      \cup (Pids(rows["psscan"]) \ Pids(rows["pslist"]))
    IN {p \in candidates : Cardinality({q \in candidates : q < p}) < max}

\* One plugin: m is [db, rows, counts, failures, aborted] of this image.
\* A run that exits badly, hangs, or prints no list is a recorded failure.
RunVol(outcome) == outcome.run = "rows"
RunPlugin(m, n, plugin, outcome, env) ==
    LET pids == SelectMalfindPids(m.rows, env.max_pids)
        targeted == plugin = "malfind" /\ env.profile = "targeted"
        found == IF targeted THEN {r \in outcome.rows : r.pid \in pids} ELSE outcome.rows
        put == BulkIngest(m.db, [i \in 1 .. Cardinality(found) |-> [tool |-> plugin, of |-> n]],
                          outcome.insert)
    IN IF m.aborted THEN m
       ELSE IF targeted /\ pids = {} THEN [m EXCEPT !.counts = @ \cup {<<plugin, 0>>}]
       ELSE IF ~RunVol(outcome) THEN [m EXCEPT !.failures = @ \cup {plugin}]
       ELSE IF put.raised THEN [m EXCEPT !.db = put.db, !.aborted = TRUE]
       ELSE [m EXCEPT !.rows[plugin] = found, !.db = put.db,
                      !.counts = @ \cup {<<plugin, put.written>>}]

Plugins(profile) ==
    IF profile = "standard" THEN <<"pslist", "cmdline", "netscan", "psscan">>
    ELSE <<"pslist", "cmdline", "netscan", "psscan", "malfind">>

IngestMemory(b, n, rec, env) ==
    LET plugins == Plugins(env.profile)
        start == [db |-> b.db, rows |-> [p \in Range(plugins) |-> {}],
                  counts |-> {}, failures |-> {}, aborted |-> FALSE]
        m == IF env.vol3
             THEN FoldLeft(LAMBDA x, p : RunPlugin(x, n, p, rec.vol[p], env), start, plugins)
             ELSE [start EXCEPT !.failures = {"__driver__"}]
    IN [b EXCEPT !.db = m.db, !.aborted = m.aborted,
                 !.memory = @ \cup {<<n, c>> : c \in m.counts},
                 !.advisories = @ \cup {<<n, p>> : p \in m.failures}]

-----------------------------------------------------------------------------
(* The command *)

RecordsOf(records, type) == SelectSeq([n \in DOMAIN records |-> n],
                                      LAMBDA n : records[n].type = type)

FedKinds == {"evtx", "registry", "mft", "prefetch"}

\* What an exception nobody catches ends, the next steps do not continue.
Unless(b, next) == IF b.aborted THEN b ELSE next

Built(records, done, env) ==
    LET images == IF env.with_plaso THEN RecordsOf(records, "DISK_IMAGE") ELSE <<>>
        prepared == IngestPrepared(NoBuild(FedKinds), records, done, env)
        timed == FoldLeft(LAMBDA b, n : Unless(b, IngestTimeline(b, n, records[n].image)),
                          prepared, images)
    IN FoldLeft(LAMBDA b, n : Unless(b, IngestMemory(b, n, records[n], env)),
                timed, RecordsOf(records, "MEMORY_DUMP"))

\* The counts of a plugin are added up over the images.
MemoryTotal(b) == MapThenSumSet(LAMBDA c : c[2][2], b.memory)

Summary(b) ==
    [rows |-> SumOf(b.counts) + b.plaso + MemoryTotal(b),
     failed_artifacts |-> Cardinality(b.failures),
     skipped_records |-> MapThenSumSet(LAMBDA s : s[2], b.skips),
     advisories |-> b.advisories]

\* Exit code 1 for nothing registered, an exception and no rows.
IndexExit(records, b) ==
    IF records = <<>> \/ b.aborted \/ Summary(b).rows = 0 THEN 1 ELSE 0

-----------------------------------------------------------------------------
(* Laws *)

RowsFrom(b, n) == Len(SelectSeq(b.db, LAMBDA r : r.of = n))

\* Each event that has an id, each entry: what the index owes its reader.
Owed(rec) == Len(SelectSeq(rec.file.items, LAMBDA i : i.kind # "noid"))
AlertsOf(rec, rules) ==
    MapThenSumSet(LAMBDA k : Len(Matched(rules, rec.file.items[k].event)),
                  {k \in DOMAIN rec.file.items : rec.file.items[k].kind = "plain"})

\* An artifact that has a parser is either a recorded failure, without any row
\* unless its insert had spilled some, or all of it is in the index but for the
\* records counted as skipped.
ArtifactAccounted(b, n, rec, rules) ==
    LET reported == MapThenSumSet(LAMBDA s : s[2], {s \in b.skips : s[1] = n})
        alerts == IF KindFor(rec) # "evtx" THEN 0 ELSE AlertsOf(rec, rules)
    IN IF n \in b.failures
       THEN <<n, "file">> \in b.advisories /\ (RowsFrom(b, n) = 0 \/ rec.file.insert = "spilled")
       ELSE /\ RowsFrom(b, n) = Owed(rec) - Lost(rec.file.items) + alerts
            /\ reported >= Lost(rec.file.items)

\* A memory plugin has its rows counted or is a failure in the advisories.
PluginAccounted(b, n, plugin) ==
    \/ {<<n, plugin>>, <<n, "__driver__">>} \cap b.advisories # {}
    \/ \E c \in b.memory : c[1] = n /\ c[2][1] = plugin

Accounted(b, records, env) ==
    /\ \A m \in b.mounts : m[2] \in records[m[1]].image.stuck
    /\ ~b.aborted =>
         /\ Summary(b).rows = Len(b.db) - MapThenSumSet(LAMBDA n : RowsFrom(b, n), b.failures)
         /\ \A n \in Routed(records) : ArtifactAccounted(b, n, records[n], env.rules)
         /\ \A n \in Range(RecordsOf(records, "MEMORY_DUMP")), p \in Range(Plugins(env.profile)) :
               PluginAccounted(b, n, p)

\* index/ingest_artifacts.py:15-17, ingest_memory.py:15-19: nothing is lost in
\* silence.  Whatever order the parsers finish in, every artifact and plugin is
\* accounted for; what the command reports is what the database holds; and no
\* mount is left behind but one that could not be taken down, which costs the
\* index nothing.
BuildLaw(records, done, env) == Accounted(Built(records, done, env), records, env)

\* A rule of the packs takes part, or is counted as skipped, or is another copy
\* of one that takes part: a copy that cannot be represented hides no other.
RuleSetLaw(dirs) ==
    LET set == RuleSet(dirs)
        ids == {r.id : r \in Range(set.rules)}
    IN \A file \in Range(FlattenSeq(dirs)) :
        IF ~file.parses THEN file \in Range(set.skipped)
        ELSE \A r \in Range(file.rules) :
                 \/ r \in Range(set.rules)
                 \/ r.id # 0 /\ r.id \in ids
                 \/ ~r.supported /\ r \in Range(set.skipped)
=============================================================================
