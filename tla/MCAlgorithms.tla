----------------------------- MODULE MCAlgorithms -----------------------------
(* The laws of the pure parts over bounded inputs: a state is one input.  One *)
(* input is no argument of a function but the download of a starter case.     *)
EXTENDS AccuracyHarness, Gates, ShareDownload, Preparation, EvidenceQueries, ReportBody,
        Corroboration, Datasets, IndexBuild, Feeders

VARIABLE input

\* The share's file.
ThreeBlocks == <<1, 2, 3>>

Texts(C, n) == BoundedSeq(C, n) \ {<<>>}

\* Scoring: two ground truths over two substrings, and either one finding with
\* up to two paths or two findings with at most one.
Sub == {"s", "t"}
Truths == BoundedSeq(SUBSET Sub \ {{}}, 2) \ {<<>>}
Cites(n) == BoundedSeq([names : {{}, {"s"}}, probe : Probe], n)
FindingsOf(shapes, n) == [shape : shapes, names : SUBSET Sub, cites : Cites(n)]
Lists == {<<f>> : f \in FindingsOf({"dict", "bad_paths"}, 2)}
         \cup {<<f, g>> : f \in FindingsOf({"dict"}, 1), g \in FindingsOf({"dict", "junk"}, 1)}

\* Runs of the two sides, over one ground truth.
RunFindings == {<<f>> : f \in [shape : {"dict"}, names : SUBSET Sub,
                               cites : {<<[names |-> {}, probe |-> "hit"]>>, <<>>}]}
               \cup {<<>>}
BaselineRuns == [findings : RunFindings, late : BOOLEAN, drift : BOOLEAN, code : {0, 1},
                 install : {"other_hash", "ok"}, writable : BOOLEAN]
SilentWitnessRuns == [findings : RunFindings, late : BOOLEAN, code : {0, 1},
                      log : {<<>>, <<"other", "pivot", "cut">>},
                      ready : {"never", "polled", "at_end"}, clock : {0, 5}, writable : BOOLEAN]
Common(r) == r.writable /\ (r.code = 0 \/ r.findings = <<>>)

\* The entity gate: two matches of up to two characters against two quotes.
Matches == {[kind |-> k, text |-> t, from |-> a, to |-> a + l] :
              k \in {"WINDOWS_PATH", "ACCOUNT"},
              t \in {<<"x">>, <<"X">>, <<"x", "\\", "x">>, <<"x", "/", "x">>, <<"x", ".", "x">>},
              a \in {1, 3}, l \in {2, 3}}
Quotes == {<<"x">>, <<"X", "x">>, <<"x", "\\">>, <<"/", "x">>, <<"x", "/", "X">>,
           <<"x", "\\", "x">>, <<".", "x", ".", "x">>, <<"X", "nl", "x">>}

\* Folders of up to four entries, sorted by name, on three pages of two or less.
Folders == {Ordered(E, {p \in E \X E : p[1] < p[2]}) : E \in SUBSET (1 .. 4)}

\* An image of one or two filesystems, a pair of names that fall together.
Held(L, hows) == UNION {[D -> hows] : D \in SUBSET L}
Near == {<<"Logs", "$a">>, <<"Logs", "_a">>, <<"Users", "u", "NTUSER">>}
Far == {<<"$MFT">>, <<"Users", "u", "NTUSER">>, <<"Users", "u", "Recent", "a">>}
Volume(files, backends) == [files |-> files, opened_by |-> backends]
Images ==
    {[partitions |-> <<Volume(f, {"TSK"}), Volume(g, {"NTFS", "TSK"})>>, medium |-> 0] :
        f \in Held(Near, {"whole", "cut", "empty"}), g \in Held(Far, {"whole", "unreadable"})}
    \cup {[partitions |-> <<>>, medium |-> Volume(f, b)] :
            f \in Held(Far, {"whole", "cut"}), b \in {{}, {"NTFS"}}}

\* Archives 1 to 3, each with up to two members, nested downwards.
Leaf(x) == [leaf |-> x, archive |-> 0]
Inner(a) == [leaf |-> 0, archive |-> a]
Members(S) == {SetToSeq(m) : m \in {m \in SUBSET S : Cardinality(m) <= 2}}
Nests == {<<[fails |-> FALSE, members |-> m], [fails |-> FALSE, members |-> n],
            [fails |-> f, members |-> o]>> :
             m \in Members({Leaf(1), Leaf(2), Inner(2), Inner(3)}),
             n \in Members({Leaf(1), Inner(3)}), o \in Members({Leaf(3)}), f \in BOOLEAN}
OneLeaf == <<[fails |-> FALSE, members |-> <<Leaf(1)>>]>>

\* Artifacts of two files, each read, cut, refused or deadly to its parser.
Event(n) == {[field |-> "EventID", value |-> n], [field |-> "NewProcessName", value |-> "tool"]}
Logged(n) == [kind |-> "plain", event |-> Event(n)]
Odd(k) == [kind |-> k, event |-> {}]
Contents == {<<>>, <<Logged("4688"), Logged("7045")>>, <<Odd("noid"), Logged("4688")>>,
             <<Logged("4688"), Odd("unreadable")>>, <<Odd("fault")>>}
Flags == {"none", "breaks", "undone", "spilled", "kills"}
Artifact(type, items, flag) ==
    [type |-> type, name |-> "none",
     file |-> [items |-> items, breaks |-> flag = "breaks",
               insert |-> IF flag \in {"undone", "spilled"} THEN flag ELSE "works", kills |-> flag = "kills"]]
Artifacts == {Artifact("EVTX", c, f) : c \in Contents, f \in Flags}
             \cup {Artifact(t, c, f) : t \in {"HIVE", "OTHER"}, f \in Flags,
                      c \in {<<Logged("7045")>>, <<Logged("7045"), Odd("unreadable")>>}}
Rule(id, supported) == [id |-> id, supported |-> supported]
Rules == <<[process |-> TRUE, any |-> FALSE, level |-> "high",
            tests |-> {[is |-> [field |-> "Image", value |-> "tool"], not |-> FALSE]}],
           [process |-> FALSE, any |-> TRUE, level |-> "other",
            tests |-> {[is |-> [field |-> "User", value |-> "u"], not |-> TRUE]}]>>

\* What a plugin comes to, and a disk image.
Row(pid, suspicious) == [pid |-> pid, suspicious |-> suspicious]
Outcome(run, rows, insert) == [run |-> run, rows |-> rows, insert |-> insert]
Outcomes == {Outcome("rows", r, "works") : r \in {{}, {Row(4, TRUE)}, {Row(5, TRUE), Row(6, FALSE)}}}
            \cup {Outcome("hangs", {}, "works"), Outcome("rows", {Row(7, FALSE)}, "undone")}
AllPlugins == {"pslist", "cmdline", "netscan", "psscan", "malfind"}
Memory(vol) == [type |-> "MEMORY_DUMP", vol |-> vol]
Disk(fails, events, insert, stuck) ==
    [type |-> "DISK_IMAGE",
     image |-> [fails |-> fails, events |-> events, insert |-> insert, stuck |-> stuck]]
Disks == {Disk(f, e, i, s) : f \in MissingTool \cup {"none", "ewfmount", "ntfs-3g", "log2timeline"},
            e \in {<<>>, <<"message", "blank", "message">>}, i \in {"works", "undone"},
            s \in {{}, {"fs", "ewf"}}}
Env(fallback, max, profile, vol3) ==
    [rules |-> Rules, fallback |-> fallback, pool |-> "up", max_pids |-> max,
     profile |-> profile, vol3 |-> vol3, with_plaso |-> TRUE]
Builds ==
    {[records |-> <<a, b>>, env |-> Env(f, 1, "standard", TRUE)] :
        a \in Artifacts, b \in Artifacts, f \in BOOLEAN}
    \cup {[records |-> <<Memory(v)>>, env |-> Env(FALSE, 1, p, TRUE)] :
            v \in [AllPlugins -> Outcomes], p \in {"targeted", "full"}}
    \cup {[records |-> <<Artifact("EVTX", <<Logged("4688")>>, "none"), d, Memory([q \in AllPlugins |-> o])>>,
           env |-> Env(FALSE, 1, "full", v)] : d \in Disks, o \in Outcomes, v \in BOOLEAN}

\* Rows of the index.
AlertRows == {[tool |-> t, ts |-> n, alert |-> t # "evtx", hit |-> TRUE, host |-> "h", poisoned |-> FALSE] :
             t \in {"critical", "low", "unknown", "evtx"}, n \in 1 .. 2}
Plains == {[tool |-> "evtx", ts |-> n, alert |-> FALSE, hit |-> h, host |-> "h", poisoned |-> p] :
             n \in 1 .. 2, h \in BOOLEAN, p \in BOOLEAN}

Links == [parses : BOOLEAN, local : {"", "l"}, relative : {"", "r"}, share : {"", "s"}]
Streams == [destlist : BOOLEAN, parses : BOOLEAN, local : {"", "l"}, relative : {""}, share : {"", "s"}]
Lines == [kind : {"fields"}, columns : {1, 2}, said : {TRUE}]
         \cup [kind : {"values"}, columns : {1, 2}, said : BOOLEAN]
         \cup [kind : {"comment"}, columns : {1}, said : {FALSE}]
Logs(name, exists, n) == [name : {name}, exists : exists, readable : BOOLEAN, lines : BoundedSeq(Lines, n)]
HiveEntries == {<<e, [dict |-> TRUE, text |-> TRUE]>> : e \in [dict : BOOLEAN, text : BOOLEAN]}
HivePlugins(constructed) ==
    [constructed : constructed, validated : BOOLEAN, can_run : BOOLEAN, fails : BOOLEAN,
     gives : {"list", "dict", "text"}, entries : HiveEntries]

\* Files of the other kinds, of up to two or three entries; a journal of up to
\* four stretches, in which a record may hold what looks like another.
Files == [
    mft |-> [opens : BOOLEAN, entries : BoundedSeq([error : BOOLEAN, path : BOOLEAN,
                attributes : BoundedSeq([code : {"std_info", "other"}, modified : 0 .. 1], 1)], 2)],
    registry |-> [opens : BOOLEAN, plugins : BoundedSeq(HivePlugins(BOOLEAN), 1)
                    \cup BoundedSeq(HivePlugins({TRUE}), 2)],
    srum |-> [opens : BOOLEAN, has_net : BOOLEAN,
              idmap : BoundedSeq([readable : BOOLEAN, app : 0 .. 1, name : {"", "a", "b"}], 2),
              net : BoundedSeq([readable : BOOLEAN, app : 1 .. 2], 2)],
    prefetch |-> [opens : BOOLEAN, slots : BoundedSeq({"refused", "epoch", "t"}, 2),
                  volumes : BoundedSeq({"refused", "", "v"}, 2),
                  names : BoundedSeq({"refused", "", "a", "b"}, 3)],
    lnk |-> [link : Links],
    jumplist |-> [ole : BOOLEAN, streams : BoundedSeq(Streams, 2)],
    pstranscript |-> [lines : BoundedSeq({"blank", "user", "start", "garbled start", "command"}, 4)],
    pcap |-> [zeek : {"works"}, logs : {<<k, l>> : k \in Logs("conn", BOOLEAN, 3), l \in Logs("dns", {TRUE}, 1)}]
             \cup [zeek : {"missing", "times out", "does not start", "exits badly"}, logs : {<<>>}],
    cmdline |-> [rows : BoundedSeq([args : BOOLEAN], 3)],
    netscan |-> [rows : BoundedSeq([args : BOOLEAN], 3)]]
Cell(head, length) == [head |-> head, length |-> length]
Chunks == {<<Cell("zero", 0)>>, <<Cell("padding", 0)>>, <<Cell("junk", 0)>>, <<Cell("record", 1)>>,
           <<Cell("record", 2), Cell("record", 1)>>, <<Cell("record", 2), Cell("zero", 0)>>,
           <<Cell("bad name", 2), Cell("record", 1)>>}

\* Two observations with at most one reading, and findings about them.
NoReading == <<>>
ReadOnce(words, at, refs) == <<[iid |-> 1, words |-> words, at |-> at, refs |-> refs]>>
Observed(audit, named, readings, said) ==
    [audit |-> audit, named |-> named, readings |-> readings, said |-> said]
About(n) == {a \in BoundedSeq([fid : 1 .. 2, oid : 1 .. 2, iid : {1}], n) :
               \A i, j \in DOMAIN a : a[i].fid = a[j].fid \/ a[i].oid = a[j].oid => i = j}
Dated == {Observed(a, n, r, <<>>) : a \in {<<>>, <<1>>, <<2, 1>>}, n \in {<<>>, <<"ip">>, <<"md5", "ip", "md5">>},
            r \in {NoReading, ReadOnce(<<>>, 0, <<>>), ReadOnce(<<>>, 1, <<>>)}}
Worded == {Observed(<<>>, <<>>, ReadOnce(w, 0, <<>>), <<>>) : w \in BoundedSeq([ends : BOOLEAN], 2)}
Wordings == {<<>>, <<[fid |-> 9, aid |-> 2]>>}
Linked(audits) == {Observed(a, <<>>, ReadOnce(<<>>, 0, refs), said) :
                     a \in audits, refs \in Wordings, said \in Wordings}
Tag(kind, name) == [kind |-> kind, name |-> name]
Tags == {Tag("word", "a"), Tag("word", "b"), Tag("technique", "s"), Tag("technique", "t"), Tag("other", "x")}
Detections(oid, spans) == [oid |-> oid, spans |-> spans]
AuditLines == {[kind |-> "row", id |-> 1, tool |-> "t"], [kind |-> "row", id |-> 2, tool |-> "u"],
               [kind |-> "row", id |-> 0, tool |-> ""], [kind |-> "cut", id |-> 2, tool |-> "t"]}
AuditFile(readable, lines) == [readable |-> readable, lines |-> lines]
Trails == {<<AuditFile(b, l)>> \o f : b \in BOOLEAN, l \in BoundedSeq(AuditLines, 2),
             f \in {<<>>} \cup {<<AuditFile(c, <<[kind |-> "row", id |-> 2, tool |-> "u"]>>)>> : c \in BOOLEAN}}
Needs == {"weasyprint", "report", "frontmatter", "draws"}

\* Records of four kinds of tool, and what interpretation and citations say.
Tool(family) == [family |-> family]
SourceTools == {Tool("vol"), Tool("evtx"), Tool("odd"), Tool("other odd")}
Stamps == [time : {<<1>>, <<1, 1>>, <<1, 1, 1>>, <<1, 1, 2>>, <<2>>}, zulu : BOOLEAN]
Cited(stamps) == [shows : {{}, {"presence"}, {"execution"}, {"memory"}}, stamps : stamps]
OneStamp == {{}} \cup {{s} : s \in Stamps}

ReportInputs ==
    \/ \E obs \in [1 .. 2 -> Dated], approved \in About(2) :
          input = [law |-> "claims", obs |-> obs, approved |-> approved]
    \/ \E obs \in [1 .. 2 -> Worded], approved \in About(2), limit \in 1 .. 10 :
          input = [law |-> "summary", obs |-> obs, approved |-> approved, limit |-> limit]
    \/ \E s, t \in BoundedSeq(Tags, 2), oid \in 1 .. 2 :
          input = [law |-> "techniques", records |->
                     IF oid = 1 THEN <<Detections(1, <<s, t>>), Detections(1, <<>>)>>
                     ELSE <<Detections(1, <<s \o t>>), Detections(2, <<t>>)>>]
    \/ \E obs \in Linked({<<>>, <<1>>, <<1, 2>>}) \X Linked({<<1>>}), approved \in About(1),
          trail \in Trails, missing \in SUBSET Needs :
          /\ Cardinality(missing) <= 1
          /\ input = [law |-> "pdf", obs |-> obs, approved |-> approved, trail |-> trail,
                      env |-> [n \in Needs |-> n \notin missing]]

FindingInputs ==
    \/ \E spans \in BoundedSeq([record : 1 .. 3, wellformed : {TRUE}]
                                \cup {[record |-> 0, wellformed |-> FALSE]}, 3),
          known \in SUBSET (1 .. 3) : \E index \in [known -> SourceTools] :
          input = [law |-> "tier", spans |-> spans, index |-> index]
    \/ \E e, r \in BOOLEAN, s \in OneStamp, first \in {<<>>} \cup {<<c>> : c \in Cited(OneStamp)},
          second \in {<<>>} \cup {<<c>> : c \in Cited({{}})} :
          input = [law |-> "challenge", claim |-> [execution |-> e, running |-> r, stamps |-> s],
                   cited |-> first \o second]

EvidenceInputs ==
    \/ \E kind \in DOMAIN Files : \E file \in Files[kind] :
          input = [law |-> "feeder", kind |-> kind, file |-> file]
    \/ \E chunks \in BoundedSeq(Chunks, 4) : input = [law |-> "usn", chunks |-> chunks]
    \/ \E b \in Builds : \E done \in SetToSeqs(Routed(b.records)) :
          input = [law |-> "build", build |-> b, done |-> done]
    \/ \E seed \in BoundedSeq([id : 0 .. 2, supported : BOOLEAN], 2),
         pack \in BoundedSeq([id : 0 .. 2, supported : BOOLEAN], 2), p \in BOOLEAN :
          input = [law |-> "rules", dirs |-> <<<<[parses |-> TRUE, rules |-> seed]>>,
                                              <<[parses |-> p, rules |-> pack]>>>>]
    \/ \E db \in BoundedSeq(AlertRows, 4), limit \in 0 .. 3 :
          input = [law |-> "detections", db |-> db, limit |-> limit]
    \/ \E db \in BoundedSeq(Plains, 3), limit \in 0 .. 3, exists \in BOOLEAN :
          input = [law |-> "answers", db |-> db, limit |-> limit, exists |-> exists]
    \/ \E lines \in 0 .. 5, size \in {-1} \cup 0 .. 3 :
          input = [law |-> "paging", lines |-> lines, size |-> size]

PrepareInputs ==
    \/ \E image \in Images : input = [law |-> "image", image |-> image]
    \/ \E nest \in Nests : input = [law |-> "nest", nest |-> nest]

AccuracyInputs ==
    \/ \E truth \in Truths, raw \in Lists :
          input = [law |-> "scoring", truth |-> truth, raw |-> raw]
    \/ \E b \in BaselineRuns, s \in SilentWitnessRuns :
          /\ Common(b) \/ b.findings = <<>>
          /\ Common(s) \/ s.findings = <<>>
          /\ input = [law |-> "delta", truth |-> << {"s"}, {"t"} >>,
                      runs |-> [baseline |-> b, silentwitness |-> s]]

GateInputs ==
    \/ \E matches \in BoundedSeq(Matches, 2), quotes \in BoundedSeq(Quotes, 2) \ {<<>>} :
          input = [law |-> "entity", matches |-> matches, quotes |-> quotes]
    \/ \E raw \in BoundedSeq({"x", "X", "role", "phrase", "zero"}, 4) :
          \E from, to \in 1 .. 4 :
             from <= to /\ input = [law |-> "quote", raw |-> raw, from |-> from, to |-> to]

ListingInputs ==
    \E shares \in [1 .. 3 -> Folders], limit \in 1 .. 2 :
       input = [law |-> "listing", shares |-> shares, limit |-> limit]

PinsInputs ==
    \E n \in 0 .. 2 : \E pins \in [1 .. n -> 0 .. 2], sha \in 0 .. 2,
       on_disk \in [1 .. n -> {Missing, UnreadableFile, 1, 2}],
       parses, fits, writable \in BOOLEAN :
       input = [law |-> "pins", on_disk |-> on_disk, writable |-> writable,
                manifest |-> [parses |-> parses, fits |-> fits, sha |-> sha, pins |-> pins]]

Inputs ==
    \/ PrepareInputs \/ EvidenceInputs \/ ReportInputs \/ FindingInputs \/ AccuracyInputs
    \/ GateInputs \/ ListingInputs \/ PinsInputs \/ input = [law |-> "download"]

Init == Inputs /\ DInit

Next ==
    /\ UNCHANGED input
    /\ IF input.law = "download" THEN DNext ELSE UNCHANGED dvars

Spec ==
    /\ Init /\ [][Next]_<<input, dvars>>
    /\ WF_dvars(input.law = "download" /\ Working) /\ WF_dvars(input.law = "download" /\ Start)

\* The scorer never contradicts itself, and the two reports show the same, true
\* deltas of a pair of scored runs (ScoringLaw, DeltaLaw).
AccuracyIsAsScored ==
    /\ input.law = "scoring" => ScoringLaw(input.truth, input.raw)
    /\ input.law = "delta" => DeltaLaw(input.truth, input.runs)

\* What report.md and its PDF draw from the approved claims is what they are, and
\* a finding's tier and challenges are what its citations bear out (SummaryLaw,
\* ClaimsLaw, TechniquesLaw, PdfLaw, TierLaw, ChallengeLaw).
ReportIsBorneOut ==
    /\ input.law = "summary" => SummaryLaw(input.obs, input.approved, input.limit)
    /\ input.law = "claims" => ClaimsLaw(input.obs, input.approved)
    /\ input.law = "techniques" => TechniquesLaw(input.records)
    /\ input.law = "pdf" => PdfLaw(input.obs, input.approved, input.trail, input.env)
    /\ input.law = "tier" => TierLaw(input.spans, input.index)
    /\ input.law = "challenge" => ChallengeLaw(input.claim, input.cited)

\* The gates of an observation refuse nothing faithful and let nothing pass that
\* its quotes do not carry (EntityLaw, QuoteLaw).
GatesAreFaithful ==
    /\ input.law = "entity" => EntityLaw(input.matches, input.quotes)
    /\ input.law = "quote" => QuoteLaw(input.raw, input.from, input.to)

\* What is asked for in parts is had whole: a folder of the share, the counts
\* and samples of detections, the hits of a query, a stored text (ListingLaw,
\* DetectionsLaw, AnswersLaw, PagingLaw).
AnswersAreWhole ==
    /\ input.law = "listing" => ListingLaw(input.shares, input.limit)
    /\ input.law = "detections" => DetectionsLaw(input.db, input.limit)
    /\ input.law = "answers" => AnswersLaw([exists |-> input.exists, db |-> input.db], input.limit)
    /\ input.law = "paging" => PagingLaw(input.lines, input.size)

\* No record of the evidence and no rule is lost on the way into the index
\* without a word (BuildLaw, RuleSetLaw, FeederLaw, UsnLaw).
IndexAccountsForEvidence ==
    /\ input.law = "build" => BuildLaw(input.build.records, input.done, input.build.env)
    /\ input.law = "rules" => RuleSetLaw(input.dirs)
    /\ input.law = "feeder" => FeederLaw(input.kind, input.file)
    /\ input.law = "usn" => UsnLaw(input.chunks)

\* What recompute pins, verify accepts (ManifestLaw).
PinsStayTrue ==
    input.law = "pins" => ManifestLaw(input.manifest, input.on_disk, input.writable)

\* The download of a file comes to its end when it is repeated (GetsThere).
DownloadGetsThere == input.law = "download" => GetsThere

\* What an image or an archive has is extracted and registered once and for all
\* (PreparedLaw, NestLaw).
EvidenceIsExtracted ==
    /\ input.law = "image" => PreparedLaw(input.image, OneLeaf)
    /\ input.law = "nest" => NestLaw(input.nest)
===============================================================================
