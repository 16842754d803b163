---------------------------- MODULE AccuracyHarness ----------------------------
(* The accuracy harness: two runners leave result files, the scorer compares  *)
(* the findings in them with a ground truth and the evidence, and the delta   *)
(* report and `baseline-comparison` subtract one side from the other.         *)
(*                                                                            *)
(* All of it is computation on files, so the module defines functions; an     *)
(* instance chooses inputs and checks the laws at the end.                    *)
(*                                                                            *)
(* Abstractions.  A text or a path is the set of ground-truth substrings it   *)
(* contains; what `find` or `grep` says of a path comes with the path.  A     *)
(* value a report may lack is a set of at most one number.  The files of one  *)
(* kind are in the order of their names.                                      *)
EXTENDS Integers, Sequences, FiniteSets, SequencesExt, Loops

-----------------------------------------------------------------------------
(* Findings against the evidence *)

\* A path whose last part is unusable is not probed at all.
Probe == {"refused", "miss", "hit", "timeout"}

\* verify_artifact_present_in_evidence: was a command run, and its hits.
Verified(cite) ==
    [argv |-> cite.probe # "refused",
     hits |-> CASE cite.probe = "hit" -> 1 [] cite.probe = "timeout" -> -1 [] OTHER -> 0]

\* What a finding says, in its text and in its cited paths.
Said(f) == f.names \cup UNION {c.names : c \in Range(f.cites)}

\* What safe_findings makes of a side's list: entries that are no objects are
\* dropped, and paths that are no list of strings count as none.
SafeFindings(raw) ==
    LET objects == Among(raw, {f \in Range(raw) : f.shape # "junk"})
    IN [i \in DOMAIN objects |->
          IF objects[i].shape = "bad_paths" THEN [objects[i] EXCEPT !.cites = <<>>]
          ELSE objects[i]]

Classified(class, gt, argv, hits) == [class |-> class, gt |-> gt, argv |-> argv, hits |-> hits]

First(S) == CHOOSE i \in S : \A j \in S : i <= j

\* Mutant: the command shown is that of the first path.
FirstPath(probes) == 1

\* The probe a classification shows: the first hit, else the first timeout.
Best(probes) ==
    LET hits == {i \in DOMAIN probes : probes[i].hits > 0}
        late == {i \in DOMAIN probes : probes[i].hits = -1}
    IN IF hits # {} THEN First(hits) ELSE IF late # {} THEN First(late) ELSE 1

Classify(f, truth) ==
    LET probes  == [i \in DOMAIN f.cites |-> Verified(f.cites[i])]
        best    == probes[Best(probes)]
        matches == {k \in DOMAIN truth : truth[k] \cap Said(f) # {}}
    IN CASE f.cites = <<>> -> Classified("HALLUCINATION", 0, FALSE, {0})
         [] f.cites # <<>> /\ best.hits = 0 -> Classified("HALLUCINATION", 0, best.argv, {0})
         [] f.cites # <<>> /\ best.hits # 0 /\ matches # {} ->
              Classified("TRUE_POSITIVE", First(matches), best.argv, {best.hits})
         [] OTHER -> Classified("FALSE_POSITIVE", 0, best.argv, {best.hits})

\* compute_false_negatives: the ground truth no finding names, in its text or
\* in its paths, whatever the evidence says of them.
FalseNegatives(truth, findings) ==
    {k \in DOMAIN truth : \A i \in DOMAIN findings : truth[k] \cap Said(findings[i]) = {}}

\* FindingClassification's validator.
Paired(c) == c.argv = (c.hits # {}) \/ (c.class = "HALLUCINATION" /\ ~c.argv /\ c.hits = {0})

Unit == 60  \* a rate of one; rates of up to six findings are exact
Rate(n, d) == IF d = 0 THEN 0 ELSE (Unit * n) \div d

\* build_metrics, with the computed fields of ScoringMetrics.
Metrics(truth, result) ==
    LET findings == SafeFindings(result.findings)
        verdicts == [i \in DOMAIN findings |-> Classify(findings[i], truth)]
        Count(class) == Cardinality({i \in DOMAIN verdicts : verdicts[i].class = class})
        tp == Count("TRUE_POSITIVE")
        fp == Count("FALSE_POSITIVE")
        hall == Count("HALLUCINATION")
    IN [tp |-> tp, fp |-> fp, hall |-> hall, total |-> Len(findings),
        fn |-> Cardinality(FalseNegatives(truth, findings)),
        precision |-> {Rate(tp, tp + fp + hall)},
        recall |-> {Rate(tp, tp + Cardinality(FalseNegatives(truth, findings)))},
        hallucinated |-> {Rate(hall, tp + fp + hall)},
        time |-> result.time]

\* ScoringReport's validator: without it there is no scoring file.
Reportable(m) == m.tp + m.fp + m.hall = m.total

\* score_run.
Score(truth, baseline, silentwitness) ==
    [baseline |-> Metrics(truth, baseline), silentwitness |-> Metrics(truth, silentwitness)]

\* top_hallucination_examples: what the delta report calls claims "verifiable
\* by re-running the cited shell command".
Examples(truth, findings) ==
    {i \in DOMAIN findings : LET c == Classify(findings[i], truth)
                             IN c.class = "HALLUCINATION" /\ c.argv}

\* build_findings of score_case: an observation without text and without
\* records is no finding; a record's path is looked up in the index.
Scorable(observations) ==
    Among(observations, {o \in Range(observations) : o.names # {} \/ o.cites # <<>>})

\* score_case: the recall of a case directory, from texts and paths alone.
CaseHits(truth, observations) ==
    {k \in DOMAIN truth : \E f \in Range(Scorable(observations)) : truth[k] \cap Said(f) # {}}

-----------------------------------------------------------------------------
(* The runners *)

None == {}  \* no result file

\* read_findings_json: a finding record has a title, and no cited paths.
ReadFindings(records) == [i \in DOMAIN records |-> [records[i] EXCEPT !.cites = <<>>]]

\* read_hypothesis_jsonl skips what it cannot read; the pivots among the rest.
Pivots(log) == Cardinality({i \in DOMAIN log : log[i] = "pivot"})

\* run_silentwitness: the process is polled; one that outlives its time is
\* terminated, then killed.  When the executive summary appears is noted at a
\* poll, and once more after an end in time.  What the case holds is read
\* whether the process ended well or not.
SilentWitnessResult(run) ==
    [findings |-> ReadFindings(run.findings), pivots |-> Pivots(run.log),
     exit |-> IF run.late THEN 4 ELSE run.code,
     time |-> IF run.ready = "polled" \/ (run.ready = "at_end" /\ ~run.late)
              THEN {run.clock} ELSE {}]

\* run_baseline: the time is looked at when a line arrives, an event that fits
\* no schema ends the run, and either leaves no result.  No time of a hand-off
\* is measured.
BaselineResult(run) ==
    IF run.late \/ run.drift THEN None
    ELSE {[findings |-> run.findings, pivots |-> 0, exit |-> run.code, time |-> {}]}

\* install_baseline: fetched, of the pinned hash, run, and in place.
Install == {"unreachable", "other_hash", "failed", "not_there", "ok"}
Installed(run) == run.install = "ok"

\* main of a runner: the file it leaves, and its exit code.
SilentWitnessMain(run) ==
    LET result == SilentWitnessResult(run)
    IN IF run.writable
       THEN [file |-> {result}, exit |-> IF result.exit = 0 THEN 0 ELSE 5]
       ELSE [file |-> None, exit |-> 5]

BaselineMain(run) ==
    LET exits(code) == [file |-> None, exit |-> code]
        result == BaselineResult(run)
    IN CASE ~Installed(run) -> exits(3)
         [] Installed(run) /\ result = None -> exits(IF run.late THEN 4 ELSE 5)
         [] Installed(run) /\ result # None /\ ~run.writable -> exits(5)
         [] OTHER -> [file |-> result, exit |-> IF run.code = 0 THEN 0 ELSE 5]

-----------------------------------------------------------------------------
(* The reports *)

\* A results directory: for each kind the files, oldest first.  A scoring file
\* is made of the two files its caller names.
Newest(files) == IF files = <<>> THEN None ELSE {files[Len(files)]}

\* Mutant: a value of zero is taken for none.
TruthyDelta(b, s) == {x[2] - x[1] : x \in {y \in b \X s : y[1] # 0 /\ y[2] # 0}}

\* _safe_delta, of both reports.
SafeDelta(b, s) == {x[2] - x[1] : x \in b \X s}

Coalesce(a, b) == IF a # {} THEN a ELSE b

Rates(scoring) ==
    [precision    |-> SafeDelta(scoring.baseline.precision, scoring.silentwitness.precision),
     recall       |-> SafeDelta(scoring.baseline.recall, scoring.silentwitness.recall),
     hallucinated |-> SafeDelta(scoring.baseline.hallucinated,
                                scoring.silentwitness.hallucinated)]

\* build_delta_report needs a file of each kind.  _extract_metrics has already
\* put an absent pivot count into the metrics, so that of the result is not.
DeltaReport(dir) ==
    {[rates  |-> Rates(c),
      time   |-> SafeDelta(Coalesce(c.baseline.time, b.time),
                           Coalesce(c.silentwitness.time, s.time)),
      pivots |-> {}]
        : b \in Newest(dir.baseline), s \in Newest(dir.silentwitness), c \in Newest(dir.scoring)}

\* baseline_comparison.run works without a scoring file.
NoRates == [precision |-> {}, recall |-> {}, hallucinated |-> {}]
Comparison(dir) ==
    {[rates  |-> IF dir.scoring = <<>> THEN NoRates ELSE Rates(Last(dir.scoring)),
      time   |-> IF dir.scoring = <<>> THEN SafeDelta(b.time, s.time)
                 ELSE SafeDelta(Coalesce(Last(dir.scoring).baseline.time, b.time),
                                Coalesce(Last(dir.scoring).silentwitness.time, s.time)),
      pivots |-> {s.pivots - b.pivots}]
        : b \in Newest(dir.baseline), s \in Newest(dir.silentwitness)}

-----------------------------------------------------------------------------
(* Laws *)

\* The scorer's verdicts fit its own validators, so a scoring file is written
\* for whatever the runs found.  They do not depend on the order in which a
\* finding cites its paths, ground truth credited to a finding is not also
\* reported missing, and `score_case` finds the ground truth the scorer does
\* not miss.  A claim held up as a hallucination was looked for.
ScoringLaw(truth, raw) ==
    LET findings == SafeFindings(raw)
        verdicts == [i \in DOMAIN findings |-> Classify(findings[i], truth)]
        missing  == FalseNegatives(truth, findings)
    IN /\ \A i \in DOMAIN verdicts :
             /\ Paired(verdicts[i])
             /\ verdicts[i].gt \notin missing
             /\ Classify([findings[i] EXCEPT !.cites = Reverse(@)], truth).class
                  = verdicts[i].class
       /\ Reportable(Metrics(truth, [findings |-> raw, time |-> {}]))
       /\ CaseHits(truth, findings) = DOMAIN truth \ missing
       /\ \A i \in Examples(truth, findings) :
             \A c \in Range(findings[i].cites) : c.probe \in {"refused", "miss"}

\* The accuracy folder of two runs' files, each there or not.
Folder(truth, b, s) ==
    [baseline |-> SetToSeq(b), silentwitness |-> SetToSeq(s),
     scoring |-> SetToSeq({Score(truth, x[1], x[2]) : x \in b \X s})]

\* The difference shown is the difference of the two runs' rates.
TrueDelta(d, mb, ms) ==
    /\ \A v \in mb.recall, w \in ms.recall : d.rates.recall = {w - v}
    /\ \A v \in mb.precision, w \in ms.precision : d.rates.precision = {w - v}

RunsLaw(truth, b, s) ==
    /\ \A x \in b.file \X s.file : \A d \in DeltaReport(Folder(truth, b.file, s.file)) :
          TrueDelta(d, Metrics(truth, x[1]), Metrics(truth, x[2]))
    /\ \A r \in {b, s} : r.exit = 0 => \A x \in r.file : x.exit = 0

SameDelta(dir) ==
    \A d \in DeltaReport(dir), c \in Comparison(dir) : d.rates = c.rates /\ d.time = c.time

\* When the newest scoring file was made of the newest result files, the two
\* reports show the same rates and times, and each is the difference of what
\* was measured on the two sides, zero being a measurement.
DeltaLaw(truth, runs) ==
    LET b == BaselineMain(runs.baseline)
        s == SilentWitnessMain(runs.silentwitness)
    IN SameDelta(Folder(truth, b.file, s.file)) /\ RunsLaw(truth, b, s)

================================================================================
