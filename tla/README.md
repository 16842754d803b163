# SilentWitness: a TLA+ verification development

SilentWitness is a forensic investigation agent. A language model examines
registered evidence through a tool server, works hypothesis by hypothesis, and
records observations and interpretations with citations; a critic model
challenges them; an examiner approves findings under a password. What makes the
result worth anything is that its records can be trusted afterwards: the audit
trail is complete and unforked, every id means one thing, nothing recorded
disappears, what was signed is what is reported, and the agent's reasoning is in
its log. Those records are files, written by several processes that crash,
overlap and fail half way. That is what this project specifies.

Paths below are relative to `src/src/`.

## 1. The system

### Processes

| process | runs | writes |
|---|---|---|
| tool server (`silentwitness_mcp/server.py`, `_lifecycle.py`) | for a whole investigation; holds `audit/.lock` | `findings.json`, `audit/findings.jsonl`, `audit/<tool>.jsonl` |
| `investigate` (`silentwitness_agent/cli_commands/investigate.py`, `_investigate_runner.py`) | one agent run, with hypothesis stack, hooks and live critic | `audit/hypothesis.jsonl`, `audit/agent.jsonl`, `audit/critic.jsonl` |
| `review` (`cli_commands/review.py`) | on demand | `findings.json`, `findings.archived.json`, `audit/critic.jsonl`, `audit/cli.jsonl` |
| `approve` (`cli_commands/approve.py`) | on demand; holds `audit/.lock` and `.findings.lock` while it seals | ledger, `findings.json`, `audit/cli.jsonl` |
| `verify` (`cli_commands/verify.py`) | on demand | `audit/cli.jsonl` |
| `register-evidence`, `prepare`, `index` | on demand, by rights before an investigation; each holds `audit/.lock` while it writes | `evidence.json`, `prepared/`, `index.db`, its manifest, `audit/*.jsonl` |

They share nothing but the case directory: files, two file locks
(`audit/.lock` for the life of an `AuditLogger`, `.findings.lock` around a
rewrite of `findings.json`) and one lock per chained stream.

### Components

**Audit trail** (`audit/logger.py`, `audit/chained_jsonl.py`, `audit/chain.py`,
`silentwitness_common/atomic_io.py`).
State: the JSONL streams; in an `AuditLogger`, a sequence number and the last
hash of every stream. Operations: construct (scan the files for the largest id
and the heads), `next_audit_id` (reserve without writing), `emit`, `close`,
`append_chained_jsonl`, the verifier. Correct when audit ids are unique, every
stream is one hash chain, a stream that verifies has lost nothing, and a break
never disappears again. Hard: a cached head against a file others write;
appends that fail after the bytes are down; lines cut by a crash; restarts.

**Findings store** (`findings/_approval_store.py`, `observation.py`,
`interpretation.py`, `approval.py`, `critic_handler.py`, `review.py`,
`approve.py`). State: `findings.json` (observations, interpretations, findings
in one array), its archive, the ledger. Operations: record an observation or an
interpretation, materialize findings, route critic verdicts, reject, modify,
approve (seal, then flip). Correct when nothing recorded is lost, ids resolve,
what is APPROVED has a matching seal and what was sealed is accounted for.
Hard: whole-file rewrites by several processes; a verdict that arrives after the
file has changed, or about an id the model made up; an approval in three writes.

**Signed ledger** (`audit/ledger.py`). An append-only list of HMAC-signed
approvals, read by `verify`. Correct when forward (entry to finding) and reverse
(finding to entry) reconciliation agree with what was approved.

**Hypothesis stack** (`hypothesis/stack.py`, `budget.py`, `hypothesis_tools.py`,
`hooks.py`, `_investigate_runner.py`). State: one active hypothesis, a queue,
the history, a numbering resumed from `hypothesis.jsonl`; step counts; the finish
line of the run. Operations: form, confirm, pivot, abandon, the model request
that charges a step, the guard in front of evidence tools, and four ways to end:
completed, refused tool, usage limit, killed. Correct when hypotheses are worked
off in order, none is in two places or stuck, the log explains the stack, ids
are not reused, a finish line is true, and a run ends. Hard: a log write that
raises in the middle of an operation, and its line that may be there anyway; a
statement that is refused when half of a pivot is done.

**Investigator and coverage gate** (`investigator.py`, `coverage.py`). A
validator that sends the model back at most three times when required parts of
the evidence have not been looked at. Correct when it neither loops nor lets a
report through that it should have sent back.

**Live critic** (`live_critic.py`, `critic_trigger.py`, `_critic_state.py`,
`contradiction_detectors.py`). A watermark into `findings.json` that survives the
run, a state of pending critiques fed into the next model request, a log of
verdicts. Correct when no interpreted observation is passed over silently, a
contradiction the detectors found is logged and told, and the agent is told of
nothing that is not in the log. It never writes `findings.json`. Hard: rows of three
kinds counted alike, state files that cannot be read, a pass that fails half way.

**Recording tools** (`findings/observation.py`, `interpretation.py`, `narrative.py`,
`pivot.py`, their stores). State: the records, `audit/findings.jsonl`. A call writes
a record and then, in a `finally`, its audit row. Correct when what the agent was
told is recorded, every audit row is about a record that is there, and the
references of a narrative resolve. Hard: two files, one of them shared with the
agent's log, a raise between or during the two writes, and a row cut by the raise.

**Verification gates** (`verification/*.py`). Functions of the record, the quote and
the claim. Correct when a faithful quote passes and an entity nobody quoted does
not. Hard: the sanitizer rewrites what is later looked up.

**Evidence registry and preparation** (`evidence/registry.py`, `evidence/artifacts.py`,
`cli_commands/register_evidence.py`, `prepare.py`). Evidence with its hash; what is
extracted from images and nested archives. Correct when an id names one file
content for ever and everything an image holds is extracted or the loss is on
record. Hard: kills, partly unreadable files, names that fall together.

**Evidence index** (`index/*.py`, `detect/sigma_eval.py`, `cli_commands/index_case.py`,
`index_manifest.py`, `_tool_impls_index.py`). A SQLite index built from the
registry, a manifest that says which inputs it was built from, tools that answer
from it. Correct when an index that is reported current holds what a build from
these inputs gives, no record is lost or doubled without a word, and an answer
that leaves something out says so. Hard: kills during a rebuild; parsers that fail
after they have handed rows on, in any order of completion; limits.

**Views of a run** (`cli_commands/status.py`, `_live_render.py`, the `agent.jsonl` rows of
`hooks.py` and `_investigate_runner.py`). Readers of two logs while they are written.
Correct when they agree with the stack.

**Reports** (`report/*.py`, `cli_commands/export.py`, `verify.py`). `report.md` is drawn
after an approval, without its lock. Correct when `verify` would vouch for what it
presents as approved.

**Harness** (`harness/`, beside `src/`). Runners, scorer, delta report, dataset
manifests. Correct when the totals add up, both reports are about one pair of
runs, and what was pinned verifies.

**Starter cases** (`starter_cases/egnyte_share.py`, `cli_commands/starter_cases.py`). A
paged listing and a resumable download. Correct when the listing is whole and the
file in place is the share's file.

**Not of interest here**: installation, the web site, the npm wrapper, scripts.

How they interact: the model calls tools of the server; the server's recording
tools write the store and the trail. Hooks around each call keep the stack and
its log. `review` reads what the server wrote and changes it; `approve` reads
what `review` left; `verify` reads both ledger and store. Every arrow is a file.

## 2. Modules

| module | models | role |
|---|---|---|
| `AuditLog` | audit trail | component |
| `AuditLog_proofs` | | theorems |
| `FindingsStore` | `findings.json`, archive, ledger, server/review/approve | composition of four processes |
| `HypothesisLifecycle` | what the stack promises | abstract specification |
| `HypothesisStack` | stack, log, run | detailed specification, refines the one above |
| `HypothesisStack_proofs` | | theorems about the stack, its refinement and its views |
| `EvidencePipeline` | registry, `prepared/`, index with its manifest, tool server as their reader | composition of four kinds of process |
| `EvidencePipeline_proofs` | | theorems |
| `CaseReport` | report, export, verify's verdict | composed with `FindingsStore` |
| `FindingsStore_proofs` | | theorems about the store and its report |
| `RunViews` | `agent.jsonl`, status, live stack, event stream | composed with `HypothesisStack` |
| `LiveCritic` | live critic and coverage gate of a run, `review` beside it | component |
| `LiveCritic_proofs` | | theorems |
| `Recording` | the four recording tools and their audit rows | component |
| `Recording_proofs` | | theorems |
| `Preparation` | what one `prepare` extracts from an image or archive | functions |
| `IndexBuild`, `Feeders` | one build, and the readers of the artifacts | functions |
| `EvidenceQueries` | search, records, timeline, detections, stored output | functions |
| `Gates` | sanitizer, citation gate, entity gate | functions |
| `AccuracyHarness`, `Datasets` | scoring and deltas; dataset manifests | functions |
| `ReportBody` | the report's sections beside the claims, their references, PDF export | functions |
| `Corroboration` | tier of a finding, contradiction detectors | functions |
| `ShareDownload` | listing (functions) and resumable download (a specification) | both |
| `Loops` | what the functions use where the code loops, filters or sorts | operators |
| `Algorithms_proofs` | | theorems about the functions and the download |
| `Induction` | | lemmas every proof module uses: induction over sets of numbers, what the operators of `Loops` do |
| `MCAuditLog`, `MCFindings`, `MCHypothesis`, `MCRunViews`, `MCLiveCritic`, `MCRecording`, `MCEvidence`, `MCAlgorithms` | | instances for TLC |

### AuditLog

`file[s]` is a stream, a sequence of lines; a line that does not parse is junk, a
line may lack its newline. `up`, `seq`, `head` are an `AuditLogger`; `held` are
ids from `next_audit_id` still in some caller's hand. `Open`/`Close` are its
construction and end, `Emit` its `emit`, `AppendChained` is
`append_chained_jsonl`. `EmitFails` and `AppendChainedFails` choose what a failed
append leaves: nothing, part of the line, the line without its newline ("torn"),
or the whole line ("fsync"). `Breaks` is the verifier's pass, `Carried` the hash it
carries from line to line. A hash is the
sequence of the payloads that went into it, that is, it has no collisions; one
calendar day is modelled, because ids carry their day and start again each day.

### FindingsStore

`store` is `findings.json`, `archived` the archive, `ledger` the sealed claims.
Writers that read and rewrite under `.findings.lock` are one action; `approve`
(`ShowFinding`, `LockAndRead`, `AppendToLedger`, `Flip`) and the routing of verdicts
(`Materialize`, `AskCritic`, `Route`, `WriteRouted`) take several, with an ending at
each point (`ApproveEnds`, `ReviewEnds`) that stands for an error and for a kill.
A verdict function assigns any verdict to any finding id: the model's answer is
about findings it saw earlier, or made up. `MaterializeFails` is the review whose
materializing fails and whose critic goes on with the file as it is. The text of a record never changes
after it is written, so its id stands for it.

`Overlap` is a parameter: with TRUE, other writers may act between the read and
the write of a routing, as the code allows (it takes no file lock); with FALSE they
do not, which is what holds when nobody else works on the case at that moment.
`LedgerCuts` lets a ledger line be cut; the next one is merged with it and
`read_all` refuses the ledger from then on (`Legible`).

`CaseReport` adds the report on disk and the one being drawn. `FlipAndDraw` is the
end of a successful approval, `DrawReport` reads `findings.json` without a lock,
`WriteReport` replaces `report.md`, `Export` draws at any time. `VerifyExit` is the
command's exit code from the forward and the reverse pass.

### HypothesisStack and HypothesisLifecycle

`seq`, `active`, `queued`, `outcome` are the fields of `HypothesisStack`, `log` and
`torn` its file. Every operation is one action, since the stack's lock is held
throughout it. `Writes` is the fate of its log line: written, not written, written
though the write raised, or cut. The code's order matters and is kept: `form`
and the second half of `pivot` change the stack first and log second, `confirm`,
`abandon` and the first half of `pivot` the other way round; a raise ends the run.
`Request` is one model request, which charges a step to the active hypothesis and
brings a batch of tool calls. `Complete`, `BlockedCall`, `UsageLimit` and `Die` are
the ends of a run, `Start` the next one, which resumes the numbering.

`BlankForm` and `BlankPivot` are the same tool calls with a statement that is blank once
stripped. `_form_locked` has taken the next number when `Hypothesis(...)` refuses it
(`stack.py:240`), which alone costs a number. In a pivot the parent is history and the
active slot empty by then (`stack.py:175-186`), and the queue is not promoted. The tool catches
`InvalidTransition` only; whether what it lets through ends the run or reaches the model
as an error is the library's business, so both are modelled (`CallReturns`, `CallRaises`).
`childless` is a ghost that says this has happened in the run. From then on `form` fills the
queue, no promotion can happen, and evidence tools are refused: the properties say what
still holds then and that nothing else leads there.

`HypothesisLifecycle` knows only a status per hypothesis: unformed, waiting,
active, or an outcome. `PivotAlone` is its step for a pivot without a child.
`StatusOf` is the refinement mapping.

### RunViews

Each hook hangs on its step of `HypothesisStack`: the row it appends to
`agent.jsonl`, with its own failures, and what the live stack shows. The hooks are
given as audit, display, critic, and the library calls what comes after a request in
the reverse order: the screen is drawn before the audit hook charges the step
(`ViewRequest`), so a step just made is on it after the next event only. `Poll` is the
reader of the event stream, which looks at `hypothesis.jsonl` whenever it likes, and
`Return` its last look. Status is an operator over both logs (`CaseStatus`, `Shown`). Rows about single tool calls are left out, because no
reader uses them.

### LiveCritic

`rows` is `findings.json`, a row being its kind, its observation, the number of its
interpretations and the Key Questions it addresses. `Start` reads the state file,
`ShouldFire`, `Staged` and `Advanced` are the trigger's methods. A pass is `Detected` (the
detectors), the critic model, `Route` (log the verdicts, then tell the agent) and
`Advance` (the watermark), with a failure at each: `CritiqueFails`, `RouteFails`,
`AdvanceFails`. The coverage gate bounces a final answer (`SentBack`, `Conclude`), and
`Malformed` answers share its counter. `Materialize` and `RejectFinding` are `review`.

### Recording

A call is reserve, gate, write, audit row, answer. Each write works, fails, or fails
after the bytes are down; the server may die between any two. The agent's own
appends to `hypothesis.jsonl` come in between, and a cut line of one takes in the next
line of the other. `audit` is `audit/findings.jsonl` line by line. A failed append of a
row leaves nothing, a cut row, a row without its newline, or the row (`AfterFailedRow`),
and the next row is merged with one that is not ended (`Written`); `Rows` is what a reader
can take from it.

### EvidencePipeline

`registry` is `evidence.json`, `disk` the extracted artifacts, `db` and `manifest`
what `index` leaves, `trail` the audit rows, `owner` the holder of `audit/.lock` and
`seq` that holder's sequence number. An artifact's content is the image it comes
from and whether the copy is whole; a content is its own SHA-256. One directory of
`prepared/` stands for the one artifact in it, and `Stem` gives the directory an
image is extracted into, the stem of its file name as `prepare.run` takes it.

`RegisterStarts`, `RegisterFile`, `RegisterEmits` are `register_evidence.run`;
`PrepareLists` to `PrepareRegisters` are `prepare.run`, with the copy in two steps so
that another command, or a kill, can see the file between them; `IndexLists` to
`IndexEmits` are `index_case.run`, which reads the registry before it asks for the
lock, reads it again when it builds, and writes the manifest of the first reading.
`RegisterDies`, `PrepareDies`, `IndexDies` end a command anywhere, and the kernel
gives the lock back. `Cite` is an observation that takes the audit id of the row it
quotes. `sealed` is a ghost that says the manifest is that of the index it lies
beside. Archives go the way of images here; `Preparation` tells them apart.

### Modules of functions

`Preparation`, `IndexBuild`, `Feeders`, `EvidenceQueries`, `Gates`, `ReportBody`,
`Corroboration`, `AccuracyHarness`, `Datasets` and the listing of `ShareDownload` model
code that computes an answer from its inputs and leaves no state. Each ends with its laws, predicates over any
input that compare the code's function with an independent statement of what it
should give. `MCAlgorithms` enumerates inputs, one state for each, and states one
invariant per component from these laws. `Loops` has the four forms of loop they are written
with: `Walked` for a loop that changes what it has, `Among` for a filter, `Chained` for
lists put behind each other, `Ordered` for a sort; each can be unfolded in a proof, as the
libraries' own cannot. The download of `ShareDownload` is a
specification of its own (`DSpec`); `MCAlgorithms` runs it as one more input. The one
place where an order matters in a function is the build, whose parsers run in a
pool: `done` is the order they finish in, and every one is enumerated.

## 3. Checks

| run | bounds | shows |
|---|---|---|
| `audit_clean` | 1 emit stream, 1 chained stream, 4 appends, 4 ids, no faults | ids unique across writers and restarts, chains whole |
| `audit_faults` | 4 appends, 3 ids, torn and fsync faults | the verifier is exact, a verified stream is complete, breaks are permanent |
| `audit_fork` (violation) | one stream for both writers, 3 appends | `cli.jsonl` forks |
| `findings` | 1 reviewer, 2 observations, 2 interpretations, 2 findings, 2 ledger lines, cut lines, no overlap | records are not lost, findings resolve, APPROVED is sealed, seals are accounted for, removal follows archiving, a report is vouched for |
| `findings_lost` (violation) | 1 reviewer with overlap | routing overwrites a record written meanwhile |
| `hypothesis` | 2 runs, 4 ids, 3 requests of up to 2 calls, 2 faulty writes, blank statements | refinement of the lifecycle, only a pivot without its child leaves a queue behind nothing, log explains stack, ids once, truthful finish, runs end |
| `views` | 2 runs, 3 ids, 2 requests of up to 2 calls, 1 faulty write in each log | status and live stack agree with the stack, an event is printed once and none is missed |
| `evidence` | 2 images with one stem, 2 index commands, with and without plaso and `--force`, 1 fault, 6 audit ids | prepared files are traceable, an index is of one build and stands still while it is served, a manifest covers what its build parsed |
| `evidence_stale` (violation) | 2 images, 1 index command, 1 kill, 8 ids | a killed rebuild passes for current |
| `critic` | 1 question, 2 observations of 2 interpretations, 3 rows, interval 2, 4 requests, 1 bounce, 2 retries | nothing is skipped silently, detectors hold when the model fails, the agent hears only of what is logged, the gate is bounded and not bypassed |
| `recording` | 4 calls, 1 line of the agent, 2 observations, failures of every write | acknowledged records are kept, audit rows are true, narratives resolve |
| `algorithms` | see below | the laws of the functions; a download ends with the share's file |

Why the bounds are enough. Audit: a fork or a reused id needs two rows of two
writers and a restart between them; a merged line needs a cut line and two
appends; four appends leave one to spare. Findings: two observations and two
interpretations let one observation be covered while another is not, a finding
be removed and made again under the same id from a later interpretation, and two
seals be of the same id. The constraint `SealsOrObservations` leaves out states with two
seals and two observations together: two seals meet in the claims of one observation,
two observations in one seal. Hypotheses: four ids make a queue of three, long enough
for a wrong order of promotion to show with a pivot in front; two runs with two
faults allow a cut line at the end of one run that the next one's line is merged
with; a pivot to nothing with a queue behind it takes three ids. Views need one queue and one interrupted run before the one that is watched.
Evidence: two images of one name are what it takes for one to overwrite the
other, two index commands for one to run beside the other, and six ids let a
registration, a prepare of both images, and two builds follow each other; one
fault is one kill, failed read or failed parse at any point of that. Critic: an
interval of two and three rows give a pass over one row, over two, and a watermark
that waits behind a row that is no observation. Recording: a cut line, the line
merged with it, a retry and a narrative about both are four calls, and one line of the
agent is enough for a pivot to leave, or for a cut that takes a pivot's line in.

Inputs of `algorithms`: two ground truths over two substrings, two findings or one with
two paths; pairs of runs that succeed, time out, drift or exit badly; two matches
against two quotes of up to three characters; raw texts of four characters;
folders of four entries on three pages of two; images of two filesystems with three
kinds of file each, two of which fall together when their names are cleaned; three
nested archives of two members under a `MaxArchiveDepth` of 2, so that the third is
opened from the first and refused from the second; two artifacts in every order of
completion with every way a parser or an insert fails, one memory image with five
outcomes per plugin, one disk image with every failure; two packs of two rules;
files of two or three entries per reader, a journal of four stretches with a zero
block of two units (`ZeroSkip`), prefetch files with more names than a row takes
(`MaxFiles`, 60 in the code) and texts longer than it takes (`MaxText`, 8192), transcripts of four lines with a header scan of two
(`HeaderScan`); query limits to three with a cap of two (`MaxLimit`), texts of five lines;
manifests of two files. For a report, two observations with at most one reading and
findings on different observations, texts of up to two words under limits of 1 to 10
words, spans of up to two tags (four joined), an audit directory of two files with up
to two lines, each thing a PDF needs missing in turn. For tiers, three records of four kinds of tool in
up to three spans; for the detectors, up to two citations and five times, each with
and without a `Z`. The download has a file of three blocks, two retries per
command (`MaxRetries`) and four faults (`MaxFaults`), so that two commands can fail
and a third finish. In each of these an entry can stand before and after the one
that fails, which is what loss, doubling and misplaced counts need.

Every bound is a constant named in its module or in `MCAlgorithms`. `CHECK_DEADLOCK FALSE`
is set where a run's program really ends: the last run of a case (`hypothesis`, `views`),
the last call (`recording`), a finished computation (`algorithms`), and the evidence
runs, where the audit ids may be used up. The `findings` runs check for deadlock, which
says that no ending of an approval keeps a lock.

Every property has a mutant, a changed definition such as a plausible bug would
give, that makes TLC refute it. They stand in the modules, apart from the
definitions they change, and nothing else uses them.

### Fairness

`HypothesisStack`: `WF_vars(AgentStep)` says that while a run is under way the model
answers or fails and tools return; both have timeouts outside this model. The end
itself is not assumed: it follows because requests are bounded by `RequestLimit`
(`max_iters`, given to the library as its usage limit) and a batch is finite. `Start`
and `Die` have no fairness. `RunViews` assumes the same of the steps with their hooks.

`ShareDownload`: weak fairness of the command's own steps (`Working`), since every
request has a timeout, and of starting it again (`Start`), since the command is
documented as resumable (`starter_cases.py:126`, `egnyte_share.py:18`). Faults are bounded by `MaxFaults`.
`DownloadGetsThere` then says that repetition ends with the file in place.

### What the violations are

1. `audit_fork`: `append_chained_jsonl` and `AuditLogger.emit` both write `cli.jsonl`
   under different locks, so its chain forks.
2. `findings_lost`: `handle_critic_verdicts` does not take the findings lock.
3. `evidence_stale`: a rebuild removes `index.db` but not its manifest; if it is killed
   after its first rows, the next `index` says "index already current".

## 4. Proofs

`Induction` is what the others rest on where a definition is recursive or a file has
any length. The library's induction theorems take the property as an operator, which
the provers cannot instantiate; here the property is a set of numbers
(`SetInduction`, `IntervalInduction`), and the equation of a recursive function is
itself a function (`RecursionExists`), so a lemma such as `CarriedIs` first shows that
the recursion defines something and then unfolds it one line at a time.
It also holds what is proved about `Loops`: `Among` and `Chained` have the members they
should, `Ordered` puts a finite set in its order, a sum over a set is the sum over its
parts, and a `while` loop defines something whether or not it ends (`LoopExists`).

`AuditLog_proofs` has two parts. `AuditIdsAreUnique`, `ChainsAreIntact` and
`EmittedIdsAreFresh` hold for any streams and any bounds from two hypotheses: `NoFault`
(an append writes its line or nothing) and `SeparateStreams` (no stream has both kinds of
writer). Both are needed; `audit_faults` and `audit_fork` show what happens without. The
invariant `IInv` adds to the properties what the code relies on silently: while a
logger is up its cached heads are the hashes on disk (`HeadsCurrent`) and its counter is
above every id on disk (`CounterAhead`); a reserved id is not on disk yet
(`HeldUnwritten`), so the writer that receives it cannot duplicate one.
`TypeCorrect`, `VerifierIsExact`, `VerifiedIsComplete` and `BreaksArePermanent` have no
hypotheses: whatever fails and whoever shares a stream. That the verifier's one pass is
exact is an induction over the lines of a file (`BreaksIffChain`). `FaultInv` says that
an acknowledged row is a line that can be read or its file is damaged
((`AckedSurvive`), and that rows stand in the order of their writes (`RowsInOrder`);
`NoneMended` says that no append makes a chain of a file that was none.

`HypothesisStack_proofs`: `TypeCorrect`, `QueueWaitsBehindWork`, `HypothesesHaveOnePlace`,
`IdsAreLoggedOnce`, `FinishIsTruthful`, `LogIsTruthful`, for any bounds and with every
fault. `IInv` is three parts. `StackInv`: the queue is ascending and its members are
unformed in the history, nothing waits without an active one but behind a pivot that
lost its child, ids above `seq` are unused. `LogInv`: no logged id is above `seq`, which is what makes a new id new; it
survives a restart because the resumed `seq` is the largest id of the same readable
lines. `RunInv`: a running run has no finish line, and steps do not exceed requests.
`LogTells` is the invariant behind `LogIsTruthful`: while no write of the run has failed,
each outcome is in its lines, the last one is whole, and unless a pivot lost its child
replaying them gives the stack (a reader cannot tell the child that never came from the
next hypothesis formed);
`Replayed` is unfolded at the end of the log (`ReplayedIs`, `ReplayedAppends`), and each
operation is shown to append the lines that `Reads` turns into its own effect, those of
an `after_run` that closes everything included.

`StackImplementsLifecycle` is the refinement: every step of the stack is a step of the
lifecycle or leaves all statuses alone. The induction of `IInv` carries over; the work is
in showing that the head of an ascending queue is the oldest waiting hypothesis, and
that closing the first k open hypotheses is one abstract abandonment.

`EventsArePrintedOnce` and `ViewsAreTruthful` are about `ViewSpec`, the stack with its
readers. Every step of it is a step of the stack or leaves the stack alone, so `IInv`
and `LogTells` hold there too (`ViewSteps`). `LogCounts` adds what `status` counts on when it
has only the log: each hypothesis has its FORM line, and nothing is logged about it
behind its outcome. `ViewsInv` is five parts: what the reader of the event stream has
gone through is what it has printed, a cut line as nothing (`TailInv`); a run that came
to a result is over (`ExitInv`); the screen was drawn from the stack as it is
(`ScreenInv`); `agent.jsonl` has the step rows it should unless a write of it failed, and
ends with the finish row a run has told of (`RowsInv`); and before the second run no line
has been spoilt by a cut one (`FirstRunInv`).

`LiveCritic_proofs`: `TypeCorrect`, `NothingIsSkipped`, `DetectorsAreHeard`, `ToldIsLogged`,
`GateIsHeld`, for any bounds and any choice of the readings a detector contradicts, with
every failure and with `review` beside the run. `IInv` is five parts. `RowsInv`:
observations are numbered without gaps, and only they carry interpretations or cover
questions. `RunInv`: types, and a running run has no outcome yet. `FloorInv`: while a
pass is between the model and its routing, what the detectors found is among what
is routed. `WindowInv`: every interpreted row of a pass under way is behind the
watermark it read, also after `review` has added or removed rows meanwhile. `MarkInv`:
every row below a watermark was judged. The last two need that `Advanced` stops at the
first observation that has no interpretation; a least-element argument (`LeastExists`,
`AdvancedIs`) gives it.

`FindingsStore_proofs`: `TypeCorrect`, `FindingsAlwaysResolve`, `ApprovalsAreSealed`,
`SealsAreAccountedFor`, `RecordsAreKept`, `RemovalsAreArchived`, for any number of reviewers,
records and ledger lines, with ledger lines cut and verdicts late or misnamed, under one
hypothesis, `NoOverlap`: nobody else writes between the read and the write of a
routing. The code does not see to that, and `findings_lost` shows what happens
without; the theorems say that nothing else is needed. `WindowInv` carries the
hypothesis through a routing: what it will write is `findings.json` as it is with the
verdicts applied, the rejections among them archived already. `HoldInv`: approve's copy
is current while it holds the lock. `SealInv`: what is APPROVED or about to be has its seal
in a ledger that can be read. Every writer is then shown to satisfy one relation
between the store before and after (`Follows`), from which each property follows.

In the same module, `CaseKeepsStore` says that the store with its reports is still a store,
so the theorems above hold of a case; `ReportsAreVouchedFor` is about the report, however
long after its drawing it is written: seals are only added, so a claim that was sealed
when it was drawn still is.

`EvidencePipeline_proofs`: `TypeCorrect`, `RowsAreOfOneBuild`, `ArtifactsAreTraceable`,
`ManifestsAreKept`, `IndexIsStable`, for any images (also ones that share a stem), any
number of index commands and any kills and failed reads, from `PipelineAssumption`.
All of it rests on one argument: who writes holds `audit/.lock`, so a step of one
command finds the state its own last step left. `PrepInv` says so of `prepare` (what it
extracted is still on disk when it registers it, under the id of the row it has just
written), `Answers` of an index command: everything it was asked for is waiting, among the
rows, or among the failures, and what is waiting has no rows. That a build covers a
listing older than its lock holds because the registry only grows (`WorkCovers`).
Nothing is proved about `CurrentIsComplete`, which is false (`evidence_stale`).

`Recording_proofs`: `TypeCorrect`, `WhatIsToldIsKept`, `TheTrailIsTrue`, `NarrativesAreGrounded`,
for any number of calls, lines of the agent and observations, with every write that
fails, having done its work, part of it or nothing, and every death of the server. `FilesInv`
bounds the pivots in the log by the number of calls, which is what makes a pivot's id fit.
`TrailInv` is about the lines of the trail: an acknowledged claim shares its line with no
other and is in no line without its end. `WhatIsToldIsKept` is weaker than one would wish and
as strong as the code: the acknowledged row that follows a cut one cannot be read, but it is
alone in a line that shows the damage, since the row that was cut was not acknowledged.
`CallInv` says what a call under way may rely on: the id it was given is on no row
(`Fresh`), its references hold or the log is unreadable, and what it is about to claim
is there. The step of it that is not obvious is the pivot's id, read from a log that
another process writes to before the line is appended: it stays fresh because the
agent's lines name no pivot and a server works on one call at a time. `Grows` is what
every write does to the files, a cut line included (`AppendedIs`): a pivot leaves
the log only when the log becomes unreadable, and it never becomes readable again.

`Algorithms_proofs` proves laws of the functions for every input, and the download.
`DownloadsResumeWhole`, for any file, any number of attempts and
any errors, kills and damage: `DInv` says that the part is a head of the share's file
(`IsHead`), that what an answer has still to give is exactly the rest of it
(`IsRest`), and that the digest is of the part; a kill may cut the part anywhere, and a
head of a head is a head. The others:

- `ListingIsWhole`: a listing repeats nothing, however the folder changes between its pages;
  one that ends without an error lacks nothing of a folder that only grew, and is the
  folder when it stayed as it is. The offset is the number of entries so far, and as many
  different entries as the folder has are all of it (`AllListed`).
- `TextsAreReadWhole`: the windows in which a stored output is read, put together, are its
  lines: each starts where the last one ended and brings at least one line.
- `ManifestsStayTrue`: pinning a manifest again changes nothing (`RepinnedIs`), and the
  verifier's exit code is what the entries deserve (`VerifyExitIs`). `PinsHold` says it
  of the inputs of the run.
- `QuotesAreAccepted`: a quote of what the model was shown, without a marker and with
  nothing taken out in between, is found in the raw text, as each character shown is at
  its own place there or is a marker (`ShownIsKept`).
- `EntitiesAreQuoted`: the entity gate blocks what no quote has, and nothing else. The
  matches it takes are disjoint and every match overlaps one of them (`TakenIs`), and a
  name without a line break stands in the joined quotes only if it stands in one
  (`StandsInJoin`). So the theorem is about names without a line break (section 5 has
  the case of one with), and quotes that are not empty. `GatesHold` says both laws of the
  inputs of the run.
- `TiersAreEarned`, `ChallengesAreBorneOut`: the tier of a finding and the contradiction
  detectors, for any spans, index, claim and citations. The kinds of evidence and the
  different records are sets, so that a tier is a statement about their sizes, and more
  citations can only add to them; a detector looks for what no citation has, so more
  citations can only silence it. The only hypothesis is that a time in a text is a moment
  in a form that the pattern knows.
- `VerdictsFit`: the scorer. A malformed finding counts as nothing, the counts of the classes
  add up to the findings scored, no ground truth is both credited and missing, and a
  finding's verdict does not depend on the order of its paths. `DeltasAreTrue`: both
  delta reports show the same differences of rates that were measured. `AccuracyHolds`.
- `AnswersStand`: search, timeline and records, for an index of any size: what an answer
  names can be fetched again and is redacted exactly when the row is poisoned, and an
  answer shorter than its limit is complete. `DetectionsStand`: the summary of
  detections. The sum over the buckets is the number of detections (`SumOverParts`), and
  the walk over the levels takes the newest of each until there is no room. Its hypothesis
  is that a row from a level's table is an alert, as `sigma_eval` writes them. `AnswersHold`.
- `SummariesAreWhole`, `ClaimsAreAllTold`, `TechniquesAreCarried`, `PdfsResolve`: what `report.md`
  and its PDF draw from the approved claims, for any findings, observations, readings and
  audit files. A bullet is never empty of its claim, so an uncut summary tells of exactly
  the claims that have a text (`BulletIs`, `SummaryWordsAre`); the timeline is the lines of the
  claims in another order (`SortedIs`, `PermutedCount`), so each keeps its number; the tables of
  indicators and techniques are described by what each step adds to them
  (`IndicatorsAre`, `TechniquesAre`), an interpretation or a finding having no spans; the
  references of the PDF lie between the ids behind the claims and those with the ones in
  the texts (`ExtractedIs`), and an exit code of 0 means that every one was found
  (`BrokenIs`). Hypotheses: an observation has no two readings of one id (for the
  summary), it is one of finitely many, and no audit id is the 0 that stands for a missing
  or malformed one (for the PDF). `ReportHolds` says all four, and the laws of tiers and
  challenges, of the inputs of the run.

- `ImagesArePrepared`, `NestsAreUnpacked`: what `prepare` extracts and registers, for any
  image of finitely many files and any nest of archives. The copies of an image are those
  of what its targets ask for (`WantedIs`, `ExtractedAre`); where no two fall on one path,
  what they leave behind is the copies themselves (`CopiesAre`), so that each registered
  digest is of its own file (`ArtifactsAre`). Registering takes in every file or fails
  on one that is missing or has changed (`RegisteredIs`), which makes a second run a
  repetition (`PreparedOnce`). `decompress_archive` is a `while` loop whose stack grows and
  shrinks: some function maps every state to what the loop makes of it (`LoopExists`,
  a least relation closed under the loop's step), and by induction on how much deeper the
  walk may go, and within it on how many archives lie above a stack, the loop is
  either broken off or comes back to that stack with exactly the leaves in between
  (`PopsNext`, `PopsMany`). An archive may contain itself: the depth bound ends it.
  `EvidenceHolds` says both laws of the inputs of the run.

The lemmas under these are in `Induction`.

Constants are assumed to be what the named assumptions of the modules say
(`AuditAssumption`, `FindingsAssumption`, `PipelineAssumption` and so on): bounds are natural
numbers, faults are known kinds, names of processes and files are different. The type
invariants of `AuditLog`, `HypothesisStack`, `FindingsStore`, `EvidencePipeline` and
`Recording` are proved and not run.

Every invariant and action property of the component runs is now a theorem.
Model-checked only: `RunEnds` and `DownloadGetsThere` (liveness), and one invariant of
functions, `IndexAccountsForEvidence`. Its modules (`IndexBuild`, `Feeders`) recurse over
journals and sum with the libraries' folds; what such an operator computes for every
input is an induction over data that the provers cannot take from the libraries'
theorems. Each would first have to be written with `Loops`, as the modules above are.

## 5. Not modelled, and what was read on the way

Not modelled:

- `HypothesisStack.dispatch` and `BudgetEnforcer.check_dispatch`: no caller.
- Cryptography, key derivation, passwords: taken to be correct.
- The patterns of the sanitizer, of entity extraction and of the normalizer, the text a
  detector or the report looks for: what they match is an input.
- The report's overview and gaps sections, and its wording: text from a few fields.
- Binary formats, full-text ranking, mounting, drawing, installation,
  argument parsing, prompts and specialists, build scripts: input and output without
  protocol, or another project's code.

Behaviours of the code met while it was modelled that no run refutes, because no
document promises otherwise in a form a run could check, or because the model's
assumptions or properties name them:

- *Runs.* A blank statement uses up a number. In a pivot it leaves nothing active over the
  queue; `_close_open_hypotheses`, whose docstring says that it abandons "active and queued
  hypotheses before writing a completed finish line" (`hooks.py:90`), looks at the active one
  only, so that such a run is COMPLETED with hypotheses still queued. Without the
  `childless` in `FinishClosesStack`, TLC shows a run that ends so with no failed write. The stack is built without a budget enforcer, so no hypothesis is ever
  abandoned at its budget. `--resume` asks only whether any checkpoint row was ever
  written and starts afresh. The live screen is not refreshed after `after_run` has
  closed the hypotheses, and a pivot's flash never shows. `status` shows the end of the
  earlier run while a second one is under way, and ABORTED of an interrupted second
  run with the first one's hypotheses; its token and step counts are sums over all runs.
  A merged line with another behind it makes `status` refuse (exit 2) for good. A
  finish row that is lost leaves INVESTIGATING behind exit code 0. The event stream of
  a second run prints the first one's events again.
- *Findings.* A finding the examiner REJECTED can be approved. `approve` shows a block,
  asks for the password and locates the finding again by id: a finding rejected and
  made again meanwhile is sealed under the id of the one that was shown. A cut
  ledger line takes in the next seal: that finding is APPROVED, `approve` ends with 2, and
  the ledger can never be read again. An id reserved by `next_audit_id` is handed out
  again after a restart, and index rows and search results carry ids that have no
  audit row.
- *Recording.* A cut line in `hypothesis.jsonl` makes `record_pivot`, and narratives that
  cite pivots, fail with AUDIT_STORE_CORRUPTED for good; an acknowledged pivot can be
  taken in by a line the agent cuts. A failed audit row refuses a record that is stored,
  so that a retry doubles it. A cut audit row takes in the next one, that of a call the
  agent was told has succeeded; `verify` reports the line.
- *Live critic.* It fires again and again behind an observation without
  interpretation; an interpretation added below the watermark is never reviewed.
- *Reports.* For an unreviewed observation the report shows the first interpretation,
  while its finding is about the latest; a rejected finding's observation appears as
  unreviewed. The report is REVIEWED as soon as one finding is approved. Nothing draws
  it after a review, and `export --pdf` renders the one on disk. `verify_links` says the
  writer aborts on broken references; only the PDF path calls it. `status` counts
  observation rows as staged findings.
- *References of a report.* Every index row carries the one id that `index` took from
  `next_audit_id` (`index_case.py:179`), and no audit row ever has it, since the row the
  command writes takes the next one. A record cited from the index therefore gives its
  approved finding a `[verify:F-.../...]` nobody can resolve, and `export --pdf` ends with
  BrokenVerifyLink; `../docs/ACCURACY_REPORT.md:129` calls the id "the `audit_id` of the
  extraction that produced it". `ReportIsBorneOut` says of the PDF only that none is
  written with a reference that does not resolve. References of unreviewed observations
  begin with `O-` and are not matched; the finding a reference names is not looked at.
  `verify_links.py:25` says the appendix emits the anchors links point at; it emits none.
- *Sections of a report.* A technique is taken only right behind a word, so of two
  techniques after one tactic the second is dropped; a technique keeps the first
  tactic it is met under; the table is of all observations, approved or not. The marker
  of a cut summary comes on top of its 500 words, so it can have 505. The gaps
  section reads a `case_state.json` that no part of the program writes.
- *Detectors.* Before a `Z` the pattern of a time gives up the seconds, and finds
  nothing in a time of minutes or a date: `08:30:00` against a cited `08:30:00Z` is
  challenged, `08:30:15Z` against `08:30:59Z` is not. A bare date is not found in a
  cited time of that day.
- *Gates.* A quote may cut a token; an entity with a line break can match across two
  quotes; the sanitizer's events do not correspond to markers one to one when
  characters are stripped.
- *Preparation.* A second input of the same stem is written over the first's directory,
  archives included. Locations that differ in `$` and `_` fall together: one overwrites
  the other, or removes it, and `prepare` then ends with an uncaught error. The same
  location on a second partition is not extracted.
- *Index.* `ingest_memory` expects `sqlite3.Error`, but `bulk_ingest` raises
  `EvidenceIndexError`, so a failed insert of memory or plaso rows ends the command. With
  `journal_mode=OFF` the rollback that `bulk_ingest` calls atomic is undefined. A
  targeted malfind that is skipped counts 0 rows like one that found nothing. Artifacts
  of no known kind, events without an id and registry entries that are no
  dictionaries are dropped uncounted. The parser's deadline is one alarm that a broad
  `except` swallows. A prefetch row takes the first 60 names and 8192 characters; what is
  beyond is in no count, which the comments at `feeders_prefetch.py:24-26` announce (its
  docstring speaks of files that cannot be parsed, and those are counted), so the law of
  `Feeders` asks for the row and the names within the caps. An image whose `umount` fails
  stays mounted and nothing says so (`Unmount`).
- *Harness.* `_extract_metrics` sets two counts to None, so their defaults never apply;
  the baseline has no time field, so the hand-off delta is always n/a; the SilentWitness
  runner's timeout exits with 5 where its docstring says 4; its findings never carry
  cited paths, so all of them score as hallucinations; failed and timed-out runs are
  compared unmarked. `recompute_manifest` takes the first file that is present for the
  primary one, the schema the first in the list.
- *Starter cases.* A command killed between the last byte and the rename leaves a whole
  `.part` whose range request is refused (416) ever after. A share that is replaced
  between two attempts gives a mixed file. An empty checksum file makes every later
  run end with an uncaught error. An entry deleted between pages makes a listing
  skip another.

## 6. Plan

1. `AuditLog`, `HypothesisStack`, `FindingsStore` with `CaseReport`, `EvidencePipeline` with
   `Preparation` and `IndexBuild`, `LiveCritic`, `Recording`, `RunViews`, the functions:
   modelled and checked.
2. Theorems about every invariant and action property of the component runs: done.
3. The laws of the functions: manifests, paging, gates, tiers, challenges, scoring, answers,
   detections, the report and the preparation are done. Left: the laws of `IndexBuild` and
   `Feeders`.
