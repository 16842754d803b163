------------------------------ MODULE LiveCritic ------------------------------
(* The live critic of an investigate run and the gate at the end of it.       *)
(*                                                                            *)
(* After every answer of the model a hook may put the new interpreted         *)
(* observations before detectors and a critic model, write the verdicts to    *)
(* critic.jsonl, tell the agent of the CHALLENGEs and move a watermark over   *)
(* findings.json that survives the run in critic_state.json.  The coverage    *)
(* gate sends a final answer back while a Key Question has no observation.    *)
(* `review`, another process, adds finding rows to the same file meanwhile,   *)
(* and takes rejected ones out of it.                                         *)
(*                                                                            *)
(* A row of findings.json is its kind, the observation it belongs to, how     *)
(* many interpretations it has and which Key Questions its text addresses.    *)
(* What the critic model says is any set of observations it challenges; what  *)
(* the detectors find depends on the latest interpretation (Contradicted).    *)
(* Writers of findings.json do not overtake each other here: that is the      *)
(* subject of FindingsStore.                                                  *)
EXTENDS Naturals, FiniteSets, Sequences, SequencesExt

CONSTANTS Question,       \* KEY_QUESTIONS
          Contradicted,   \* [oid, n]: interpretation n of oid trips a detector
          Interval,       \* SILENTWITNESS_CRITIC_INTERVAL_FINDINGS
          MaxBounces,     \* _MAX_COVERAGE_GATE_ATTEMPTS
          OutputRetries,  \* _OUTPUT_RETRIES
          RequestLimit,   \* cfg.max_iters
          MaxObs,         \* bound: observation ids
          MaxInterp,      \* bound: interpretations of one observation
          MaxRows         \* bound: rows of findings.json

ASSUME CriticAssumption ==
    /\ {Interval, MaxBounces, OutputRetries, RequestLimit} \subseteq Nat
    /\ {MaxObs, MaxInterp, MaxRows} \subseteq Nat
    /\ MaxBounces <= OutputRetries

VARIABLES
    rows,       \* findings.json, in file order
    saved,      \* critic_state.json: last_critic_finding_count
    late,       \* the interval in minutes has passed since last_critic_at
    logged,     \* observations with a CHALLENGE line in critic.jsonl
    mark,       \* CriticTrigger._state: the watermark in memory
    pending,    \* deps.pending_critiques: observations the agent is told of
    pc,         \* where the run is; "off" when there is none
    window,     \* the observations staged for the pass under way
    found,      \* the CHALLENGEs of the pass under way
    requests,   \* model requests of the run, the critic's included
    bounces,    \* deps.coverage_gate_attempts
    retries,    \* the agent's shared retry counter
    outcome,    \* how the last run ended
    reviewed,   \* ghost: [oid, n] a routed pass was about, in any run
    told        \* ghost: the same, in this run only

disk  == <<rows, saved, late, logged>>
pass  == <<window, found>>
count == <<requests, bounces, retries>>
ghost == <<reviewed, told>>
vars  == <<disk, mark, pending, pc, pass, count, outcome, ghost>>

-----------------------------------------------------------------------------
(* findings.json *)

Obs == 1 .. MaxObs
Row == [kind : {"observation", "finding", "narrative"}, oid : 0 .. MaxObs,
        n : 0 .. MaxInterp, about : SUBSET Question]
Reading == [oid : Obs, n : 1 .. MaxInterp]   \* an observation with its n-th interpretation

IsInterpreted(r) == r.kind = "observation" /\ r.n > 0
ReadingOf(r) == [oid |-> r.oid, n |-> r.n]

Observations == {k \in DOMAIN rows : rows[k].kind = "observation"}   \* by their places
Findings == {rows[k].oid : k \in {j \in DOMAIN rows : rows[j].kind = "finding"}}

\* analyze_coverage: some row's spans or justifications name the question.
Covered == UNION {rows[k].about : k \in DOMAIN rows}

-----------------------------------------------------------------------------
(* CriticTrigger *)

\* should_fire: a count of rows, whatever their kind, or the clock.
ShouldFire == Len(rows) >= mark + Interval \/ late

\* staged_findings_for_review: every interpreted observation past the watermark.
Staged == {ReadingOf(rows[k]) : k \in {j \in DOMAIN rows : j > mark /\ IsInterpreted(rows[j])}}

\* Mutant: the watermark moves to the end of the file.
AdvanceToEnd == Len(rows)

\* advance_after_review: past the leading run of interpreted observations.
Advanced ==
    CHOOSE m \in mark .. (mark + Len(rows)) :
        /\ \A k \in mark + 1 .. m : k \in DOMAIN rows /\ IsInterpreted(rows[k])
        /\ ~(m + 1 \in DOMAIN rows /\ IsInterpreted(rows[m + 1]))

-----------------------------------------------------------------------------
(* A run *)

Init ==
    /\ rows = <<>> /\ saved = 0 /\ late = FALSE /\ logged = {}
    /\ mark = 0 /\ pending = {} /\ pc = "off" /\ window = {} /\ found = {}
    /\ requests = 0 /\ bounces = 0 /\ retries = 0 /\ outcome = "none"
    /\ reviewed = {} /\ told = {}

\* A new process: what was pending is forgotten; a state file that is missing
\* or cannot be read counts as a watermark of 0 set now.
Start ==
    /\ pc = "off"
    /\ \/ mark' = saved /\ late' = late
       \/ mark' = 0 /\ late' = FALSE
    /\ pending' = {} /\ pc' = "ask" /\ outcome' = "none"
    /\ requests' = 0 /\ bounces' = 0 /\ retries' = 0 /\ told' = {}
    /\ UNCHANGED <<rows, saved, logged, pass, reviewed>>

Elapse ==
    /\ ~late /\ late' = TRUE
    /\ UNCHANGED <<rows, saved, logged, mark, pending, pc, pass, count, outcome, ghost>>

\* The process ends, and its memory with it.
Ends(how) ==
    /\ pc' = "off" /\ outcome' = how
    /\ window' = {} /\ found' = {}
    /\ mark' = 0 /\ pending' = {} /\ told' = {} /\ requests' = 0

\* Killed, or interrupted.
Die ==
    /\ pc # "off"
    /\ Ends("KILLED")
    /\ UNCHANGED <<disk, bounces, retries, reviewed>>

\* UsageLimitExceeded, before the request is made.
LimitReached ==
    /\ pc = "ask" /\ requests >= RequestLimit
    /\ Ends("MAX_ITERATIONS")
    /\ UNCHANGED <<disk, bounces, retries, reviewed>>

\* The model answers; after_model_request stages what there is to review.  A
\* hook that should fire but has nothing staged leaves the watermark alone.
Request ==
    /\ pc = "ask" /\ requests < RequestLimit
    /\ requests' = requests + 1
    /\ IF ShouldFire /\ Staged # {} THEN pc' = "critique" /\ window' = Staged
                                    ELSE pc' = "act" /\ window' = {}
    /\ UNCHANGED <<disk, mark, pending, found, bounces, retries, outcome, ghost>>

-----------------------------------------------------------------------------
(* A pass of the critic *)

\* run_contradiction_detectors over the staged window.
Detected == {r.oid : r \in window \cap Contradicted}

\* Mutant: the verdicts of the model take the place of the detectors'.
CritiqueOverrides(C) ==
    /\ pc = "critique" /\ requests < RequestLimit
    /\ requests' = requests + 1
    /\ found' = C /\ pc' = "route"
    /\ UNCHANGED <<disk, mark, pending, window, bounces, retries, outcome, ghost>>

\* critique: one more request on the run's own budget.
Critique(C) ==
    /\ pc = "critique" /\ requests < RequestLimit
    /\ requests' = requests + 1
    /\ found' = Detected \cup C /\ pc' = "route"
    /\ UNCHANGED <<disk, mark, pending, window, bounces, retries, outcome, ghost>>

\* No key, offline, no request left: the detectors alone.
CritiqueFails ==
    /\ pc = "critique"
    /\ found' = Detected /\ pc' = "route"
    /\ UNCHANGED <<disk, mark, pending, window, count, outcome, ghost>>

\* route_live_verdicts: the log first, then the agent's list.
Route ==
    /\ pc = "route"
    /\ logged' = logged \cup found
    /\ pending' = pending \cup found
    /\ pc' = "advance"
    /\ reviewed' = reviewed \cup window /\ told' = told \cup window
    /\ UNCHANGED <<rows, saved, late, mark, pass, count, outcome>>

\* Mutant: the list first, then the log.
RouteFailsAfterTelling ==
    /\ pc = "route"
    /\ \E part \in SUBSET found : logged' = logged \cup part
    /\ pending' = pending \cup found
    /\ pc' = "act" /\ window' = {} /\ found' = {}
    /\ UNCHANGED <<rows, saved, late, mark, count, outcome, ghost>>

\* An append raises part of the way: nobody is told, the watermark stays.
RouteFails ==
    /\ pc = "route"
    /\ \E part \in SUBSET found : logged' = logged \cup part
    /\ pc' = "act" /\ window' = {} /\ found' = {}
    /\ UNCHANGED <<rows, saved, late, mark, pending, count, outcome, ghost>>

\* advance_after_review, mark_fired: the file, then the memory.
Advance ==
    /\ pc = "advance"
    /\ saved' = Advanced /\ mark' = Advanced /\ late' = FALSE
    /\ pc' = "act" /\ window' = {} /\ found' = {}
    /\ UNCHANGED <<rows, logged, pending, count, outcome, ghost>>

\* mark_fired raises when the file cannot be written, and no one catches it.
AdvanceFails ==
    /\ pc = "advance"
    /\ Ends("FAILED")
    /\ UNCHANGED <<disk, bounces, retries, reviewed>>

-----------------------------------------------------------------------------
(* What the model answered *)

\* record_observation.
RecordObservation(about) ==
    /\ pc = "act" /\ Len(rows) < MaxRows
    /\ Cardinality(Observations) < MaxObs
    /\ rows' = Append(rows, [kind |-> "observation", oid |-> Cardinality(Observations) + 1,
                             n |-> 0, about |-> about])
    /\ UNCHANGED <<saved, late, logged, mark, pending, pc, pass, count, outcome, ghost>>

\* record_interpretation: one more in the observation's own row, with a
\* justification that may name further questions.
RecordInterpretation(k, more) ==
    /\ pc = "act"
    /\ rows[k].kind = "observation" /\ rows[k].n < MaxInterp
    /\ rows' = [rows EXCEPT ![k].n = @ + 1, ![k].about = @ \cup more]
    /\ UNCHANGED <<saved, late, logged, mark, pending, pc, pass, count, outcome, ghost>>

\* record_narrative: a row without interpretations.
RecordNarrative ==
    /\ pc = "act" /\ Len(rows) < MaxRows
    /\ rows' = Append(rows, [kind |-> "narrative", oid |-> 0, n |-> 0, about |-> {}])
    /\ UNCHANGED <<saved, late, logged, mark, pending, pc, pass, count, outcome, ghost>>

\* The batch of tool calls is done.
CallsDone ==
    /\ pc = "act"
    /\ pc' = "ask"
    /\ UNCHANGED <<disk, mark, pending, pass, count, outcome, ghost>>

\* An answer that is refused; past the shared budget that ends the run.
SentBack ==
    IF retries < OutputRetries
    THEN /\ pc' = "ask" /\ retries' = retries + 1
         /\ UNCHANGED <<pass, outcome, mark, pending, told, requests>>
    ELSE Ends("RETRIES") /\ retries' = retries

\* An output or a tool call that does not fit its schema.
Malformed ==
    /\ pc = "act"
    /\ SentBack
    /\ UNCHANGED <<disk, bounces, reviewed>>

\* Mutant: the gate gives up one bounce early.
GateSpentEarly == bounces + 1 >= MaxBounces

GateSpent == bounces >= MaxBounces

\* _enforce_question_coverage on a final answer.
Conclude ==
    /\ pc = "act"
    /\ GateSpent \/ Covered = Question
    /\ Ends("COMPLETED")
    /\ UNCHANGED <<disk, bounces, retries, reviewed>>

Bounce ==
    /\ pc = "act"
    /\ ~GateSpent /\ Covered # Question
    /\ bounces' = bounces + 1
    /\ SentBack
    /\ UNCHANGED <<disk, reviewed>>

-----------------------------------------------------------------------------
(* The review command *)

\* The interpreted observations that have no finding row, by their places.
Uncovered == {k \in DOMAIN rows : IsInterpreted(rows[k]) /\ rows[k].oid \notin Findings}

\* materialize_findings: a finding row for each of them, in their order, at the
\* end of the file.
Materialize ==
    /\ Uncovered # {} /\ Len(rows) + Cardinality(Uncovered) <= MaxRows
    /\ \E place \in [1 .. Cardinality(Uncovered) -> Uncovered] :
          /\ \A i, j \in DOMAIN place : i < j => place[i] < place[j]
          /\ rows' = rows \o [i \in DOMAIN place |->
                [kind |-> "finding", oid |-> rows[place[i]].oid, n |-> 0, about |-> {}]]
    /\ UNCHANGED <<saved, late, logged, mark, pending, pc, pass, count, outcome, ghost>>

\* _handle_reject: the finding's row leaves the file.
RejectFinding(k) ==
    /\ rows[k].kind = "finding"
    /\ rows' = RemoveAt(rows, k)
    /\ UNCHANGED <<saved, late, logged, mark, pending, pc, pass, count, outcome, ghost>>

Next ==
    \/ Start \/ Elapse \/ Die \/ LimitReached \/ Request
    \/ \E C \in SUBSET Obs : Critique(C)
    \/ CritiqueFails \/ Route \/ RouteFails \/ Advance \/ AdvanceFails
    \/ \E about \in SUBSET Question : RecordObservation(about)
    \/ \E k \in DOMAIN rows, more \in SUBSET Question : RecordInterpretation(k, more)
    \/ \E k \in DOMAIN rows : RejectFinding(k)
    \/ RecordNarrative \/ CallsDone \/ Malformed \/ Conclude \/ Bounce
    \/ Materialize

Spec == Init /\ [][Next]_vars

-----------------------------------------------------------------------------
(* Properties *)

\* Types of the files, the memory of the run and its counters.
TypeOK ==
    /\ rows \in Seq(Row) /\ Len(rows) <= MaxRows
    /\ saved \in 0 .. MaxRows /\ mark \in 0 .. MaxRows
    /\ late \in BOOLEAN
    /\ logged \subseteq Obs /\ pending \subseteq Obs /\ found \subseteq Obs
    /\ window \subseteq Reading /\ reviewed \subseteq Reading /\ told \subseteq Reading
    /\ pc \in {"off", "ask", "critique", "route", "advance", "act"}
    /\ requests \in 0 .. RequestLimit
    /\ bounces \in 0 .. MaxBounces /\ retries \in 0 .. OutputRetries
    /\ outcome \in {"none", "KILLED", "FAILED", "RETRIES", "MAX_ITERATIONS", "COMPLETED"}

\* critic_trigger.py, "never a silent skip": what lies under the watermark, in
\* memory or on disk, is an interpreted observation a pass has judged - through
\* failed passes, failed writes, restarts, and rows that review adds or removes.
NoSilentSkip ==
    \A k \in 1 .. (IF saved > mark THEN saved ELSE mark) :
        /\ k \in DOMAIN rows
        /\ IsInterpreted(rows[k])
        /\ \E r \in reviewed : r.oid = rows[k].oid

\* live_critic.py, "a model-free CHALLENGE floor": a contradiction that was in
\* a routed pass is in the log, and the agent is told of it in the run that
\* found it, whether the critic model answered, failed or was never reached.
DetectorFloor ==
    /\ \A r \in reviewed \cap Contradicted : r.oid \in logged
    /\ \A r \in told \cap Contradicted : r.oid \in pending

\* route_live_verdicts: the agent is never told of a CHALLENGE that critic.jsonl
\* does not have, wherever the writing of the verdicts fails.
PendingIsLogged == pending \subseteq logged

\* A run counts as completed only when every Key Question has an observation or
\* the gate has sent the model back as often as it may, whatever review does to
\* the file between the answer and the end of the run.
GateOutcome ==
    outcome = "COMPLETED" => Covered = Question \/ bounces = MaxBounces

===============================================================================
