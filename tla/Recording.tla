------------------------------- MODULE Recording -------------------------------
(* The four recording tools of the tool server: record_observation,           *)
(* record_interpretation, record_narrative and record_pivot.                  *)
(*                                                                            *)
(* A call reserves an audit id, passes its gates, writes a record - to        *)
(* findings.json, or for a pivot to hypothesis.jsonl - and in a `finally`     *)
(* writes its audit row.  Any of the writes may raise, having done its work   *)
(* or not, and the server may die in between.  The bodies of the tools are    *)
(* synchronous, so a server works on one call at a time; the agent process    *)
(* appends to hypothesis.jsonl meanwhile.                                     *)
(*                                                                            *)
(* Abstractions.  What a text says is whether it passes a gate.  The hash     *)
(* chain of the rows is the subject of AuditLog, the writers of findings.json *)
(* from other processes of FindingsStore.  The row of a refused call claims   *)
(* nothing: it is a line like the others, with no claim in it.                *)
EXTENDS Naturals, FiniteSets, Sequences

CONSTANTS MaxCalls,     \* bound: calls
          MaxForms,     \* bound: lines of the agent in hypothesis.jsonl
          MaxObs        \* bound: observation ids a call may name

ASSUME RecordingAssumption == {MaxCalls, MaxForms, MaxObs} \subseteq Nat

VARIABLES
    obs,        \* findings.json: the observations' numbers
    interps,    \* findings.json: interpretations [id, of]
    narratives, \* findings.json: narratives [id, chain, pivots]
    log,        \* hypothesis.jsonl
    audit,      \* audit/findings.jsonl: lines, with the claims [n, tool, id] in them
    calls,      \* calls so far: the last reserved audit id
    call,       \* the call under way
    acked       \* history: [n, tool, id] the agent was answered with success

findings == <<obs, interps, narratives>>
vars == <<findings, log, audit, calls, call, acked>>

-----------------------------------------------------------------------------
(* The two logs *)

\* O_APPEND: a line without its newline takes the next one in, and what the two
\* are together parses as nothing.
Joined(file, line, both) ==
    IF file # <<>> /\ ~file[Len(file)].nl
    THEN [file EXCEPT ![Len(file)] = both]
    ELSE Append(file, line)

-----------------------------------------------------------------------------
(* hypothesis.jsonl *)

Id == 0 .. MaxCalls
Hypothesis == 1 .. MaxForms

\* A line names a hypothesis and, when record_pivot wrote it, a pivot.
Line == [ok : BOOLEAN, nl : BOOLEAN, h : 0 .. MaxForms, p : Id]
Form(h) == [ok |-> TRUE, nl |-> TRUE, h |-> h, p |-> 0]
Pivot(h, p) == [ok |-> TRUE, nl |-> TRUE, h |-> h, p |-> p]
Junk(nl) == [ok |-> FALSE, nl |-> nl, h |-> 0, p |-> 0]

Unreadable == \E k \in DOMAIN log : ~log[k].ok
PivotIds == {log[k].p : k \in DOMAIN log} \ {0}
HypothesisIds == {log[k].h : k \in DOMAIN log} \ {0}

Appended(line) == Joined(log, line, Junk(line.nl))

\* What append_jsonl_line leaves behind when it raises.
AfterFailedAppend(line) ==
    {log, Appended(Junk(FALSE)), Appended([line EXCEPT !.nl = FALSE]), Appended(line)}

Largest(S) == IF S = {} THEN 0 ELSE CHOOSE m \in S : \A k \in S : k <= m

-----------------------------------------------------------------------------
(* Calls *)

Tool == {"observation", "interpretation", "narrative", "pivot"}
Idle == [pc |-> "idle", tool |-> "none", about |-> 0, chain |-> {}, pivots |-> {},
         id |-> 0, reason |-> "none"]

\* The result of a call: an id and no reason, or a reason and no id.  Only the
\* first claims a record.
Ok == call.reason = "none"
Claims == IF Ok THEN {[n |-> calls, tool |-> call.tool, id |-> call.id]} ELSE {}

Init ==
    /\ obs = {} /\ interps = {} /\ narratives = {} /\ log = <<>>
    /\ audit = <<>> /\ calls = 0 /\ call = Idle /\ acked = {}

\* A call is admitted and its audit id reserved.  A payload that fits no schema
\* is answered INVALID_INPUT before that, which changes nothing.  `reason` is
\* the verdict of the gates that read no file.
Submit(tool, about, chain, pivots, reason) ==
    /\ call.pc = "idle" /\ calls < MaxCalls
    /\ calls' = calls + 1
    /\ call' = [Idle EXCEPT !.tool = tool, !.about = about, !.chain = chain,
                            !.pivots = pivots, !.reason = reason,
                            !.pc = IF reason # "none" THEN "audit"
                                   ELSE IF tool \in {"narrative", "pivot"} THEN "resolve"
                                   ELSE "store"]
    /\ UNCHANGED <<findings, log, audit, acked>>

\* Every span is in a record, and every entity of the text in a span.
ObservationVerdict(spanFound, entitiesFound) ==
    IF ~spanFound THEN "CITATION"
    ELSE IF ~entitiesFound THEN "HALLUCINATED_ENTITIES" ELSE "none"

SubmitObservation ==
    \E spanFound, entitiesFound \in BOOLEAN :
        Submit("observation", 0, {}, {}, ObservationVerdict(spanFound, entitiesFound))

\* _required_justification_length.
Floor(confidence) ==
    CASE confidence = "HIGH" -> 50 [] confidence = "MEDIUM" -> 30 [] OTHER -> 0

InterpretationVerdict(blank, confidence, length) ==
    IF blank THEN "MISSING_REQUIRED_FIELD"
    ELSE IF length < Floor(confidence) THEN "JUSTIFICATION_TOO_SHORT_FOR_CONFIDENCE" ELSE "none"

SubmitInterpretation ==
    \E of \in 1 .. MaxObs, blank \in BOOLEAN,
       confidence \in {"HIGH", "MEDIUM", "LOW"}, length \in {1, 30, 50} :
        Submit("interpretation", of, {}, {}, InterpretationVerdict(blank, confidence, length))

\* Gaps must be named when the chain has more than three links.
NarrativeVerdict(reserved, blank, long, gaps) ==
    IF reserved THEN "SECTION_NOT_AGENT_WRITABLE"
    ELSE IF blank THEN "MISSING_REQUIRED_FIELD"
    ELSE IF long /\ ~gaps THEN "MISSING_GAPS" ELSE "none"

SubmitNarrative ==
    \E chain \in (SUBSET (1 .. MaxObs)) \ {{}}, pivots \in {{}, {1}},
       reserved, blank, long, gaps \in BOOLEAN :
        Submit("narrative", 0, chain, pivots, NarrativeVerdict(reserved, blank, long, gaps))

PivotVerdict(blank, evidence) ==
    IF blank THEN "MISSING_REQUIRED_FIELD"
    ELSE IF ~evidence THEN "MISSING_ABANDONING_EVIDENCE" ELSE "none"

SubmitPivot ==
    \E from \in Hypothesis, blank, evidence \in BOOLEAN :
        Submit("pivot", from, {}, {}, PivotVerdict(blank, evidence))

-----------------------------------------------------------------------------
(* References *)

Rejects(reason) == call' = [call EXCEPT !.pc = "audit", !.reason = reason]

\* Mutant: the pivots a narrative names are not looked up.
ResolveObservationsOnly ==
    /\ call.pc = "resolve" /\ call.tool = "narrative"
    /\ IF ~(call.chain \subseteq obs) THEN Rejects("OBSERVATION_NOT_FOUND")
       ELSE call' = [call EXCEPT !.pc = "store"]
    /\ UNCHANGED <<findings, log, audit, calls, acked>>

\* _run_pipeline of a narrative: its observations in findings.json, then its
\* pivots in hypothesis.jsonl, which must be readable to the last line; neither
\* read takes a lock.
ResolveNarrative ==
    /\ call.pc = "resolve" /\ call.tool = "narrative"
    /\ IF ~(call.chain \subseteq obs) THEN Rejects("OBSERVATION_NOT_FOUND")
       ELSE IF call.pivots # {} /\ Unreadable THEN Rejects("AUDIT_STORE_CORRUPTED")
       ELSE IF ~(call.pivots \subseteq PivotIds) THEN Rejects("PIVOT_NOT_FOUND")
       ELSE call' = [call EXCEPT !.pc = "store"]
    /\ UNCHANGED <<findings, log, audit, calls, acked>>

\* _run_pipeline of a pivot: the hypothesis it leaves must be in the log - the
\* one it goes to need not - and the next P-id is read from it.
ResolvePivot ==
    /\ call.pc = "resolve" /\ call.tool = "pivot"
    /\ IF Unreadable THEN Rejects("AUDIT_STORE_CORRUPTED")
       ELSE IF call.about \notin HypothesisIds THEN Rejects("HYPOTHESIS_NOT_FOUND")
       ELSE call' = [call EXCEPT !.pc = "store", !.id = Largest(PivotIds) + 1]
    /\ UNCHANGED <<findings, log, audit, calls, acked>>

-----------------------------------------------------------------------------
(* The record *)

\* Mutant: interpretations are numbered under each observation.
NextInterpretationOf(of) == Largest({i.id : i \in {j \in interps : j.of = of}}) + 1

\* _max_interpretation_seq: one numbering for the whole case.
NextInterpretation(of) == Largest({i.id : i \in interps}) + 1

\* Read, append and replace, under .findings.lock.
AddObservation(id) ==
    /\ call.tool = "observation" /\ id = Largest(obs) + 1
    /\ obs' = obs \cup {id}
    /\ UNCHANGED <<interps, narratives, log>>

AddInterpretation(id) ==
    /\ call.tool = "interpretation" /\ call.about \in obs
    /\ id = NextInterpretation(call.about)
    /\ interps' = interps \cup {[id |-> id, of |-> call.about]}
    /\ UNCHANGED <<obs, narratives, log>>

AddNarrative(id) ==
    /\ call.tool = "narrative" /\ id = Largest({n.id : n \in narratives}) + 1
    /\ narratives' = narratives \cup {[id |-> id, chain |-> call.chain, pivots |-> call.pivots]}
    /\ UNCHANGED <<obs, interps, log>>

AddPivot(id) ==
    /\ call.tool = "pivot" /\ id = call.id
    /\ log' = Appended(Pivot(call.about, id))
    /\ UNCHANGED findings

Add(id) == AddObservation(id) \/ AddInterpretation(id) \/ AddNarrative(id) \/ AddPivot(id)

Store ==
    /\ call.pc = "store"
    /\ \E id \in Id :
          /\ Add(id)
          /\ call' = [call EXCEPT !.pc = "audit", !.id = id]
    /\ UNCHANGED <<audit, calls, acked>>

\* allocate_interpretation_id finds no such observation.
StoreNotFound ==
    /\ call.pc = "store" /\ call.tool = "interpretation" /\ call.about \notin obs
    /\ Rejects("OBSERVATION_NOT_FOUND")
    /\ UNCHANGED <<findings, log, audit, calls, acked>>

\* The write raises: write_json_atomic before or after its rename, the append
\* with nothing, part or all of the line.
StoreFails ==
    /\ call.pc = "store" /\ (call.tool = "interpretation" => call.about \in obs)
    /\ call' = [call EXCEPT !.pc = "audit", !.id = 0, !.reason = "UNWRITABLE"]
    /\ \/ call.tool # "pivot" /\ \E id \in Id : Add(id)
       \/ /\ call.tool = "pivot"
          /\ log' \in AfterFailedAppend(Pivot(call.about, call.id))
          /\ UNCHANGED findings
       \/ UNCHANGED <<findings, log>>
    /\ UNCHANGED <<audit, calls, acked>>

-----------------------------------------------------------------------------
(* The audit row and the answer *)

\* A row of the trail, with the claims in it.
Row(claims) == [ok |-> TRUE, nl |-> TRUE, claims |-> claims]
CutRow == [ok |-> FALSE, nl |-> FALSE, claims |-> {}]

\* The trail with this row behind it: behind a cut one, it cannot be read.
Written(row) ==
    Joined(audit, row, [ok |-> FALSE, nl |-> row.nl,
                        claims |-> audit[Len(audit)].claims \cup row.claims])

\* The trail when the append has raised.
AfterFailedRow(row) ==
    {audit, Written(CutRow), Written([row EXCEPT !.nl = FALSE]), Written(row)}

\* The trail as a reader takes it: what does not parse is passed over.
Rows == UNION {audit[k].claims : k \in {k \in DOMAIN audit : audit[k].ok}}

\* Accepted or refused, a call leaves its row before it is answered.
WriteRow ==
    /\ call.pc = "audit"
    /\ audit' = Written(Row(Claims))
    /\ acked' = acked \cup Claims
    /\ call' = Idle
    /\ UNCHANGED <<findings, log, calls>>

\* Mutant: a row that cannot be written is no reason to refuse.
RowFailsSilently ==
    /\ call.pc = "audit"
    /\ audit' \in AfterFailedRow(Row(Claims))
    /\ acked' = acked \cup Claims
    /\ call' = Idle
    /\ UNCHANGED <<findings, log, calls>>

\* The append raises with nothing, part or all of the row written: the answer is
\* a refusal, even when the record is stored.
RowFails ==
    /\ call.pc = "audit"
    /\ audit' \in AfterFailedRow(Row(Claims))
    /\ call' = Idle
    /\ UNCHANGED <<findings, log, calls, acked>>

\* The server dies; the next one goes on from the files.  The number of a call
\* that left no row to read may be used again in the code; here it is not.
Die ==
    /\ call.pc # "idle"
    /\ call' = Idle
    /\ UNCHANGED <<findings, log, audit, calls, acked>>

\* The agent's stack writes a hypothesis, or fails to.
AgentForms(h) ==
    /\ Len(log) < MaxForms + MaxCalls
    /\ Cardinality({k \in DOMAIN log : log[k].p = 0}) < MaxForms
    /\ log' \in AfterFailedAppend(Form(h)) \ {log}
    /\ UNCHANGED <<findings, audit, calls, call, acked>>

Next ==
    \/ SubmitObservation \/ SubmitInterpretation \/ SubmitNarrative \/ SubmitPivot
    \/ ResolveNarrative \/ ResolvePivot
    \/ Store \/ StoreNotFound \/ StoreFails
    \/ WriteRow \/ RowFails \/ Die
    \/ \E h \in Hypothesis : AgentForms(h)

Spec == Init /\ [][Next]_vars

-----------------------------------------------------------------------------
(* Properties *)

\* Types; a result has an id or a reason, never both.
TypeOK ==
    /\ obs \subseteq Id
    /\ interps \subseteq [id : Id, of : Id]
    /\ narratives \subseteq [id : Id, chain : SUBSET (1 .. MaxObs), pivots : SUBSET Id]
    /\ log \in Seq(Line)
    /\ calls \in Id
    /\ call.pc \in {"idle", "resolve", "store", "audit"}
    /\ call.pc = "audit" => (call.id = 0 <=> ~Ok)
    /\ acked \subseteq [n : 1 .. calls, tool : Tool, id : Id \ {0}]
    /\ audit \in Seq([ok : BOOLEAN, nl : BOOLEAN,
                      claims : SUBSET [n : 1 .. MaxCalls, tool : Tool, id : Id \ {0}]])

\* The record that result r claims.
Stored(r) ==
    CASE r.tool = "observation"    -> r.id \in obs
      [] r.tool = "interpretation" -> \E i \in interps : i.id = r.id
      [] r.tool = "narrative"      -> \E n \in narratives : n.id = r.id
      [] r.tool = "pivot"          -> r.id \in PivotIds

\* What the agent was told it recorded is recorded and has its audit row,
\* through failed writes and dying servers.  The row may stand behind a cut one
\* and not be readable, but then in a line that shows it and takes no other
\* acknowledged row with it.  A pivot's line can be swallowed by a cut line of
\* the agent's, and then hypothesis.jsonl shows the damage.
AcknowledgedIsKept ==
    \A r \in acked :
        /\ \E k \in DOMAIN audit : /\ r \in audit[k].claims
                                   /\ audit[k].ok \/ acked \cap audit[k].claims = {r}
        /\ Stored(r) \/ (r.tool = "pivot" /\ Unreadable)

\* _interpretation_store.py, "case-wide unambiguous IDs": what can be read of the
\* trail never says of two calls that they recorded the same thing, nor of a call
\* that it recorded what is not there, whatever the agent was told.
RowsAreTrue ==
    /\ \A r \in Rows : Stored(r) \/ (r.tool = "pivot" /\ Unreadable)
    /\ \A r, s \in Rows : r.tool = s.tool /\ r.id = s.id => r = s

\* A narrative leads to observations and pivots of the case.  The references
\* are checked before the lock is taken; a pivot can vanish only when a cut
\* line takes it in, and then the log does not verify.
NarrativesResolve ==
    \A n \in narratives :
        /\ n.chain \subseteq obs
        /\ n.pivots \subseteq PivotIds \/ Unreadable

===============================================================================
