------------------------------ MODULE RunViews ------------------------------
(* What the examiner sees of a run: the agent's own log audit/agent.jsonl,   *)
(* the status command that reads it together with hypothesis.jsonl, the      *)
(* stack pane of the live screen, and the EVT lines a run without a terminal *)
(* prints while it tails hypothesis.jsonl.                                   *)
(*                                                                           *)
(* Every hook of HypothesisStack's steps is here with the step it hangs on.  *)
(* The rows about single tool calls say nothing to any reader and are left   *)
(* out.  The tail task runs beside the agent and looks whenever it likes.    *)
EXTENDS HypothesisStack, FiniteSets, SequencesExt

CONSTANTS StepBudget,        \* the enforcer's default_step_budget
          MaxRowFaults       \* bound on the appends to agent.jsonl that go wrong

ASSUME ViewsAssumption == StepBudget \in Nat \ {0} /\ MaxRowFaults \in Nat

VARIABLES rows, rowTorn,   \* agent.jsonl: its readable rows; a cut last one
          raw,             \* hypothesis.jsonl line by line: "whole" or "spoilt"
          screen,          \* DisplayState.stack_snap
          left,            \* DisplayState.budget: the steps remaining
          seen, printed,   \* the tail: lines gone through, lines printed (0: PARSE_ERROR)
          exit,            \* "none", "result", then how the command exits
          rowFaults,
          told             \* ghost: this run's finish row can be read

agentLog == <<rows, rowTorn>>
tail == <<seen, printed>>
views == <<agentLog, raw, screen, left, tail, exit, rowFaults, told>>

Statuses == {"ACTIVE"} \cup Outcomes
Snapshot == [open |-> OpenLine, outcome |-> outcome]
NoSnapshot == [open |-> <<>>, outcome |-> [h \in Ids |-> "unformed"]]

(***************************************************************************)
(* Mutated forms of definitions below, for the runs that break them.       *)
(***************************************************************************)
SeenParsed == Len(SelectSeq(raw, LAMBDA line : line = "whole"))   \* bad lines are not counted
FirstEnd(ends) == CHOOSE i \in ends : \A j \in ends : i <= j    \* the log read forwards

(***************************************************************************)
(* The readers                                                             *)
(***************************************************************************)
\* A complete line that is newly in the file: a cut line is spoilt by the
\* first one written behind it.
Merged == torn /\ (~torn' \/ Len(log') > Len(log) \/ outcome' # outcome)
NewLines == (IF Merged THEN <<"spoilt">> ELSE <<>>)
            \o [i \in 1 .. Len(log') - Len(log) |-> "whole"]

\* _read_jsonl, strict: the lines that cannot be read, the cut one included.
BadLines == {i \in 1 .. Len(raw) : raw[i] = "spoilt"} \cup (IF torn THEN {Len(raw) + 1} ELSE {})
LineCount == Len(raw) + (IF torn THEN 1 ELSE 0)

\* A bad line is passed over only as the single one, at the end.
ParseError == BadLines \notin {{}, {LineCount}}

LastEnd(ends) == CHOOSE i \in ends : \A j \in ends : j <= i

\* _case_status: the last row that ends a run, whichever run it was.
CaseStatus ==
    LET ends == {i \in 1 .. Len(rows) : rows[i].type # "step"}
    IN IF rows = <<>> THEN "IDLE"
       ELSE IF ends = {} THEN "INVESTIGATING"
       ELSE LET row == rows[LastEnd(ends)]
            IN IF row.type = "finish" THEN row.state ELSE "ABORTED"

\* The hypotheses of a snapshot that have status s: _hyp_rows.
HypRows(snap, s) == {h \in Ids : IF s = "ACTIVE" THEN Contains(snap.open, h)
                                 ELSE snap.outcome[h] = s}

\* What the last line about a hypothesis makes of it: _hyp_counts.
LastStatus(s) ==
    {h \in Ids : \E n \in 1 .. Len(log) :
        /\ log[n] = <<IF s = "ACTIVE" THEN "FORM" ELSE s, h>>
        /\ \A m \in n + 1 .. Len(log) : log[m][2] # h}

FinishRows == {i \in 1 .. Len(rows) : rows[i].type = "finish"}
LastSnapshot == IF FinishRows = {} THEN NoSnapshot ELSE rows[LastEnd(FinishRows)].snap

\* The hypotheses status counts: those of the last snapshot in agent.jsonl; if
\* there is none, or it is empty, those of hypothesis.jsonl.
Shown(s) == IF \A t \in Statuses : HypRows(LastSnapshot, t) = {}
            THEN LastStatus(s) ELSE HypRows(LastSnapshot, s)

\* _tokens_steps and _agent_step_usage: of all the runs in the file.
StepRows(rws) == Cardinality({i \in 1 .. Len(rws) : rws[i].type = "step"})

Monus(a, b) == IF a > b THEN a - b ELSE 0

\* BudgetEnforcer.remaining.
Remaining(act, used) == Monus(StepBudget, used[act])

\* _budget_snapshot: of the active hypothesis, or else of the run.
StepsLeft(act, used, rws) ==
    IF act # 0 THEN Remaining(act, used)
    ELSE Monus(RequestLimit, IF StepRows(rws) > requests THEN StepRows(rws) ELSE requests)

(***************************************************************************)
(* The hooks                                                               *)
(***************************************************************************)
RowFault(w) == IF w = "ok" THEN UNCHANGED rowFaults
               ELSE rowFaults < MaxRowFaults /\ rowFaults' = rowFaults + 1

\* _safe_append: a row that cannot be written ends nothing.
AppendRow(row) ==
    \E w \in Writes : LET f == Wrote(agentLog, w, row)
                      IN rows' = f[1] /\ rowTorn' = f[2] /\ RowFault(w)

NoRow == UNCHANGED <<agentLog, rowFaults>>

\* after_tool, tool_execute_error and after_model_request put the stack as it is
\* then on the screen.  after_ hooks are called last one first, so of a request
\* the screen shows what was used before it: the audit hook has yet to count it.
Refresh == /\ screen' = [open |-> (IF active' = 0 THEN queued' ELSE <<active'>> \o queued'),
                         outcome |-> outcome']
           /\ left' = StepsLeft(active', steps, rows)

\* _run_async: a new screen, and a tail that begins at the first line.
NewViews == /\ screen' = NoSnapshot /\ left' = RequestLimit
            /\ seen' = 0 /\ printed' = <<>>

ViewInit == /\ Init
            /\ rows = <<>> /\ rowTorn = FALSE /\ raw = <<>> /\ screen = NoSnapshot
            /\ left = RequestLimit
            /\ seen = 0 /\ printed = <<>> /\ exit = "none" /\ rowFaults = 0 /\ told = FALSE

\* investigate: --resume starts the same new run, once it has seen a checkpoint.
ViewStart == /\ exit # "result" /\ Start
             /\ NewViews
             /\ exit' = "none" /\ told' = FALSE
             /\ UNCHANGED <<agentLog, raw, rowFaults>>

ViewRequest == /\ Request /\ AppendRow([type |-> "step"])
               /\ Refresh
               /\ UNCHANGED <<raw, tail, exit, told>>

\* An exception ends the run with code 1 and no row.
ViewCall == /\ Form \/ Resolve("CONFIRMED") \/ Resolve("ABANDONED")
               \/ PivotRefused \/ Pivot \/ BlankForm \/ BlankPivot \/ OtherCall
            /\ raw' = raw \o NewLines
            /\ NoRow /\ Refresh
            /\ exit' = IF running' THEN exit ELSE "1"
            /\ UNCHANGED <<tail, told>>

\* SIGINT and SIGTERM cancel the run, which leaves a checkpoint row.
Interrupted == /\ Die /\ AppendRow([type |-> "checkpoint"])
               /\ exit' = "130"
               /\ UNCHANGED <<raw, screen, left, tail, told>>

\* Killed, or an exception.
Lost == /\ Die /\ exit' = "1"
        /\ UNCHANGED <<agentLog, rowFaults, raw, screen, left, tail, told>>

\* The finish row holds the stack after the hypotheses were closed; the screen
\* is not refreshed again.  _emit_finish raises where _safe_append goes on.
ViewFinish ==
    /\ Complete \/ UsageLimit \/ BlockedCall
    /\ raw' = raw \o NewLines
    /\ LET row == [type |-> "finish", state |-> finish'.state,
                   snap |-> [open |-> finish'.open, outcome |-> outcome']]
       IN /\ AppendRow(row)
          /\ told' = (rows' # rows)
    /\ exit' = IF finish'.state # "COMPLETED" /\ rowFaults' # rowFaults THEN "1" ELSE "result"
    /\ UNCHANGED <<screen, left, tail>>

(***************************************************************************)
(* The tail of hypothesis.jsonl                                            *)
(***************************************************************************)
\* Lines from seen on, a cut one included: a readable line is printed, another
\* one is a PARSE_ERROR.
Seen == LineCount
Look == /\ printed' = printed \o [i \in 1 .. LineCount - seen |->
                                  IF (seen + i) \in BadLines THEN 0 ELSE seen + i]
        /\ seen' = Seen

Poll == /\ running /\ seen < LineCount
        /\ Look
        /\ UNCHANGED <<vars, agentLog, raw, screen, left, exit, rowFaults, told>>

\* The run's result is there: one more look at the log, then the exit code.
Return == /\ exit = "result"
          /\ Look
          /\ exit' = IF finish.state = "COMPLETED" THEN "0" ELSE "1"
          /\ UNCHANGED <<vars, agentLog, raw, screen, left, rowFaults, told>>

ViewNext == \/ ViewStart \/ ViewRequest \/ ViewCall \/ ViewFinish
            \/ Interrupted \/ Lost
            \/ Poll \/ Return

ViewSpec == /\ ViewInit /\ [][ViewNext]_<<vars, views>>
            /\ WF_<<vars, views>>(ViewRequest \/ ViewCall \/ ViewFinish)

(***************************************************************************)
(* Properties                                                              *)
(***************************************************************************)
\* The three views agree with the stack wherever they can.  The screen does while
\* the run is on, and of the steps that remain its budget pane shows one too many
\* at most: the request whose tool calls are under way.
\* The finish row does until the next run ends: in the state and the hypotheses
\* that status shows.  The log does in the counts that status falls back on, as
\* long as one run is all there was and every line of it could be written; and
\* the run in which a line is cut never makes status refuse the log, the next
\* one may.  (status._render_once, _refresh_snapshots)
ViewsTellTheStack ==
    /\ running => screen = Snapshot
    /\ running /\ active = 0 => left <= RequestLimit - requests + 1
    /\ running /\ active # 0 => left <= Remaining(active, steps) + 1
    /\ runs = 1 /\ rowFaults = 0 => StepRows(rows) = requests
    /\ told => CaseStatus = finish.state
    /\ told /\ Snapshot # NoSnapshot =>
          /\ \A s \in Statuses : Shown(s) = HypRows(Snapshot, s)
          /\ exit = "0" /\ ~suspect /\ ~childless => Shown("ACTIVE") = {}
    /\ runs = 1 /\ ~suspect /\ FinishRows = {} =>
          \A s \in Statuses : Shown(s) = HypRows(Snapshot, s)
    /\ ParseError => runs > 1

\* Each readable line of hypothesis.jsonl is printed once and in order, and
\* all of them before a run that came to a result exits, although a cut line is
\* gone through as one line and grows into another.  (stream_hypothesis_events)
EventsStreamedOnce ==
    LET lines == {i \in 1 .. Len(printed) : printed[i] # 0}
    IN /\ \A i, j \in lines : i < j => printed[i] < printed[j]
       /\ {printed[i] : i \in lines} = {i \in 1 .. Len(raw) : raw[i] = "whole" /\ i <= seen}
       /\ exit = "0" => \A i \in 1 .. Len(raw) : raw[i] = "whole" => i <= seen
=============================================================================
