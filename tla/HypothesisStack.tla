-------------------------- MODULE HypothesisStack --------------------------
(* One case's investigate runs: the hypothesis stack in the agent's memory,  *)
(* the log audit/hypothesis.jsonl it resumes its numbering from, the step    *)
(* counts of the budget enforcer, and the ways a run ends.                   *)
(*                                                                           *)
(* A run asks the model, the model answers with a batch of tool calls, each  *)
(* call is one atomic operation on the stack (its lock is held throughout),  *)
(* and the next request is made when the batch is done.  An operation writes *)
(* its line to the log; when the write raises, the exception ends the run.   *)
(* HypothesisStack.dispatch has no caller in the program and is left out.    *)
EXTENDS Naturals, Sequences

CONSTANTS MaxHypotheses,   \* bound on the ids a model hands out
          RequestLimit,    \* cfg.max_iters, the model requests of one run
          MaxBatch,        \* bound on the tool calls of one model answer
          MaxRuns,         \* bound on the runs of a case
          MaxFaults        \* bound on the log writes that go wrong

ASSUME BoundsAssumption == /\ MaxHypotheses \in Nat /\ RequestLimit \in Nat \ {0}
                           /\ MaxBatch \in Nat /\ MaxRuns \in Nat
                           /\ MaxFaults \in Nat

VARIABLES seq,         \* _seq
          active,      \* _active, 0 for None
          queued,      \* _queued
          outcome,     \* _history: the outcome of each hypothesis of this run
          log, torn,   \* the readable lines of hypothesis.jsonl; a cut last line
          running,     \* an agent run is under way
          finish,      \* the finish line of the run, if it wrote one
          steps,       \* BudgetEnforcer._states: steps per hypothesis
          requests, pending,   \* model requests made; tool calls left in the batch
          runs, faults,        \* runs started, faulty log writes so far
          base, suspect,       \* ghosts: where this run's lines start; a line was lost;
          childless            \*   a pivot of this run was left without its child

stack == <<seq, active, queued, outcome>>
file  == <<log, torn>>
agent == <<running, finish, steps, requests, pending, runs>>
vars  == <<stack, file, agent, faults, base, suspect, childless>>

Ids == 1 .. MaxHypotheses
Outcomes == {"CONFIRMED", "PIVOTED", "ABANDONED"}
Writes == {"ok", "nothing", "landed", "cut"}   \* "landed": written, then fsync raises
NoFinish == [state |-> "none", open |-> <<>>]

InQueue == {queued[i] : i \in 1 .. Len(queued)}

\* The open hypotheses, the one at work first.
OpenLine == IF active = 0 THEN queued ELSE <<active>> \o queued

(***************************************************************************)
(* Mutated forms of definitions below, for the runs that break them.       *)
(***************************************************************************)
QueuedWhenBusy(h, force) ==      \* the child of a pivot queues like any other
    IF active = 0 THEN <<h, queued>> ELSE <<active, Append(queued, h)>>
PlacedInFront(h, force) ==       \* appendleft() for append()
    IF force \/ (active = 0 /\ queued = <<>>) THEN <<h, queued>>
    ELSE <<active, <<h>> \o queued>>
LastLogged == IF log = <<>> THEN 0 ELSE log[Len(log)][2]   \* the last line's id
PromoteNewest ==                 \* pop() for popleft()
    IF queued = <<>> THEN <<0, queued>>
    ELSE <<queued[Len(queued)], SubSeq(queued, 1, Len(queued) - 1)>>
PromoteNone == <<0, queued>>
RequestsUncounted == requests
CloseOnlyActive(k) ==            \* the queued hypotheses are not closed
    /\ active' = 0 /\ queued' = queued
    /\ outcome' = [outcome EXCEPT ![active] = "ABANDONED"]

(***************************************************************************)
(* The log: append_chained_jsonl and what can go wrong in it               *)
(***************************************************************************)
\* The file after a line is written with outcome w: a line written behind a
\* cut one is merged with it, and neither can be read.
Wrote(f, w, line) ==
    CASE w \in {"ok", "landed"} -> IF f[2] THEN <<f[1], FALSE>> ELSE <<Append(f[1], line), FALSE>>
      [] w = "nothing" -> f
      [] w = "cut" -> <<f[1], TRUE>>

Fault(w) == IF w = "ok" THEN UNCHANGED <<faults, suspect>>
            ELSE faults < MaxFaults /\ faults' = faults + 1 /\ suspect' = TRUE

\* A tool call that raised takes the run with it; no finish line is written.
CallReturns == running' = running /\ pending' = pending - 1
CallRaises == running' = FALSE /\ pending' = 0
CallEnds(w) == /\ IF w = "ok" THEN CallReturns ELSE CallRaises
               /\ UNCHANGED <<finish, steps, requests, runs, base, childless>>

ResumeSeq == LET logged == {log[i][2] : i \in 1 .. Len(log)}
             IN IF logged = {} THEN 0 ELSE CHOOSE h \in logged : \A g \in logged : g <= h

(***************************************************************************)
(* A run                                                                   *)
(***************************************************************************)
Init == /\ seq = 0 /\ active = 0 /\ queued = <<>> /\ outcome = [h \in Ids |-> "unformed"]
        /\ log = <<>> /\ torn = FALSE
        /\ running = FALSE /\ finish = NoFinish /\ steps = [h \in Ids |-> 0]
        /\ requests = 0 /\ pending = 0 /\ runs = 0 /\ faults = 0
        /\ base = 0 /\ suspect = FALSE /\ childless = FALSE

\* A new process, a new stack: only the numbering survives in the log.
Start == /\ ~running /\ runs < MaxRuns
         /\ seq' = ResumeSeq /\ active' = 0 /\ queued' = <<>>
         /\ outcome' = [h \in Ids |-> "unformed"]
         /\ running' = TRUE /\ finish' = NoFinish /\ steps' = [h \in Ids |-> 0]
         /\ requests' = 0 /\ pending' = 0 /\ runs' = runs + 1
         /\ base' = Len(log) /\ suspect' = torn /\ childless' = FALSE
         /\ UNCHANGED <<file, faults>>

\* Killed, interrupted, or ended by an exception: no finish line.
Die == /\ running
       /\ running' = FALSE /\ pending' = 0
       /\ UNCHANGED <<stack, file, finish, steps, requests, runs, faults, base,
                      suspect, childless>>

RequestMade == requests + 1

\* after_model_request charges the hypothesis that is active at that moment.
\* An answer without a tool call is the last one, or one the run sends back.
Request == /\ running /\ pending = 0 /\ requests < RequestLimit
           /\ requests' = RequestMade
           /\ pending' \in 0 .. MaxBatch
           /\ steps' = IF active = 0 THEN steps ELSE [steps EXCEPT ![active] = @ + 1]
           /\ UNCHANGED <<stack, file, running, finish, runs, faults, base, suspect, childless>>

(***************************************************************************)
(* The tool calls                                                          *)
(***************************************************************************)
Calling == running /\ pending > 0

\* Where a new hypothesis goes: <<active, queued>> afterwards.
Placed(h, force) == IF force \/ (active = 0 /\ queued = <<>>) THEN <<h, queued>>
                    ELSE <<active, Append(queued, h)>>

\* The head of the queue, if there is one, becomes active.
Promotion == IF queued = <<>> THEN <<0, queued>> ELSE <<Head(queued), Tail(queued)>>

\* The stack changes before the line is written, and stays changed if that fails.
Form == \E w \in Writes :
        LET h == seq + 1
            place == Placed(h, FALSE)
            f == Wrote(file, w, <<"FORM", h>>)
        IN /\ Calling /\ h \in Ids
           /\ seq' = h /\ active' = place[1] /\ queued' = place[2]
           /\ outcome' = outcome
           /\ log' = f[1] /\ torn' = f[2]
           /\ Fault(w) /\ CallEnds(w)

\* confirm and abandon: the line first, the stack only if it was written.
Resolve(o) == \E w \in Writes :
        LET f == Wrote(file, w, <<o, active>>)
        IN /\ Calling /\ active # 0
           /\ log' = f[1] /\ torn' = f[2]
           /\ IF w = "ok"
              THEN /\ active' = Promotion[1] /\ queued' = Promotion[2]
                   /\ outcome' = [outcome EXCEPT ![active] = o]
                   /\ seq' = seq
              ELSE UNCHANGED stack
           /\ Fault(w) /\ CallEnds(w)

\* The PIVOT line could not be written: the parent is still active.
PivotRefused == \E w \in Writes \ {"ok"} :
        LET f == Wrote(file, w, <<"PIVOTED", active>>)
        IN /\ Calling /\ active # 0 /\ seq + 1 \in Ids
           /\ log' = f[1] /\ torn' = f[2]
           /\ UNCHANGED stack
           /\ Fault(w) /\ CallEnds(w)

\* The parent is history and the child active, whether or not the child's
\* own line can be written.
Pivot == \E w \in Writes :
        LET child == seq + 1
            place == Placed(child, TRUE)
            f == Wrote(Wrote(file, "ok", <<"PIVOTED", active>>), w, <<"FORM", child>>)
        IN /\ Calling /\ active # 0 /\ child \in Ids
           /\ log' = f[1] /\ torn' = f[2]
           /\ seq' = child /\ active' = place[1] /\ queued' = place[2]
           /\ outcome' = [outcome EXCEPT ![active] = "PIVOTED"]
           /\ Fault(w) /\ CallEnds(w)

\* Hypothesis(...) refuses a blank statement once the number is taken: the tool
\* call raises, and the run ends or the model is told.
BlankForm == /\ Calling /\ seq + 1 \in Ids
             /\ seq' = seq + 1
             /\ CallReturns \/ CallRaises
             /\ UNCHANGED <<active, queued, outcome, file, finish, steps, requests, runs,
                            faults, base, suspect, childless>>

\* In a pivot it is refused when the parent is history already: nothing is
\* active, and nothing of the queue takes the free place.
BlankPivot == LET f == Wrote(file, "ok", <<"PIVOTED", active>>)
              IN /\ Calling /\ active # 0 /\ seq + 1 \in Ids
                 /\ log' = f[1] /\ torn' = f[2]
                 /\ seq' = seq + 1 /\ active' = 0 /\ queued' = queued
                 /\ outcome' = [outcome EXCEPT ![active] = "PIVOTED"]
                 /\ childless' = TRUE
                 /\ CallReturns \/ CallRaises
                 /\ UNCHANGED <<finish, steps, requests, runs, faults, base, suspect>>

\* before_tool: no evidence query once everything formed has been resolved.
Blocked == active = 0 /\ \E h \in Ids : outcome[h] \in Outcomes

\* A call that leaves the stack alone: record_narrative, a transition asked of
\* a hypothesis that is not active, or, unless Blocked, an evidence query.
OtherCall == /\ Calling
             /\ pending' = pending - 1
             /\ UNCHANGED <<stack, file, running, finish, steps, requests, runs, faults, base,
                            suspect, childless>>

(***************************************************************************)
(* The ends of a run that write a finish line                              *)
(***************************************************************************)
Finished(state, open) == /\ finish' = [state |-> state, open |-> open]
                         /\ running' = FALSE /\ pending' = 0
                         /\ UNCHANGED <<steps, requests, runs, base, childless>>

\* NoActiveHypothesisToolError out of before_tool.
BlockedCall == /\ Calling /\ Blocked
               /\ Finished("ERROR", OpenLine)
               /\ UNCHANGED <<stack, file, faults, suspect>>

\* The lines the closing of the first k open hypotheses writes.
ClosingLines(k) == [i \in 1 .. k |-> <<"ABANDONED", OpenLine[i]>>]

\* The first k open hypotheses are abandoned, one after the other.
CloseFirst(k) ==
    LET closed == {OpenLine[i] : i \in 1 .. k}
        left == SubSeq(OpenLine, k + 1, Len(OpenLine))
    IN /\ active' = IF left = <<>> THEN 0 ELSE Head(left)
       /\ queued' = IF left = <<>> THEN <<>> ELSE Tail(left)
       /\ outcome' = [h \in Ids |-> IF h \in closed THEN "ABANDONED" ELSE outcome[h]]

\* The lines of k abandonments, of which a cut line before them spoils the first.
Closing(k) == IF k = 0 THEN file
              ELSE <<log \o (IF torn THEN Tail(ClosingLines(k)) ELSE ClosingLines(k)), FALSE>>

\* after_run: the open hypotheses are abandoned until none is active, or until a
\* line cannot be written, and the finish line says COMPLETED in either case.
Complete ==
    /\ running /\ pending = 0 /\ requests > 0
    /\ IF active = 0
       THEN /\ UNCHANGED <<active, queued, outcome, file, faults, suspect>>
            /\ Finished("COMPLETED", OpenLine)
       ELSE \E k \in 0 .. Len(OpenLine), w \in Writes :
            LET f == IF w = "ok" THEN Closing(k)
                     ELSE Wrote(Closing(k), w, <<"ABANDONED", OpenLine[k + 1]>>)
            IN /\ w = "ok" <=> k = Len(OpenLine)
               /\ IF k = 0 THEN UNCHANGED <<active, queued, outcome>> ELSE CloseFirst(k)
               /\ log' = f[1] /\ torn' = f[2]
               /\ Fault(w)
               /\ Finished("COMPLETED", SubSeq(OpenLine, k + 1, Len(OpenLine)))
    /\ seq' = seq

\* UsageLimitExceeded, before a request or once its tokens are counted: only
\* the active hypothesis is abandoned, and the next one of the queue is left active.
UsageLimit ==
    /\ running /\ pending = 0 /\ requests > 0
    /\ IF active = 0
       THEN /\ UNCHANGED <<active, queued, outcome, file, faults, suspect>>
            /\ Finished("LIMIT", OpenLine)
       ELSE \E w \in Writes :
            LET f == Wrote(file, w, <<"ABANDONED", active>>)
            IN /\ log' = f[1] /\ torn' = f[2]
               /\ IF w = "ok" THEN CloseFirst(1) ELSE UNCHANGED <<active, queued, outcome>>
               /\ Fault(w)
               /\ Finished("LIMIT", IF w = "ok" THEN queued ELSE OpenLine)
    /\ seq' = seq

AgentStep == \/ Request \/ Form \/ Resolve("CONFIRMED") \/ Resolve("ABANDONED")
             \/ PivotRefused \/ Pivot \/ BlankForm \/ BlankPivot
             \/ OtherCall \/ BlockedCall
             \/ Complete \/ UsageLimit

Next == Start \/ Die \/ AgentStep

\* The model answers and the tools return: a run does not hang.
Spec == Init /\ [][Next]_vars /\ WF_vars(AgentStep)

(***************************************************************************)
(* Properties                                                              *)
(***************************************************************************)
\* The state has the shape the code gives it.
TypeOK == /\ seq \in 0 .. MaxHypotheses /\ active \in 0 .. MaxHypotheses
          /\ queued \in Seq(Ids) /\ outcome \in [Ids -> Outcomes \cup {"unformed"}]
          /\ log \in Seq((Outcomes \cup {"FORM"}) \X Ids) /\ torn \in BOOLEAN
          /\ running \in BOOLEAN /\ steps \in [Ids -> 0 .. RequestLimit]
          /\ finish.state \in {"none", "COMPLETED", "ERROR", "LIMIT"}
          /\ finish.open \in Seq(Ids)
          /\ requests \in 0 .. RequestLimit /\ pending \in 0 .. MaxBatch
          /\ runs \in 0 .. MaxRuns /\ faults \in 0 .. MaxFaults
          /\ base \in Nat /\ suspect \in BOOLEAN /\ childless \in BOOLEAN

\* Nothing waits while nothing is active, unless a pivot has lost its child:
\* form takes the free place only when the queue is empty too, so such a queue
\* is never worked off again, by promotion or by after_run, and no other order
\* of calls, refused writes and resumed runs may lead there.
WaitsBehindWork == active = 0 /\ queued # <<>> => childless

\* Every hypothesis formed is in one place: active, queued or resolved, and
\* the queue is in the order they were formed.
OnePlaceEach == /\ \A i, j \in 1 .. Len(queued) : i < j => queued[i] < queued[j]
                /\ active \notin InQueue
                /\ \A h \in InQueue \cup {active} : h # 0 => h <= seq /\ outcome[h] = "unformed"

\* The numbering resumes behind every line of the log, whatever was cut or
\* merged in it: no id has two FORM lines, over all the runs of the case.
OneFormPerId == \A i, j \in 1 .. Len(log) :
                    i < j /\ log[i][1] = "FORM" /\ log[j][1] = "FORM" => log[i][2] < log[j][2]

\* What a line does to <<active, queued>>, as a reader of the log takes it.
Reads(before, line) ==
    CASE line[1] = "FORM" -> IF before[1] = 0 THEN <<line[2], before[2]>>
                             ELSE <<before[1], Append(before[2], line[2])>>
      [] line[1] = "PIVOTED" -> <<0, before[2]>>
      [] OTHER -> IF before[2] = <<>> THEN <<0, <<>> >>
                  ELSE <<Head(before[2]), Tail(before[2])>>

\* What the lines behind the first from make of an empty stack.
Replayed(lines, from) ==
    LET after[n \in 0 .. Len(lines)] ==
            IF n <= from THEN <<0, <<>> >> ELSE Reads(after[n - 1], lines[n])
    IN  after[Len(lines)]

\* The log of a run whose writes all succeeded says which hypothesis is active
\* and which are queued, in order, unless a pivot has lost its child: a FORM
\* line does not tell a child from the next one formed.  Each outcome in it is
\* the stack's own in any case.
LogExplainsStack ==
    ~suspect => /\ ~childless => Replayed(log, base) = <<active, queued>>
                /\ \A h \in Ids, o \in Outcomes :
                      outcome[h] = o <=> \E n \in base + 1 .. Len(log) : log[n] = <<o, h>>

\* A finish line names every hypothesis that was left open, in the order they
\* would be taken up, and as long as each pivot has got its child there are none
\* behind ERROR, or behind COMPLETED if the abandonments could be written.
FinishClosesStack ==
    /\ finish.state # "none" => finish.open = OpenLine
    /\ finish.state = "ERROR" \/ (finish.state = "COMPLETED" /\ ~suspect)
          => childless \/ finish.open = <<>>

\* A run comes to an end: the request limit is what bounds it.
RunEnds == running ~> ~running

\* The stack is a hypothesis lifecycle: the abstract status of each hypothesis.
StatusOf == [h \in Ids |-> IF h = active THEN "active"
                           ELSE IF h \in InQueue THEN "waiting" ELSE outcome[h]]
Lifecycle == INSTANCE HypothesisLifecycle WITH status <- StatusOf
KeepsLifecycle == Lifecycle!Spec
=============================================================================
