---------------------------- MODULE Recording_proofs ----------------------------
(***************************************************************************)
(* Proofs about Recording, for any number of calls, of the agent's lines   *)
(* and of observations, with every write that fails and every death of the *)
(* server.                                                                 *)
(***************************************************************************)
EXTENDS Recording, SequenceTheorems, Induction, TLAPS

(* The inductive invariant *)

Reason == {"none", "CITATION", "HALLUCINATED_ENTITIES", "MISSING_REQUIRED_FIELD",
           "JUSTIFICATION_TOO_SHORT_FOR_CONFIDENCE", "SECTION_NOT_AGENT_WRITABLE", "MISSING_GAPS",
           "MISSING_ABANDONING_EVIDENCE", "OBSERVATION_NOT_FOUND", "AUDIT_STORE_CORRUPTED",
           "PIVOT_NOT_FOUND", "HYPOTHESIS_NOT_FOUND", "UNWRITABLE"}
CallState == [pc : {"idle", "resolve", "store", "audit"}, tool : Tool \cup {"none"}, about : Nat,
              chain : SUBSET (1 .. MaxObs), pivots : SUBSET Id, id : Id, reason : Reason]
Claimed == [n : 1 .. MaxCalls, tool : Tool, id : Id \ {0}]
TrailLine == [ok : BOOLEAN, nl : BOOLEAN, claims : SUBSET Claimed]

\* What result r claims is there, or its log shows that it was damaged.
Kept(r) == Stored(r) \/ (r.tool = "pivot" /\ Unreadable)

\* No row has the id a call was given.
Fresh(tool, id) == \A r \in Rows : r.tool = tool => r.id # id

\* A pivot's id is at most the number of the call that was given it.
FilesInv ==
    /\ obs \subseteq Id
    /\ interps \subseteq [id : Id, of : Id]
    /\ narratives \subseteq [id : Id, chain : SUBSET (1 .. MaxObs), pivots : SUBSET Id]
    /\ log \in Seq(Line) /\ PivotIds \subseteq 0 .. calls
    /\ calls \in Id

\* A line holds one acknowledged claim at most, one without its newline none; and
\* the call under way has no claim in the trail yet.
TrailInv ==
    /\ audit \in Seq(TrailLine)
    /\ \A k \in DOMAIN audit : \A r \in audit[k].claims : r.n <= calls
    /\ call.pc # "idle" => \A k \in DOMAIN audit : \A r \in audit[k].claims : r.n < calls
    /\ \A k \in DOMAIN audit : \A r, s \in acked \cap audit[k].claims : r = s
    /\ \A k \in DOMAIN audit : ~audit[k].nl => acked \cap audit[k].claims = {}
    /\ \A r \in acked : \E k \in DOMAIN audit : r \in audit[k].claims

RowsInv == RowsAreTrue /\ \A r \in acked : Kept(r)

CallInv ==
    /\ call \in CallState
    /\ call.pc # "idle" => call.tool \in Tool /\ calls > 0
    /\ call.tool = "pivot" => call.about \in Hypothesis
    /\ call.pc = "resolve" => Ok /\ call.id = 0 /\ \A p \in PivotIds : p < calls
    /\ call.pc = "store" =>
          /\ Ok
          /\ call.tool = "pivot" => call.id \in 1 .. calls /\ Fresh("pivot", call.id)
          /\ call.tool # "pivot" => call.id = 0
          /\ call.tool = "narrative" =>
                call.chain \subseteq obs /\ (call.pivots \subseteq PivotIds \/ Unreadable)
    /\ call.pc = "audit" =>
          /\ call.id = 0 <=> ~Ok
          /\ Ok => Fresh(call.tool, call.id)
                   /\ \A r \in Claims : Kept(r)

IInv == FilesInv /\ CallInv /\ TrailInv /\ RowsInv /\ NarrativesResolve

-----------------------------------------------------------------------------
(* Numbers *)

LEMMA Bounds == MaxCalls \in Nat /\ MaxForms \in Nat /\ MaxObs \in Nat /\ 0 \in Id
  BY RecordingAssumption DEF RecordingAssumption, Id

\* The next id is above every id there is.
LEMMA LargestIs ==
    ASSUME NEW S \in SUBSET Id
    PROVE  Largest(S) \in Id /\ (\A k \in S : k <= Largest(S)) /\ (S # {} => Largest(S) \in S)
<1> DEFINE Top(m) == \A k \in S : k <= m
<1>1. S \in SUBSET (0 .. MaxCalls)
  BY DEF Id
<1>2. Largest(S) = IF S = {} THEN 0 ELSE CHOOSE m \in S : Top(m)
  BY DEF Largest
<1>3. CASE S = {}
  BY <1>2, <1>3, Bounds
<1>4. CASE S # {}
  <2>1. \E m \in S : Top(m)
    BY <1>1, <1>4, LargestExists, Bounds
  <2>2. Largest(S) \in S /\ Top(Largest(S))
    <3> HIDE DEF Top
    <3> QED BY <1>2, <1>4, <2>1
  <2> QED BY <2>2
<1> QED BY <1>3, <1>4

-----------------------------------------------------------------------------
(* hypothesis.jsonl *)

\* What an append does to the pivots in the log: it adds one at most, and takes
\* one away only where the log becomes unreadable.
LEMMA AppendedIs ==
    ASSUME log \in Seq(Line), NEW line \in Line, log' = Appended(line)
    PROVE  /\ log' \in Seq(Line)
           /\ Unreadable => Unreadable'
           /\ PivotIds \subseteq PivotIds' \/ Unreadable'
           /\ PivotIds' \subseteq (PivotIds \cup {line.p}) \ {0}
           /\ line.p # 0 => line.p \in PivotIds' \/ Unreadable'
<1>1. CASE log # <<>> /\ ~log[Len(log)].nl
  <2> DEFINE junk == Junk(line.nl)
  <2>1. junk \in Line /\ junk.ok = FALSE /\ junk.p = 0
    BY Bounds DEF Junk, Line
  <2>2. Len(log) \in 1 .. Len(log) /\ DOMAIN log = 1 .. Len(log) /\ Len(log) \in Nat
    BY <1>1, EmptySeq, LenProperties
  <2>3. log' = [log EXCEPT ![Len(log)] = junk]
    BY <1>1 DEF Appended, Joined
  <2> HIDE DEF junk
  <2>4. /\ log' \in Seq(Line) /\ DOMAIN log' = DOMAIN log /\ log'[Len(log)] = junk
        /\ \A k \in DOMAIN log : k # Len(log) => log'[k] = log[k]
    BY <2>1, <2>2, <2>3, ExceptSeq
  <2>5. Unreadable'
    BY <2>1, <2>2, <2>4 DEF Unreadable
  <2>6. PivotIds' \subseteq PivotIds \ {0}
    BY <2>1, <2>4 DEF PivotIds
  <2> QED BY <2>4, <2>5, <2>6
<1>2. CASE ~(log # <<>> /\ ~log[Len(log)].nl)
  <2>1. log' = Append(log, line)
    BY <1>2 DEF Appended, Joined
  <2>2. /\ log' \in Seq(Line) /\ Len(log') = Len(log) + 1 /\ log'[Len(log) + 1] = line
        /\ \A k \in 1 .. Len(log) : log'[k] = log[k]
    BY <2>1, AppendProperties
  <2>3. /\ Len(log) \in Nat /\ DOMAIN log = 1 .. Len(log) /\ DOMAIN log' = 1 .. Len(log) + 1
    BY <2>2, LenProperties
  <2>4. /\ DOMAIN log \subseteq DOMAIN log' /\ Len(log) + 1 \in DOMAIN log'
        /\ \A k \in DOMAIN log' : k \in DOMAIN log \/ k = Len(log) + 1
    BY <2>3
  <2>5. Unreadable => Unreadable'
    BY <2>2, <2>3, <2>4 DEF Unreadable
  <2>6. PivotIds \subseteq PivotIds' /\ PivotIds' \subseteq (PivotIds \cup {line.p}) \ {0}
    BY <2>2, <2>3, <2>4 DEF PivotIds
  <2>7. line.p # 0 => line.p \in PivotIds'
    BY <2>2, <2>4 DEF PivotIds
  <2> QED BY <2>2, <2>5, <2>6, <2>7
<1> QED BY <1>1, <1>2

\* The same of an append that raises.
LEMMA FailedAppendIs ==
    ASSUME log \in Seq(Line), NEW line \in Line, log' \in AfterFailedAppend(line)
    PROVE  /\ log' \in Seq(Line)
           /\ Unreadable => Unreadable'
           /\ PivotIds \subseteq PivotIds' \/ Unreadable'
           /\ PivotIds' \subseteq (PivotIds \cup {line.p}) \ {0}
<1> DEFINE cut == [line EXCEPT !.nl = FALSE]
<1>1. Junk(FALSE) \in Line /\ Junk(FALSE).p = 0 /\ cut \in Line /\ cut.p = line.p
  <2>1. Junk(FALSE) \in Line /\ Junk(FALSE).p = 0
    BY Bounds DEF Junk, Line
  <2>2. cut \in Line /\ cut.p = line.p
    BY DEF Line
  <2> QED BY <2>1, <2>2
<1>2. log' \in {log, Appended(Junk(FALSE)), Appended(cut), Appended(line)}
  BY DEF AfterFailedAppend
<1> HIDE DEF cut
<1>3. CASE log' = log
  BY <1>3 DEF Unreadable, PivotIds
<1>4. ASSUME NEW written \in {Junk(FALSE), cut, line}, log' = Appended(written)
      PROVE  /\ log' \in Seq(Line)
             /\ Unreadable => Unreadable'
             /\ PivotIds \subseteq PivotIds' \/ Unreadable'
             /\ PivotIds' \subseteq (PivotIds \cup {line.p}) \ {0}
  BY <1>1, <1>4, AppendedIs
<1> QED BY <1>2, <1>3, <1>4

-----------------------------------------------------------------------------
(* What a step leaves alone *)

\* Records are added, and a pivot vanishes only from a log that shows it.
Grows == /\ obs \subseteq obs' /\ interps \subseteq interps' /\ narratives \subseteq narratives'
         /\ Unreadable => Unreadable'
         /\ PivotIds \subseteq PivotIds' \/ Unreadable'

\* What the lines of the trail hold, and what of it can be read.
LEMMA LinesAre ==
    ASSUME IInv
    PROVE  \A k \in DOMAIN audit : audit[k].claims \subseteq Claimed
<1>1. audit \in Seq(TrailLine)
  BY DEF IInv, TrailInv
<1>2. \A k \in DOMAIN audit : audit[k] \in TrailLine
  BY <1>1, LenProperties, ElementOfSeq
<1> QED BY <1>2 DEF TrailLine

LEMMA RowsAre ==
    ASSUME IInv
    PROVE  /\ \A r : r \in Rows <=> \E k \in DOMAIN audit : audit[k].ok /\ r \in audit[k].claims
           /\ Rows \cup acked \subseteq Claimed
<1>1. \A r : r \in Rows <=> \E k \in DOMAIN audit : audit[k].ok /\ r \in audit[k].claims
  BY DEF Rows
<1>2. \A r \in acked : \E k \in DOMAIN audit : r \in audit[k].claims
  BY DEF IInv, TrailInv
<1> QED BY <1>1, <1>2, LinesAre

LEMMA KeptStays ==
    ASSUME Grows, NEW r, r.tool \in Tool, Kept(r)
    PROVE  Kept(r)'
<1>1. CASE r.tool = "observation"
  BY <1>1 DEF Grows, Kept, Stored
<1>2. CASE r.tool = "interpretation"
  BY <1>2 DEF Grows, Kept, Stored
<1>3. CASE r.tool = "narrative"
  BY <1>3 DEF Grows, Kept, Stored
<1>4. CASE r.tool = "pivot"
  BY <1>4 DEF Grows, Kept, Stored
<1> QED BY <1>1, <1>2, <1>3, <1>4 DEF Tool

LEMMA RowsStay ==
    ASSUME IInv, Grows, UNCHANGED <<audit, acked>>
    PROVE  RowsInv'
<1>1. \A r \in Rows \cup acked : r.tool \in Tool /\ Kept(r)
  <2>1. Rows \cup acked \subseteq Claimed
    BY RowsAre
  <2> QED BY <2>1 DEF IInv, RowsInv, RowsAreTrue, Kept, Claimed
<1>2. \A r \in Rows \cup acked : Kept(r)'
  BY <1>1, KeptStays
<1>3. Rows' = Rows
  BY DEF Rows
<1> QED BY <1>2, <1>3 DEF IInv, RowsInv, RowsAreTrue, Kept

\* A step that leaves the trail alone.
LEMMA TrailStays ==
    ASSUME IInv, UNCHANGED <<audit, acked>>,
           \/ calls' = calls /\ (call'.pc # "idle" => call.pc # "idle")
           \/ calls' = calls + 1
    PROVE  TrailInv'
<1>1. calls \in Nat
  BY Bounds DEF IInv, FilesInv, Id
<1>2. \A k \in DOMAIN audit : \A r \in audit[k].claims : r.n \in Nat
  BY LinesAre, Bounds DEF Claimed
<1>3. \A k \in DOMAIN audit : \A r \in audit[k].claims : r.n <= calls'
  BY <1>1, <1>2 DEF IInv, TrailInv
<1>4. call'.pc # "idle" => \A k \in DOMAIN audit : \A r \in audit[k].claims : r.n < calls'
  BY <1>1, <1>2 DEF IInv, TrailInv
<1> QED BY <1>3, <1>4 DEF IInv, TrailInv

LEMMA NarrativesStay ==
    ASSUME IInv, Grows,
           \A n \in narratives' : n \in narratives \/
              (n.chain \subseteq obs /\ (n.pivots \subseteq PivotIds \/ Unreadable))
    PROVE  NarrativesResolve'
  BY DEF IInv, Grows, NarrativesResolve

\* A step of a call that writes nothing.
LEMMA NothingWritten ==
    ASSUME IInv, UNCHANGED <<findings, log, audit, acked>>,
           calls' = calls \/ (calls < MaxCalls /\ calls' = calls + 1)
    PROVE  /\ FilesInv' /\ RowsInv' /\ NarrativesResolve' /\ Grows
           /\ PivotIds' = PivotIds /\ (Unreadable' <=> Unreadable)
<1>1. PivotIds' = PivotIds /\ (Unreadable' <=> Unreadable)
  BY DEF PivotIds, Unreadable
<1>2. Grows
  BY <1>1 DEF Grows, findings
<1>3. calls' \in Id /\ 0 .. calls \subseteq 0 .. calls'
  BY Bounds DEF IInv, FilesInv, Id
<1>4. FilesInv'
  BY <1>1, <1>3 DEF IInv, FilesInv, findings
<1> QED BY <1>1, <1>2, <1>4, RowsStay, NarrativesStay DEF findings

\* A step that writes records or lines, or tries to.
LEMMA FilesChange ==
    ASSUME IInv, Grows, UNCHANGED <<audit, calls, acked>>,
           obs' \subseteq Id, interps' \subseteq [id : Id, of : Id],
           narratives' \subseteq [id : Id, chain : SUBSET (1 .. MaxObs), pivots : SUBSET Id],
           log' \in Seq(Line), PivotIds' \subseteq 0 .. calls,
           \A n \in narratives' : n \in narratives \/
              (n.chain \subseteq obs /\ (n.pivots \subseteq PivotIds \/ Unreadable))
    PROVE  FilesInv' /\ RowsInv' /\ NarrativesResolve'
<1>1. FilesInv'
  BY DEF IInv, FilesInv
<1> QED BY <1>1, RowsStay, NarrativesStay

-----------------------------------------------------------------------------
(* Calls *)

LEMMA IdleIs == Idle \in CallState /\ Idle.pc = "idle" /\ Idle.tool = "none"
  BY Bounds DEF Idle, CallState, Reason

LEMMA SubmitKeeps ==
    ASSUME IInv, NEW tool \in Tool, NEW about \in Nat, tool = "pivot" => about \in Hypothesis,
           NEW chain \in SUBSET (1 .. MaxObs), NEW pivots \in SUBSET {1}, NEW reason \in Reason,
           Submit(tool, about, chain, pivots, reason)
    PROVE  IInv'
<1>1. /\ call.pc = "idle" /\ calls < MaxCalls /\ calls' = calls + 1
      /\ UNCHANGED <<findings, log, audit, acked>>
      /\ call' = [Idle EXCEPT !.tool = tool, !.about = about, !.chain = chain,
                              !.pivots = pivots, !.reason = reason,
                              !.pc = IF reason # "none" THEN "audit"
                                     ELSE IF tool \in {"narrative", "pivot"} THEN "resolve"
                                     ELSE "store"]
  BY DEF Submit
<1>2. calls \in 0 .. MaxCalls /\ PivotIds \subseteq 0 .. calls
  BY DEF IInv, FilesInv, Id
<1>3. \A p \in PivotIds : p < calls'
  BY <1>1, <1>2, Bounds
<1>4. calls' > 0 /\ 1 \in Id
  BY <1>1, <1>2, Bounds DEF Id
<1>5. FilesInv' /\ RowsInv' /\ NarrativesResolve' /\ PivotIds' = PivotIds
  BY <1>1, NothingWritten
<1>6. /\ call'.tool = tool /\ call'.about = about /\ call'.id = 0 /\ call'.reason = reason
      /\ call'.pc = IF reason # "none" THEN "audit"
                    ELSE IF tool \in {"narrative", "pivot"} THEN "resolve" ELSE "store"
  BY <1>1 DEF Idle
<1>7. call' \in CallState
  BY <1>1, <1>4, IdleIs DEF CallState
<1>8. CallInv'
  BY <1>3, <1>4, <1>5, <1>6, <1>7 DEF CallInv, Ok
<1> QED BY <1>1, <1>5, <1>8, TrailStays DEF IInv

LEMMA SubmitsKeep ==
    ASSUME IInv, SubmitObservation \/ SubmitInterpretation \/ SubmitNarrative \/ SubmitPivot
    PROVE  IInv'
<1>1. CASE SubmitObservation
  <2>1. PICK spanFound, entitiesFound \in BOOLEAN :
           Submit("observation", 0, {}, {}, ObservationVerdict(spanFound, entitiesFound))
    BY <1>1 DEF SubmitObservation
  <2>2. ObservationVerdict(spanFound, entitiesFound) \in Reason
    BY DEF ObservationVerdict, Reason
  <2> QED BY <2>1, <2>2, SubmitKeeps DEF Tool
<1>2. CASE SubmitInterpretation
  <2>1. PICK of \in 1 .. MaxObs, blank \in BOOLEAN,
             confidence \in {"HIGH", "MEDIUM", "LOW"}, length \in {1, 30, 50} :
           Submit("interpretation", of, {}, {}, InterpretationVerdict(blank, confidence, length))
    BY <1>2 DEF SubmitInterpretation
  <2>2. InterpretationVerdict(blank, confidence, length) \in Reason
    BY DEF InterpretationVerdict, Reason
  <2>3. of \in Nat
    BY Bounds
  <2> QED BY <2>1, <2>2, <2>3, SubmitKeeps DEF Tool
<1>3. CASE SubmitNarrative
  <2>1. PICK chain \in (SUBSET (1 .. MaxObs)) \ {{}}, pivots \in {{}, {1}},
             reserved, blank, long, gaps \in BOOLEAN :
           Submit("narrative", 0, chain, pivots, NarrativeVerdict(reserved, blank, long, gaps))
    BY <1>3 DEF SubmitNarrative
  <2>2. NarrativeVerdict(reserved, blank, long, gaps) \in Reason
    BY DEF NarrativeVerdict, Reason
  <2> QED BY <2>1, <2>2, SubmitKeeps DEF Tool
<1>4. CASE SubmitPivot
  <2>1. PICK from \in Hypothesis, blank, evidence \in BOOLEAN :
           Submit("pivot", from, {}, {}, PivotVerdict(blank, evidence))
    BY <1>4 DEF SubmitPivot
  <2>2. PivotVerdict(blank, evidence) \in Reason
    BY DEF PivotVerdict, Reason
  <2>3. from \in Nat
    BY Bounds DEF Hypothesis
  <2> QED BY <2>1, <2>2, <2>3, SubmitKeeps DEF Tool
<1> QED BY <1>1, <1>2, <1>3, <1>4

\* A call that is refused has no id and claims nothing.
LEMMA RejectsKeeps ==
    ASSUME IInv, NEW reason \in Reason \ {"none"}, Rejects(reason), call.pc # "idle", call.id = 0,
           UNCHANGED <<findings, log, audit, calls, acked>>
    PROVE  IInv'
<1>1. /\ call \in CallState /\ call.tool \in Tool /\ calls > 0
      /\ call.tool = "pivot" => call.about \in Hypothesis
  BY DEF IInv, CallInv
<1>2. /\ call' \in CallState /\ call'.tool = call.tool /\ call'.about = call.about
      /\ call'.pc = "audit" /\ call'.id = 0 /\ call'.reason = reason
  BY <1>1 DEF Rejects, CallState
<1>3. CallInv'
  BY <1>1, <1>2 DEF CallInv, Ok
<1>4. TrailInv'
  BY <1>2, TrailStays
<1> QED BY <1>3, <1>4, NothingWritten DEF IInv

LEMMA ResolveKeeps ==
    ASSUME IInv, ResolveNarrative \/ ResolvePivot
    PROVE  IInv'
<1>1. /\ call.pc = "resolve" /\ UNCHANGED <<findings, log, audit, calls, acked>>
  BY DEF ResolveNarrative, ResolvePivot
<1>2. /\ call \in CallState /\ call.tool \in Tool /\ calls > 0 /\ Ok /\ call.id = 0
      /\ call.tool = "pivot" => call.about \in Hypothesis
      /\ \A p \in PivotIds : p < calls
  BY <1>1 DEF IInv, CallInv
<1>3. /\ FilesInv' /\ RowsInv' /\ NarrativesResolve'
      /\ PivotIds' = PivotIds /\ (Unreadable' <=> Unreadable)
  BY <1>1, NothingWritten
<1>4. ASSUME NEW reason \in Reason \ {"none"}, Rejects(reason) PROVE IInv'
  BY <1>1, <1>2, <1>4, RejectsKeeps
<1>5. /\ "OBSERVATION_NOT_FOUND" \in Reason \ {"none"} /\ "AUDIT_STORE_CORRUPTED" \in Reason \ {"none"}
      /\ "PIVOT_NOT_FOUND" \in Reason \ {"none"} /\ "HYPOTHESIS_NOT_FOUND" \in Reason \ {"none"}
  BY DEF Reason
<1>6. CASE ResolveNarrative
  <2>1. CASE /\ call.tool = "narrative" /\ call.chain \subseteq obs /\ call.pivots \subseteq PivotIds
             /\ call' = [call EXCEPT !.pc = "store"]
    <3>1. /\ call' \in CallState /\ call'.tool = "narrative" /\ call'.chain = call.chain
          /\ call'.pivots = call.pivots /\ call'.pc = "store" /\ call'.id = 0
          /\ call'.reason = call.reason
      BY <1>2, <2>1 DEF CallState
    <3>2. CallInv'
      BY <1>1, <1>2, <1>3, <2>1, <3>1 DEF CallInv, Ok, findings, Tool
    <3>3. TrailInv'
      BY <1>1, TrailStays
    <3> QED BY <1>3, <3>2, <3>3 DEF IInv
  <2> QED BY <1>4, <1>5, <1>6, <2>1 DEF ResolveNarrative
<1>7. CASE ResolvePivot
  <2>1. CASE /\ call.tool = "pivot" /\ ~Unreadable
             /\ call' = [call EXCEPT !.pc = "store", !.id = Largest(PivotIds) + 1]
    <3>1. calls \in 0 .. MaxCalls /\ PivotIds \subseteq 0 .. calls
      BY DEF IInv, FilesInv, Id
    <3>2. PivotIds \in SUBSET Id
      BY <3>1, Bounds DEF Id
    <3>3. Largest(PivotIds) \in Id /\ \A p \in PivotIds : p <= Largest(PivotIds)
      BY <3>2, LargestIs
    <3>4. Largest(PivotIds) < calls
      BY <1>2, <3>2, LargestIs DEF Largest
    <3>5. Largest(PivotIds) + 1 \in 1 .. calls /\ Largest(PivotIds) + 1 \in Id
      BY <3>1, <3>3, <3>4, Bounds DEF Id
    <3>6. \A p \in PivotIds : p # Largest(PivotIds) + 1
      BY <3>1, <3>3, Bounds DEF Id
    <3>7. Fresh("pivot", Largest(PivotIds) + 1)
      <4>1. \A r \in Rows : r.tool = "pivot" => r.id \in PivotIds
        BY <2>1 DEF IInv, RowsInv, RowsAreTrue, Stored
      <4> QED BY <3>6, <4>1 DEF Fresh
    <3>8. /\ call' \in CallState /\ call'.tool = "pivot" /\ call'.about = call.about
          /\ call'.pc = "store" /\ call'.id = Largest(PivotIds) + 1
          /\ call'.reason = call.reason
      BY <1>2, <2>1, <3>5 DEF CallState
    <3>9. \A r \in Rows' : r.tool = "pivot" => r.id # call'.id
      BY <1>1, <3>7, <3>8 DEF Fresh, Rows
    <3>10. /\ call'.id \in 1 .. calls' /\ calls' > 0
           /\ call'.tool \in Tool /\ call'.about \in Hypothesis
      BY <1>1, <1>2, <2>1, <3>5, <3>8
    <3>11. CallInv'
      BY <1>2, <3>8, <3>9, <3>10 DEF CallInv, Ok, Fresh
    <3>12. TrailInv'
      BY <1>1, TrailStays
    <3> QED BY <1>3, <3>11, <3>12 DEF IInv
  <2> QED BY <1>4, <1>5, <1>7, <2>1 DEF ResolvePivot
<1> QED BY <1>6, <1>7

-----------------------------------------------------------------------------
(* The record *)

\* A record gets an id no row has, and is there when the write is done.
Recorded(id) ==
    /\ FilesInv' /\ RowsInv' /\ NarrativesResolve'
    /\ id \in Id \ {0} /\ Fresh(call.tool, id)
    /\ \A r : (r.tool = call.tool /\ r.id = id) => Kept(r)'

LEMMA ObservationRecorded ==
    ASSUME IInv, UNCHANGED <<audit, calls, acked>>, NEW id \in Id, AddObservation(id)
    PROVE  Recorded(id)
<1>1. /\ call.tool = "observation" /\ id = Largest(obs) + 1 /\ obs' = obs \cup {id}
      /\ UNCHANGED <<interps, narratives, log>>
  BY DEF AddObservation
<1>2. Largest(obs) \in Id /\ \A k \in obs : k <= Largest(obs)
  BY LargestIs DEF IInv, FilesInv
<1>3. id # 0 /\ id \notin obs
  BY <1>1, <1>2, Bounds DEF Id, IInv, FilesInv
<1>4. Fresh("observation", id)
  BY <1>3 DEF IInv, RowsInv, RowsAreTrue, Stored, Fresh
<1>5. PivotIds' = PivotIds /\ (Unreadable' <=> Unreadable)
  BY <1>1 DEF PivotIds, Unreadable
<1>6. Grows /\ obs' \subseteq Id
  BY <1>1, <1>5 DEF Grows, IInv, FilesInv
<1>7. FilesInv' /\ RowsInv' /\ NarrativesResolve'
  BY <1>1, <1>5, <1>6, FilesChange DEF IInv, FilesInv
<1>8. \A r : (r.tool = "observation" /\ r.id = id) => Kept(r)'
  BY <1>1 DEF Kept, Stored
<1> QED BY <1>1, <1>3, <1>4, <1>7, <1>8 DEF Recorded

LEMMA InterpretationRecorded ==
    ASSUME IInv, UNCHANGED <<audit, calls, acked>>, NEW id \in Id, AddInterpretation(id)
    PROVE  Recorded(id)
<1> DEFINE ids == {i.id : i \in interps}
<1>1. /\ call.tool = "interpretation" /\ call.about \in obs /\ id = Largest(ids) + 1
      /\ interps' = interps \cup {[id |-> id, of |-> call.about]}
      /\ UNCHANGED <<obs, narratives, log>>
  BY DEF AddInterpretation, NextInterpretation
<1>2. ids \in SUBSET Id
  BY DEF IInv, FilesInv
<1>3. Largest(ids) \in Id /\ \A k \in ids : k <= Largest(ids)
  BY <1>2, LargestIs
<1>4. id # 0 /\ id \notin ids
  <2> HIDE DEF ids
  <2> QED BY <1>1, <1>2, <1>3, Bounds DEF Id
<1>5. Fresh("interpretation", id)
  BY <1>4 DEF IInv, RowsInv, RowsAreTrue, Stored, Fresh
<1>6. PivotIds' = PivotIds /\ (Unreadable' <=> Unreadable)
  BY <1>1 DEF PivotIds, Unreadable
<1>7. Grows /\ interps' \subseteq [id : Id, of : Id]
  BY <1>1, <1>6 DEF Grows, IInv, FilesInv
<1>8. FilesInv' /\ RowsInv' /\ NarrativesResolve'
  BY <1>1, <1>6, <1>7, FilesChange DEF IInv, FilesInv
<1>9. \A r : (r.tool = "interpretation" /\ r.id = id) => Kept(r)'
  <2>1. \E i \in interps' : i.id = id
    <3> DEFINE new == [id |-> id, of |-> call.about]
    <3>1. new \in interps' /\ new.id = id
      BY <1>1
    <3> HIDE DEF new
    <3> QED BY <3>1
  <2> QED BY <2>1 DEF Kept, Stored
<1> QED BY <1>1, <1>4, <1>5, <1>8, <1>9 DEF Recorded

LEMMA NarrativeRecorded ==
    ASSUME IInv, UNCHANGED <<audit, calls, acked>>, NEW id \in Id, AddNarrative(id),
           call.chain \subseteq obs /\ (call.pivots \subseteq PivotIds \/ Unreadable)
    PROVE  Recorded(id)
<1> DEFINE ids == {n.id : n \in narratives}
           new == [id |-> id, chain |-> call.chain, pivots |-> call.pivots]
<1>1. /\ call.tool = "narrative" /\ id = Largest(ids) + 1 /\ narratives' = narratives \cup {new}
      /\ UNCHANGED <<obs, interps, log>>
  BY DEF AddNarrative
<1>2. ids \in SUBSET Id
  BY DEF IInv, FilesInv
<1>3. Largest(ids) \in Id /\ \A k \in ids : k <= Largest(ids)
  BY <1>2, LargestIs
<1>4. id # 0 /\ id \notin ids
  <2> HIDE DEF ids
  <2> QED BY <1>1, <1>2, <1>3, Bounds DEF Id
<1>5. Fresh("narrative", id)
  BY <1>4 DEF IInv, RowsInv, RowsAreTrue, Stored, Fresh
<1>6. PivotIds' = PivotIds /\ (Unreadable' <=> Unreadable)
  BY <1>1 DEF PivotIds, Unreadable
<1>7. new \in [id : Id, chain : SUBSET (1 .. MaxObs), pivots : SUBSET Id]
  BY DEF IInv, CallInv, CallState
<1>8. Grows /\ narratives' \subseteq [id : Id, chain : SUBSET (1 .. MaxObs), pivots : SUBSET Id]
  BY <1>1, <1>6, <1>7 DEF Grows, IInv, FilesInv
<1>9. FilesInv' /\ RowsInv' /\ NarrativesResolve'
  BY <1>1, <1>6, <1>8, FilesChange DEF IInv, FilesInv
<1>10. \A r : (r.tool = "narrative" /\ r.id = id) => Kept(r)'
  <2>1. \E n \in narratives' : n.id = id
    <3>1. new \in narratives' /\ new.id = id
      BY <1>1
    <3> HIDE DEF new
    <3> QED BY <3>1
  <2> QED BY <2>1 DEF Kept, Stored
<1> QED BY <1>1, <1>4, <1>5, <1>9, <1>10 DEF Recorded

LEMMA PivotLine ==
    ASSUME NEW h \in Hypothesis, NEW p \in Id
    PROVE  Pivot(h, p) \in Line /\ Pivot(h, p).p = p
  BY Bounds DEF Hypothesis, Pivot, Line

LEMMA PivotRecorded ==
    ASSUME IInv, UNCHANGED <<audit, calls, acked>>, NEW id \in Id, AddPivot(id),
           call.about \in Hypothesis, call.id \in 1 .. calls, Fresh("pivot", call.id)
    PROVE  Recorded(id)
<1> DEFINE line == Pivot(call.about, id)
<1>1. call.tool = "pivot" /\ id = call.id /\ log' = Appended(line) /\ UNCHANGED findings
  BY DEF AddPivot
<1>2. line \in Line /\ line.p = id
  BY PivotLine
<1> HIDE DEF line
<1>3. /\ log' \in Seq(Line) /\ (Unreadable => Unreadable')
      /\ PivotIds \subseteq PivotIds' \/ Unreadable'
      /\ PivotIds' \subseteq (PivotIds \cup {id}) \ {0}
      /\ id # 0 => id \in PivotIds' \/ Unreadable'
  BY <1>1, <1>2, AppendedIs DEF IInv, FilesInv
<1>4. id # 0 /\ PivotIds' \subseteq 0 .. calls
  BY <1>1, <1>3, Bounds DEF IInv, FilesInv, Id
<1>5. Grows
  BY <1>1, <1>3 DEF Grows, findings
<1>6. FilesInv' /\ RowsInv' /\ NarrativesResolve'
  BY <1>1, <1>3, <1>4, <1>5, FilesChange DEF IInv, FilesInv, findings
<1>7. \A r : (r.tool = "pivot" /\ r.id = id) => Kept(r)'
  BY <1>3, <1>4 DEF Kept, Stored
<1> QED BY <1>1, <1>4, <1>6, <1>7 DEF Recorded

LEMMA AddIs ==
    ASSUME IInv, UNCHANGED <<audit, calls, acked>>, call.pc = "store", NEW id \in Id, Add(id)
    PROVE  Recorded(id)
<1>1. /\ call.tool = "pivot" => call.id \in 1 .. calls /\ Fresh("pivot", call.id)
      /\ call.tool = "pivot" => call.about \in Hypothesis
      /\ call.tool = "narrative" =>
            call.chain \subseteq obs /\ (call.pivots \subseteq PivotIds \/ Unreadable)
  BY DEF IInv, CallInv
<1>2. CASE AddObservation(id)
  BY <1>2, ObservationRecorded
<1>3. CASE AddInterpretation(id)
  BY <1>3, InterpretationRecorded
<1>4. CASE AddNarrative(id)
  BY <1>1, <1>4, NarrativeRecorded DEF AddNarrative
<1>5. CASE AddPivot(id)
  BY <1>1, <1>5, PivotRecorded DEF AddPivot
<1> QED BY <1>2, <1>3, <1>4, <1>5 DEF Add

LEMMA StoreKeeps == ASSUME IInv, Store PROVE IInv'
<1>1. call.pc = "store" /\ UNCHANGED <<audit, calls, acked>>
  BY DEF Store
<1>2. PICK id \in Id : Add(id) /\ call' = [call EXCEPT !.pc = "audit", !.id = id]
  BY DEF Store
<1>3. Recorded(id)
  BY <1>1, <1>2, AddIs
<1>4. /\ call \in CallState /\ call.tool \in Tool /\ calls > 0 /\ Ok
      /\ call.tool = "pivot" => call.about \in Hypothesis
  BY <1>1 DEF IInv, CallInv
<1>5. /\ call' \in CallState /\ call'.tool = call.tool /\ call'.about = call.about
      /\ call'.pc = "audit" /\ call'.id = id /\ call'.reason = call.reason
  BY <1>2, <1>4 DEF CallState
<1>6. Fresh(call.tool, id)'
  BY <1>1, <1>3, <1>5 DEF Recorded, Fresh, Rows
<1>7. \A r \in Claims' : Kept(r)'
  BY <1>3, <1>5 DEF Recorded, Claims
<1>8. CallInv'
  BY <1>1, <1>3, <1>4, <1>5, <1>6, <1>7 DEF CallInv, Ok, Recorded, Fresh
<1>9. TrailInv'
  BY <1>1, <1>5, TrailStays
<1> QED BY <1>3, <1>8, <1>9 DEF IInv, Recorded

LEMMA StoreFailsKeeps == ASSUME IInv, StoreFails PROVE IInv'
<1>1. /\ call.pc = "store" /\ UNCHANGED <<audit, calls, acked>>
      /\ call' = [call EXCEPT !.pc = "audit", !.id = 0, !.reason = "UNWRITABLE"]
  BY DEF StoreFails
<1>2. /\ call \in CallState /\ call.tool \in Tool /\ calls > 0
      /\ call.tool = "pivot" => call.about \in Hypothesis /\ call.id \in 1 .. calls
  BY <1>1 DEF IInv, CallInv
<1>3. /\ call' \in CallState /\ call'.tool = call.tool /\ call'.about = call.about
      /\ call'.pc = "audit" /\ call'.id = 0 /\ call'.reason = "UNWRITABLE"
  BY <1>1, <1>2, Bounds DEF CallState, Reason
<1>4. CallInv'
  BY <1>1, <1>2, <1>3 DEF CallInv, Ok
<1>5. FilesInv' /\ RowsInv' /\ NarrativesResolve'
  <2>1. ASSUME NEW id \in Id, Add(id)
        PROVE  FilesInv' /\ RowsInv' /\ NarrativesResolve'
    BY <1>1, <2>1, AddIs DEF Recorded
  <2>2. CASE /\ call.tool = "pivot" /\ log' \in AfterFailedAppend(Pivot(call.about, call.id))
             /\ UNCHANGED findings
    <3> DEFINE line == Pivot(call.about, call.id)
    <3>1. line \in Line /\ line.p = call.id
      BY <1>2, <2>2, PivotLine DEF CallState
    <3>2. log' \in AfterFailedAppend(line)
      BY <2>2
    <3> HIDE DEF line
    <3>3. /\ log' \in Seq(Line) /\ (Unreadable => Unreadable')
          /\ PivotIds \subseteq PivotIds' \/ Unreadable'
          /\ PivotIds' \subseteq (PivotIds \cup {call.id}) \ {0}
      BY <3>1, <3>2, FailedAppendIs DEF IInv, FilesInv
    <3>4. PivotIds' \subseteq 0 .. calls
      BY <1>2, <2>2, <3>3, Bounds DEF IInv, FilesInv, Id
    <3>5. Grows
      BY <2>2, <3>3 DEF Grows, findings
    <3> QED BY <1>1, <2>2, <3>3, <3>4, <3>5, FilesChange DEF IInv, FilesInv, findings
  <2>3. CASE UNCHANGED <<findings, log>>
    BY <1>1, <2>3, NothingWritten
  <2> QED BY <2>1, <2>2, <2>3 DEF StoreFails
<1>6. TrailInv'
  BY <1>1, <1>3, TrailStays
<1> QED BY <1>4, <1>5, <1>6 DEF IInv

LEMMA StoreNotFoundKeeps == ASSUME IInv, StoreNotFound PROVE IInv'
<1>1. /\ call.pc = "store" /\ call.tool = "interpretation" /\ Rejects("OBSERVATION_NOT_FOUND")
      /\ UNCHANGED <<findings, log, audit, calls, acked>>
  BY DEF StoreNotFound
<1>2. call.id = 0 /\ "OBSERVATION_NOT_FOUND" \in Reason \ {"none"}
  BY <1>1 DEF IInv, CallInv, Reason
<1> QED BY <1>1, <1>2, RejectsKeeps

-----------------------------------------------------------------------------
(* The audit row and the agent's lines *)

\* What an append does to the trail: every line keeps what it holds, one may take
\* the row in and is unreadable then, or the row is a line of its own.
LEMMA WrittenIs ==
    ASSUME audit \in Seq(TrailLine), NEW row \in TrailLine, audit' = Written(row)
    PROVE  /\ audit' \in Seq(TrailLine)
           /\ \A k \in DOMAIN audit : k \in DOMAIN audit' /\ audit[k].claims \subseteq audit'[k].claims
           /\ \A k \in DOMAIN audit' :
                 \/ k \in DOMAIN audit /\ audit'[k] = audit[k]
                 \/ /\ k \in DOMAIN audit /\ ~audit[k].nl /\ audit'[k].nl = row.nl
                    /\ ~audit'[k].ok /\ audit'[k].claims = audit[k].claims \cup row.claims
                 \/ k \notin DOMAIN audit /\ audit'[k] = row
           /\ \E k \in DOMAIN audit' : row.claims \subseteq audit'[k].claims
<1> DEFINE both == [ok |-> FALSE, nl |-> row.nl, claims |-> audit[Len(audit)].claims \cup row.claims]
<1>1. audit' = Joined(audit, row, both)
  BY DEF Written
<1>2. Len(audit) \in Nat /\ DOMAIN audit = 1 .. Len(audit)
  BY LenProperties
<1>3. CASE audit # <<>> /\ ~audit[Len(audit)].nl
  <2>1. Len(audit) \in DOMAIN audit /\ audit[Len(audit)] \in TrailLine
    BY <1>2, <1>3, EmptySeq, ElementOfSeq
  <2>2. /\ both \in TrailLine /\ both.ok = FALSE /\ both.nl = row.nl
        /\ both.claims = audit[Len(audit)].claims \cup row.claims
    BY <2>1 DEF TrailLine
  <2>3. audit' = [audit EXCEPT ![Len(audit)] = both]
    BY <1>1, <1>3 DEF Joined
  <2> HIDE DEF both
  <2>4. /\ audit' \in Seq(TrailLine) /\ DOMAIN audit' = DOMAIN audit /\ audit'[Len(audit)] = both
        /\ \A k \in DOMAIN audit : k # Len(audit) => audit'[k] = audit[k]
    BY <1>2, <2>1, <2>2, <2>3, ExceptSeq
  <2> QED BY <1>3, <2>1, <2>2, <2>4
<1>4. CASE ~(audit # <<>> /\ ~audit[Len(audit)].nl)
  <2>1. audit' = Append(audit, row)
    BY <1>1, <1>4 DEF Joined
  <2>2. /\ audit' \in Seq(TrailLine) /\ Len(audit') = Len(audit) + 1
        /\ audit'[Len(audit) + 1] = row
        /\ \A k \in 1 .. Len(audit) : audit'[k] = audit[k]
    BY <2>1, AppendProperties
  <2>3. DOMAIN audit' = 1 .. Len(audit) + 1
    BY <2>2, LenProperties
  <2>4. /\ DOMAIN audit \subseteq DOMAIN audit' /\ Len(audit) + 1 \in DOMAIN audit'
        /\ Len(audit) + 1 \notin DOMAIN audit
        /\ \A k \in DOMAIN audit' : k \in DOMAIN audit \/ k = Len(audit) + 1
    BY <1>2, <2>3
  <2> QED BY <1>2, <2>2, <2>4
<1> QED BY <1>3, <1>4

\* What a call claims is there, under an id no row has.
LEMMA ClaimsAre ==
    ASSUME IInv, call.pc = "audit"
    PROVE  /\ Claims \subseteq Claimed /\ \A r, s \in Claims : r = s
           /\ \A r \in Claims : r.n = calls /\ Kept(r) /\ Fresh(r.tool, r.id)
<1>1. /\ call \in CallState /\ call.tool \in Tool /\ calls > 0 /\ (call.id = 0 <=> ~Ok)
      /\ Ok => Fresh(call.tool, call.id) /\ \A r \in Claims : Kept(r)
  BY DEF IInv, CallInv
<1>2. calls \in 1 .. MaxCalls
  BY <1>1, Bounds DEF IInv, FilesInv, Id
<1>3. Ok => [n |-> calls, tool |-> call.tool, id |-> call.id] \in Claimed
  BY <1>1, <1>2 DEF Claimed, CallState
<1> QED BY <1>1, <1>3 DEF Claims

\* The answers of a call whose row was appended in whatever way.
LEMMA RowKeeps ==
    ASSUME IInv, call.pc = "audit", call' = Idle, UNCHANGED <<findings, log, calls>>,
           NEW row \in TrailLine, row.claims \subseteq Claims, audit' = Written(row),
           \/ acked' = acked
           \/ acked' = acked \cup Claims /\ row.nl /\ row.claims = Claims
    PROVE  IInv'
<1>1. audit \in Seq(TrailLine) /\ calls \in Nat
  BY Bounds DEF IInv, TrailInv, FilesInv, Id
<1>2. /\ audit' \in Seq(TrailLine)
      /\ \A k \in DOMAIN audit : k \in DOMAIN audit' /\ audit[k].claims \subseteq audit'[k].claims
      /\ \A k \in DOMAIN audit' :
            \/ k \in DOMAIN audit /\ audit'[k] = audit[k]
            \/ /\ k \in DOMAIN audit /\ ~audit[k].nl /\ audit'[k].nl = row.nl
               /\ ~audit'[k].ok /\ audit'[k].claims = audit[k].claims \cup row.claims
            \/ k \notin DOMAIN audit /\ audit'[k] = row
      /\ \E k \in DOMAIN audit' : row.claims \subseteq audit'[k].claims
  BY <1>1, WrittenIs
<1>3. /\ Claims \subseteq Claimed /\ \A r, s \in Claims : r = s
      /\ \A r \in Claims : r.n = calls /\ Kept(r) /\ Fresh(r.tool, r.id)
  BY ClaimsAre
<1>4. PivotIds' = PivotIds /\ (Unreadable' <=> Unreadable)
  BY DEF PivotIds, Unreadable
<1>5. NarrativesResolve' /\ FilesInv'
  BY <1>4 DEF IInv, NarrativesResolve, FilesInv, findings
<1>6. \A r : Kept(r)' <=> Kept(r)
  BY <1>4 DEF Kept, Stored, findings
<1>7. \A k \in DOMAIN audit : \A r \in audit[k].claims : r.n \in Nat /\ r.n < calls
  BY LinesAre, Bounds DEF IInv, TrailInv, Claimed
<1>8. \A k \in DOMAIN audit : \A r \in audit[k].claims : r \notin Claims /\ r \notin row.claims
  BY <1>1, <1>3, <1>7
<1>9. \A r \in acked : r \notin Claims /\ r \notin row.claims
  BY <1>8 DEF IInv, TrailInv
<1>10. TrailInv'
  <2>1. \A k \in DOMAIN audit' : \A r \in audit'[k].claims : r.n <= calls
    BY <1>1, <1>2, <1>3, <1>7
  <2>2. ASSUME NEW k \in DOMAIN audit'
        PROVE  /\ \A r, s \in acked' \cap audit'[k].claims : r = s
               /\ ~audit'[k].nl => acked' \cap audit'[k].claims = {}
    <3>1. CASE k \in DOMAIN audit /\ audit'[k] = audit[k]
      <4>1. acked' \cap audit'[k].claims = acked \cap audit[k].claims
        BY <1>8, <3>1
      <4> QED BY <3>1, <4>1 DEF IInv, TrailInv
    <3>2. CASE /\ k \in DOMAIN audit /\ ~audit[k].nl /\ audit'[k].nl = row.nl
               /\ audit'[k].claims = audit[k].claims \cup row.claims
      <4>1. acked \cap audit[k].claims = {}
        BY <3>2 DEF IInv, TrailInv
      <4>2. acked' = acked => acked' \cap audit'[k].claims = {}
        BY <1>9, <3>2, <4>1
      <4>3. acked' = acked \cup Claims => acked' \cap audit'[k].claims \subseteq Claims
        BY <1>8, <1>9, <3>2, <4>1
      <4> QED BY <1>3, <3>2, <4>2, <4>3
    <3>3. CASE k \notin DOMAIN audit /\ audit'[k] = row
      <4>1. acked' = acked => acked' \cap audit'[k].claims = {}
        BY <1>9, <3>3
      <4>2. acked' = acked \cup Claims => acked' \cap audit'[k].claims \subseteq Claims
        BY <3>3
      <4> QED BY <1>3, <3>3, <4>1, <4>2
    <3> QED BY <1>2, <3>1, <3>2, <3>3
  <2>3. \A r \in acked' : \E k \in DOMAIN audit' : r \in audit'[k].claims
    <3>1. \A r \in acked : \E k \in DOMAIN audit' : r \in audit'[k].claims
      BY <1>2 DEF IInv, TrailInv
    <3> QED BY <1>2, <3>1
  <2> QED BY <1>2, <2>1, <2>2, <2>3, IdleIs DEF TrailInv
<1>11. Rows' \subseteq Rows \cup Claims
  <2>1. \A r : r \in Rows' <=> \E k \in DOMAIN audit' : audit'[k].ok /\ r \in audit'[k].claims
    BY DEF Rows
  <2> QED BY <1>2, <2>1, RowsAre
<1>12. RowsInv'
  <2>1. \A r \in Rows \cup Claims : Kept(r)
    BY <1>3 DEF IInv, RowsInv, RowsAreTrue, Kept
  <2>2. \A r, s \in Rows \cup Claims : r.tool = s.tool /\ r.id = s.id => r = s
    BY <1>3 DEF IInv, RowsInv, RowsAreTrue, Fresh
  <2>3. \A r \in acked' : Kept(r)'
    BY <1>3, <1>6 DEF IInv, RowsInv
  <2>4. \A r \in Rows' : Kept(r)'
    BY <1>6, <1>11, <2>1
  <2> QED BY <1>11, <2>2, <2>3, <2>4 DEF RowsInv, RowsAreTrue, Kept
<1>13. CallInv'
  BY IdleIs DEF CallInv
<1> QED BY <1>5, <1>10, <1>12, <1>13 DEF IInv

LEMMA RowIs ==
    ASSUME IInv, call.pc = "audit"
    PROVE  /\ Row(Claims) \in TrailLine /\ Row(Claims).nl /\ Row(Claims).claims = Claims
           /\ [Row(Claims) EXCEPT !.nl = FALSE] \in TrailLine
           /\ [Row(Claims) EXCEPT !.nl = FALSE].claims = Claims
           /\ CutRow \in TrailLine /\ CutRow.claims = {}
<1>1. Claims \in SUBSET Claimed
  BY ClaimsAre
<1> HIDE DEF Claims, Claimed
<1> QED BY <1>1 DEF Row, CutRow, TrailLine

LEMMA WriteRowKeeps == ASSUME IInv, WriteRow PROVE IInv'
<1>1. /\ call.pc = "audit" /\ call' = Idle /\ UNCHANGED <<findings, log, calls>>
      /\ audit' = Written(Row(Claims)) /\ acked' = acked \cup Claims
  BY DEF WriteRow
<1> DEFINE row == Row(Claims)
<1>2. row \in TrailLine /\ row.nl /\ row.claims = Claims /\ audit' = Written(row)
  BY <1>1, RowIs
<1> HIDE DEF row
<1> QED BY <1>1, <1>2, RowKeeps

LEMMA RowFailsKeeps == ASSUME IInv, RowFails PROVE IInv'
<1>1. /\ call.pc = "audit" /\ call' = Idle /\ UNCHANGED <<findings, log, calls, acked>>
      /\ audit' \in AfterFailedRow(Row(Claims))
  BY DEF RowFails
<1> DEFINE row == Row(Claims)
           unended == [Row(Claims) EXCEPT !.nl = FALSE]
<1>2. audit' \in {audit, Written(CutRow), Written(unended), Written(row)}
  BY <1>1 DEF AfterFailedRow
<1>3. /\ row \in TrailLine /\ row.claims = Claims /\ unended \in TrailLine
      /\ unended.claims = Claims /\ CutRow \in TrailLine /\ CutRow.claims = {}
  BY <1>1, RowIs
<1> HIDE DEF row, unended
<1>4. CASE audit' = audit
  <2>1. CallInv'
    BY <1>1, IdleIs DEF CallInv
  <2>2. TrailInv'
    BY <1>1, <1>4, IdleIs, TrailStays
  <2> QED BY <1>1, <1>4, <2>1, <2>2, NothingWritten DEF IInv
<1>5. CASE audit' = Written(CutRow)
  BY <1>1, <1>3, <1>5, RowKeeps
<1>6. CASE audit' = Written(unended)
  BY <1>1, <1>3, <1>6, RowKeeps
<1>7. CASE audit' = Written(row)
  BY <1>1, <1>3, <1>7, RowKeeps
<1> QED BY <1>2, <1>4, <1>5, <1>6, <1>7

LEMMA DieKeeps == ASSUME IInv, Die PROVE IInv'
<1>1. call' = Idle /\ UNCHANGED <<findings, log, audit, calls, acked>>
  BY DEF Die
<1>2. CallInv'
  BY <1>1, IdleIs DEF CallInv
<1>3. TrailInv'
  BY <1>1, IdleIs, TrailStays
<1> QED BY <1>1, <1>2, <1>3, NothingWritten DEF IInv

\* What is claimed of a call under way outlasts the agent's lines, even a cut one.
LEMMA AgentKeeps ==
    ASSUME IInv, NEW h \in Hypothesis, AgentForms(h)
    PROVE  IInv'
<1>1. log' \in AfterFailedAppend(Form(h)) /\ UNCHANGED <<findings, audit, calls, call, acked>>
  BY DEF AgentForms
<1>2. Form(h) \in Line /\ Form(h).p = 0
  BY Bounds DEF Form, Line, Hypothesis
<1>3. /\ log' \in Seq(Line) /\ (Unreadable => Unreadable')
      /\ PivotIds \subseteq PivotIds' \/ Unreadable'
      /\ PivotIds' \subseteq PivotIds
  BY <1>1, <1>2, FailedAppendIs DEF IInv, FilesInv
<1>4. Grows
  BY <1>1, <1>3 DEF Grows, findings
<1>5. FilesInv' /\ RowsInv' /\ NarrativesResolve'
  BY <1>1, <1>3, <1>4, FilesChange DEF IInv, FilesInv, findings
<1>6. Claims' = Claims /\ (Ok' <=> Ok) /\ \A id : Fresh(call.tool, id)' <=> Fresh(call.tool, id)
  BY <1>1 DEF Claims, Ok, Fresh, Rows
<1>7. call.pc = "audit" /\ Ok => \A r \in Claims : Kept(r)'
  <2>1. call.pc = "audit" /\ Ok => \A r \in Claims : r.tool \in Tool /\ Kept(r)
    BY DEF IInv, CallInv, Claims
  <2> QED BY <1>4, <2>1, KeptStays
<1>8. CallInv'
  BY <1>1, <1>3, <1>6, <1>7 DEF IInv, CallInv, findings, Ok, Fresh
<1>9. TrailInv'
  BY <1>1, TrailStays
<1> QED BY <1>5, <1>8, <1>9 DEF IInv

-----------------------------------------------------------------------------
(* The theorems *)

LEMMA InitHolds == ASSUME Init PROVE IInv
<1>1. /\ obs = {} /\ interps = {} /\ narratives = {} /\ log = <<>> /\ audit = <<>> /\ calls = 0
      /\ call = Idle /\ acked = {}
  BY DEF Init
<1>2. log \in Seq(Line) /\ PivotIds = {}
  BY <1>1, EmptySeq DEF PivotIds
<1>3. FilesInv
  BY <1>1, <1>2, Bounds DEF FilesInv
<1>4. CallInv
  BY <1>1, IdleIs DEF CallInv
<1>5. TrailInv /\ Rows = {}
  <2>1. audit \in Seq(TrailLine) /\ DOMAIN audit = {}
    BY <1>1, EmptySeq
  <2> QED BY <1>1, <2>1 DEF TrailInv, Rows
<1>6. RowsInv /\ NarrativesResolve
  BY <1>1, <1>5 DEF RowsInv, RowsAreTrue, NarrativesResolve
<1> QED BY <1>3, <1>4, <1>5, <1>6 DEF IInv

LEMMA StepHolds == ASSUME IInv, [Next]_vars PROVE IInv'
<1>1. CASE UNCHANGED vars
  <2>1. UNCHANGED <<findings, log, audit, calls, call, acked>>
    BY <1>1 DEF vars
  <2>2. /\ FilesInv' /\ RowsInv' /\ NarrativesResolve'
        /\ PivotIds' = PivotIds /\ (Unreadable' <=> Unreadable) /\ Grows
    BY <2>1, NothingWritten
  <2>3. Claims' = Claims /\ (Ok' <=> Ok)
    BY <2>1 DEF Claims, Ok
  <2>4. \A r : Kept(r)' <=> Kept(r)
    BY <2>1, <2>2 DEF Kept, Stored, findings
  <2>5. CallInv'
    BY <2>1, <2>2, <2>3, <2>4 DEF IInv, CallInv, findings, Fresh, Ok, Rows
  <2>6. TrailInv'
    BY <2>1, TrailStays
  <2> QED BY <2>2, <2>5, <2>6 DEF IInv
<1>2. CASE WriteRow \/ RowFails
  BY <1>2, WriteRowKeeps, RowFailsKeeps
<1> QED
  BY <1>1, <1>2, SubmitsKeep, ResolveKeeps, StoreKeeps, StoreNotFoundKeeps, StoreFailsKeeps,
     DieKeeps, AgentKeeps DEF Next

LEMMA InvariantHolds == Spec => []IInv
<1>1. Init => IInv
  BY InitHolds
<1>2. IInv /\ [Next]_vars => IInv'
  BY StepHolds
<1> QED BY <1>1, <1>2, PTL DEF Spec

\* The state keeps its shape, and a result has an id or a reason and never both.
THEOREM TypeCorrect == Spec => []TypeOK
<1>1. IInv => TypeOK
  <2>1. ASSUME IInv PROVE acked \subseteq [n : 1 .. calls, tool : Tool, id : Id \ {0}]
    <3>1. acked \subseteq Claimed /\ \A r \in acked : r.n <= calls
      BY <2>1, RowsAre DEF IInv, TrailInv
    <3> QED BY <2>1, <3>1, Bounds DEF Claimed, IInv, FilesInv, Id
  <2> QED BY <2>1 DEF IInv, FilesInv, CallInv, CallState, TrailInv, TrailLine, Claimed, TypeOK
<1> QED BY <1>1, InvariantHolds, PTL

\* observation.py, interpretation.py, narrative.py, pivot.py: what the agent was told it
\* recorded is recorded and has its audit row, whatever write failed and wherever
\* the server died.  A cut row swallows one acknowledged row at most, a cut line of
\* the agent's a pivot, and both files show it.
THEOREM WhatIsToldIsKept == Spec => []AcknowledgedIsKept
<1>1. IInv => AcknowledgedIsKept
  <2> SUFFICES ASSUME IInv, NEW r \in acked
               PROVE  /\ \E k \in DOMAIN audit :
                             /\ r \in audit[k].claims
                             /\ audit[k].ok \/ acked \cap audit[k].claims = {r}
                      /\ Stored(r) \/ (r.tool = "pivot" /\ Unreadable)
    BY DEF AcknowledgedIsKept
  <2>1. PICK k \in DOMAIN audit : r \in audit[k].claims
    BY DEF IInv, TrailInv
  <2>2. acked \cap audit[k].claims = {r}
    BY <2>1 DEF IInv, TrailInv
  <2> QED BY <2>1, <2>2 DEF IInv, RowsInv, Kept
<1> QED BY <1>1, InvariantHolds, PTL

\* _interpretation_store.py, "case-wide unambiguous IDs": no two rows of the trail claim
\* the same record, and none a record that is not there.
THEOREM TheTrailIsTrue == Spec => []RowsAreTrue
<1>1. IInv => RowsAreTrue
  BY DEF IInv, RowsInv
<1> QED BY <1>1, InvariantHolds, PTL

\* narrative.py: the references of a narrative, though checked before the lock is
\* taken, lead to observations and pivots of the case.
THEOREM NarrativesAreGrounded == Spec => []NarrativesResolve
<1>1. IInv => NarrativesResolve
  BY DEF IInv
<1> QED BY <1>1, InvariantHolds, PTL
=============================================================================
