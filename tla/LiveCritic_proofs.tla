-------------------------- MODULE LiveCritic_proofs --------------------------
(***************************************************************************)
(* Proofs about LiveCritic, for any bounds and any choice of contradicted  *)
(* readings: nothing under the watermark was passed over, the detectors'   *)
(* floor holds whatever the critic model does, the agent hears only of     *)
(* what is logged, and the coverage gate ends a run only as it may.        *)
(***************************************************************************)
EXTENDS LiveCritic, FiniteSetTheorems, SequenceTheorems, Induction, TLAPS

(* The inductive invariant *)

\* Observations have a number, and only they are interpreted or answer questions.
RowsInv == /\ rows \in Seq(Row) /\ Len(rows) <= MaxRows
           /\ \A k \in 1 .. Len(rows) :
                /\ rows[k].kind = "observation" => rows[k].oid \in Obs
                /\ rows[k].kind # "observation" => rows[k].about = {}

RunInv == /\ late \in BOOLEAN
          /\ logged \subseteq Obs /\ pending \subseteq Obs /\ found \subseteq Obs
          /\ window \subseteq Reading /\ reviewed \subseteq Reading /\ told \subseteq Reading
          /\ pc \in {"off", "ask", "critique", "route", "advance", "act"}
          /\ requests \in 0 .. RequestLimit
          /\ bounces \in 0 .. MaxBounces /\ retries \in 0 .. OutputRetries
          /\ outcome \in {"none", "KILLED", "FAILED", "RETRIES", "MAX_ITERATIONS", "COMPLETED"}
          /\ pc # "off" => outcome = "none"

\* What the detectors found is among the verdicts that are routed.
FloorInv == /\ pc = "route" => Detected \subseteq found
            /\ DetectorFloor
            /\ PendingIsLogged

\* Row k was judged, or is being judged.
Judged(k) == \E r \in reviewed : r.oid = rows[k].oid
Staging(k) == \E r \in window : r.oid = rows[k].oid

\* A pass has all that is interpreted behind the watermark, also when review
\* adds or removes finding rows while it is under way.
WindowInv == /\ pc \in {"critique", "route"} =>
                  \A k \in 1 .. Len(rows) : k > mark /\ IsInterpreted(rows[k]) => Staging(k)
             /\ pc = "advance" =>
                  \A k \in 1 .. Len(rows) : k > mark /\ IsInterpreted(rows[k]) => Judged(k)

\* What lies under the watermark m is interpreted and judged.
Under(m) == /\ m \in 0 .. Len(rows)
            /\ \A k \in 1 .. m : IsInterpreted(rows[k]) /\ Judged(k)

MarkInv == Under(saved) /\ Under(mark)

IInv == RowsInv /\ RunInv /\ FloorInv /\ WindowInv /\ MarkInv /\ GateOutcome

-----------------------------------------------------------------------------
(* Helpers *)

LEMMA Bounds ==
    /\ Interval \in Nat /\ MaxBounces \in Nat /\ OutputRetries \in Nat /\ RequestLimit \in Nat
    /\ MaxObs \in Nat /\ MaxInterp \in Nat /\ MaxRows \in Nat
  BY CriticAssumption DEF CriticAssumption

\* The watermark moves to the end of the run of interpreted observations.
LEMMA AdvancedIs ==
    ASSUME rows \in Seq(Row), mark \in 0 .. Len(rows)
    PROVE  /\ Advanced \in mark .. Len(rows)
           /\ \A k \in mark + 1 .. Advanced : IsInterpreted(rows[k])
<1> DEFINE Stops == {m \in mark .. Len(rows) :
                       ~(m + 1 \in 1 .. Len(rows) /\ IsInterpreted(rows[m + 1]))}
<1>1. Len(rows) \in Nat /\ DOMAIN rows = 1 .. Len(rows) /\ mark \in Nat
  OBVIOUS
<1>2. Stops \in SUBSET Nat /\ Len(rows) \in Stops
  BY <1>1
<1>3. PICK n \in Stops : \A m \in Stops : n <= m
  BY <1>2, SmallestExists
<1>4. \A k \in mark + 1 .. n : k \in 1 .. Len(rows) /\ IsInterpreted(rows[k])
  <2> TAKE k \in mark + 1 .. n
  <2>1. k - 1 \in mark .. Len(rows) /\ k - 1 < n /\ (k - 1) + 1 = k /\ n \in Nat
    BY <1>1, <1>3
  <2>2. k - 1 \notin Stops
    <3> SUFFICES ASSUME k - 1 \in Stops PROVE FALSE
      OBVIOUS
    <3>1. n <= k - 1
      <4> HIDE DEF Stops
      <4> QED BY <1>3
    <3> QED BY <1>1, <2>1, <3>1
  <2> QED BY <2>1, <2>2
<1> DEFINE Right(m) == /\ \A k \in mark + 1 .. m : k \in DOMAIN rows /\ IsInterpreted(rows[k])
                       /\ ~(m + 1 \in DOMAIN rows /\ IsInterpreted(rows[m + 1]))
<1>5. n \in mark .. (mark + Len(rows)) /\ Right(n)
  BY <1>1, <1>3, <1>4
<1>6. Advanced \in mark .. (mark + Len(rows)) /\ Right(Advanced)
  <2> HIDE DEF Right
  <2>1. Advanced = CHOOSE m \in mark .. (mark + Len(rows)) : Right(m)
    BY DEF Advanced, Right
  <2> QED BY <1>5, <2>1
<1>7. Advanced > mark => Advanced \in DOMAIN rows
  BY <1>1, <1>6
<1> QED BY <1>1, <1>6, <1>7

\* Rows that keep their places and their observations leave MarkInv alone.
LEMMA PrefixKept ==
    ASSUME RowsInv, MarkInv, rows' \in Seq(Row), Len(rows') >= Len(rows),
           \A k \in 1 .. Len(rows) :
              /\ rows'[k].oid = rows[k].oid
              /\ IsInterpreted(rows[k]) => IsInterpreted(rows'[k]),
           UNCHANGED <<saved, mark, reviewed>>
    PROVE  MarkInv'
  BY DEF RowsInv, MarkInv, Under, Judged

\* Rows that address the same questions cover the same.
LEMMA SameCover ==
    ASSUME rows \in Seq(Row), rows' \in Seq(Row),
           \A j \in 1 .. Len(rows') :
              rows'[j].about = {} \/ \E i \in 1 .. Len(rows) : rows'[j].about = rows[i].about,
           \A i \in 1 .. Len(rows) :
              rows[i].about = {} \/ \E j \in 1 .. Len(rows') : rows'[j].about = rows[i].about
    PROVE  Covered' = Covered
<1>1. DOMAIN rows = 1 .. Len(rows) /\ DOMAIN rows' = 1 .. Len(rows')
  OBVIOUS
<1>2. ASSUME NEW q \in Covered' PROVE q \in Covered
  <2>1. PICK j \in 1 .. Len(rows') : q \in rows'[j].about
    BY <1>1 DEF Covered
  <2>2. PICK i \in 1 .. Len(rows) : rows'[j].about = rows[i].about
    BY <2>1
  <2> QED BY <1>1, <2>1, <2>2 DEF Covered
<1>3. ASSUME NEW q \in Covered PROVE q \in Covered'
  <2>1. PICK i \in 1 .. Len(rows) : q \in rows[i].about
    BY <1>1 DEF Covered
  <2>2. PICK j \in 1 .. Len(rows') : rows'[j].about = rows[i].about
    BY <2>1
  <2> QED BY <1>1, <2>1, <2>2 DEF Covered
<1> QED BY <1>2, <1>3

LEMMA SetOfRowsIsFinite ==
    ASSUME RowsInv, NEW S \in SUBSET (1 .. Len(rows))
    PROVE  IsFiniteSet(S) /\ Cardinality(S) \in Nat
<1>1. IsFiniteSet(1 .. Len(rows))
  BY FS_Interval DEF RowsInv
<1> QED BY <1>1, FS_Subset, FS_CardinalityType, Zenon
-----------------------------------------------------------------------------
(* Types of what a pass works on *)

LEMMA StagedIs ==
    ASSUME RowsInv
    PROVE  /\ Staged \subseteq Reading
           /\ \A k \in 1 .. Len(rows) : k > mark /\ IsInterpreted(rows[k]) =>
                 \E r \in Staged : r.oid = rows[k].oid
<1>1. DOMAIN rows = 1 .. Len(rows) /\ \A k \in 1 .. Len(rows) : rows[k] \in Row
  BY DEF RowsInv
<1>2. ASSUME NEW k \in 1 .. Len(rows), IsInterpreted(rows[k])
      PROVE  ReadingOf(rows[k]) \in Reading /\ ReadingOf(rows[k]).oid = rows[k].oid
  BY <1>1, <1>2, Bounds DEF RowsInv, Row, Reading, ReadingOf, IsInterpreted
<1> QED BY <1>1, <1>2 DEF Staged

LEMMA DetectedIs ==
    ASSUME window \subseteq Reading
    PROVE  Detected \subseteq Obs
  BY DEF Detected, Reading

-----------------------------------------------------------------------------
(* Induction *)

LEMMA InitHolds == Init => IInv
<1> SUFFICES ASSUME Init PROVE IInv
  OBVIOUS
<1>1. RowsInv
  BY Bounds DEF Init, RowsInv
<1>2. RunInv
  <2>1. late \in BOOLEAN
    BY DEF Init
  <2> QED BY <2>1, Bounds DEF Init, RunInv
<1>3. FloorInv /\ GateOutcome
  BY DEF Init, FloorInv, DetectorFloor, PendingIsLogged, GateOutcome
<1>4. WindowInv /\ MarkInv
  BY DEF Init, WindowInv, MarkInv, Under
<1> QED BY <1>1, <1>2, <1>3, <1>4 DEF IInv

\* A run that ends, for whatever reason but completion, forgets its pass.
LEMMA EndsKeeps ==
    ASSUME IInv, NEW how \in {"KILLED", "FAILED", "RETRIES", "MAX_ITERATIONS"}, Ends(how),
           UNCHANGED <<disk, reviewed>>,
           bounces' \in 0 .. MaxBounces, retries' \in 0 .. OutputRetries
    PROVE  IInv'
<1> USE DEF Ends, disk
<1>1. RowsInv'
  BY DEF IInv, RowsInv
<1>2. RunInv'
  BY Bounds DEF IInv, RunInv
<1>3. FloorInv'
  BY DEF IInv, FloorInv, DetectorFloor, PendingIsLogged
<1>4. WindowInv'
  BY DEF WindowInv
<1>5. MarkInv'
  BY DEF IInv, MarkInv, Under, Judged, RowsInv
<1>6. GateOutcome'
  BY DEF GateOutcome
<1> QED BY <1>1, <1>2, <1>3, <1>4, <1>5, <1>6 DEF IInv

\* Rows change, the run does not: what has to be shown of the new rows.
LEMMA RowsChange ==
    ASSUME IInv, UNCHANGED <<saved, late, logged, mark, pending, pc, pass, count, outcome, ghost>>,
           RowsInv', WindowInv', MarkInv', pc = "off" => Covered' = Covered
    PROVE  IInv'
<1> USE DEF pass, count, ghost
<1>1. RunInv'
  BY DEF IInv, RunInv
<1>2. FloorInv'
  BY DEF IInv, FloorInv, DetectorFloor, PendingIsLogged, Detected
<1>3. GateOutcome'
  <2>1. outcome = "COMPLETED" => pc = "off"
    BY DEF IInv, RunInv
  <2> QED BY <2>1 DEF IInv, GateOutcome
<1> QED BY <1>1, <1>2, <1>3 DEF IInv

LEMMA StepHolds ==
    ASSUME IInv, [Next]_vars
    PROVE  IInv'
<1> USE Bounds
<1>1. CASE Start
  <2>1. RowsInv' /\ RunInv'
    <3>1. RowsInv'
      BY <1>1 DEF Start, IInv, RowsInv
    <3>2. late' \in BOOLEAN
      BY <1>1 DEF Start, IInv, RunInv
    <3> QED BY <1>1, <3>1, <3>2 DEF Start, IInv, RunInv, pass
  <2>2. FloorInv' /\ WindowInv' /\ GateOutcome'
    BY <1>1 DEF Start, IInv, FloorInv, DetectorFloor, PendingIsLogged, WindowInv, GateOutcome, pass
  <2>3. MarkInv'
    BY <1>1 DEF Start, IInv, RowsInv, MarkInv, Under, Judged, pass
  <2> QED BY <2>1, <2>2, <2>3 DEF IInv
<1>2. CASE Elapse
  <2>1. RowsInv' /\ RunInv'
    BY <1>2 DEF Elapse, IInv, RowsInv, RunInv, pass, count, ghost
  <2>2. FloorInv' /\ WindowInv' /\ GateOutcome' /\ MarkInv'
    BY <1>2 DEF Elapse, IInv, FloorInv, DetectorFloor, PendingIsLogged, WindowInv, GateOutcome,
                MarkInv, Under, Judged, Staging, Covered, Detected, pass, count, ghost
  <2> QED BY <2>1, <2>2 DEF IInv
<1>3. CASE Die
  BY <1>3, EndsKeeps DEF Die, IInv, RunInv
<1>4. CASE LimitReached
  BY <1>4, EndsKeeps DEF LimitReached, IInv, RunInv
<1>5. CASE Request
  <2>1. RowsInv'
    BY <1>5 DEF Request, disk, IInv, RowsInv
  <2>2. RunInv'
    BY <1>5, StagedIs DEF Request, disk, IInv, RunInv, ghost
  <2>3. FloorInv' /\ GateOutcome'
    BY <1>5 DEF Request, disk, IInv, RunInv, FloorInv, DetectorFloor, PendingIsLogged, GateOutcome, ghost
  <2>4. WindowInv'
    BY <1>5, StagedIs DEF Request, disk, IInv, WindowInv, Staging
  <2>5. MarkInv'
    BY <1>5 DEF Request, disk, IInv, MarkInv, Under, Judged, ghost
  <2> QED BY <2>1, <2>2, <2>3, <2>4, <2>5 DEF IInv
<1>6. ASSUME pc = "critique", pc' = "route", Detected \subseteq found', found' \subseteq Obs,
             requests' \in 0 .. RequestLimit,
             UNCHANGED <<disk, mark, pending, window, bounces, retries, outcome, ghost>>
      PROVE  IInv'
  <2>1. RowsInv' /\ RunInv'
    BY <1>6 DEF disk, IInv, RowsInv, RunInv, ghost
  <2>2. FloorInv' /\ WindowInv' /\ GateOutcome' /\ MarkInv'
    BY <1>6 DEF disk, IInv, RunInv, FloorInv, DetectorFloor, PendingIsLogged, WindowInv, GateOutcome,
                MarkInv, Under, Judged, Staging, Detected, ghost
  <2> QED BY <2>1, <2>2 DEF IInv
<1>7. ASSUME NEW C \in SUBSET Obs, Critique(C)
      PROVE  IInv'
  BY <1>6, <1>7, DetectedIs DEF Critique, IInv, RunInv
<1>8. CASE CritiqueFails
  BY <1>6, <1>8, DetectedIs DEF CritiqueFails, count, IInv, RunInv
<1>9. CASE Route
  <2>1. RowsInv' /\ RunInv'
    BY <1>9 DEF Route, pass, count, IInv, RowsInv, RunInv
  <2>2. FloorInv'
    BY <1>9 DEF Route, pass, IInv, FloorInv, DetectorFloor, PendingIsLogged, Detected
  <2>3. WindowInv'
    BY <1>9 DEF Route, pass, IInv, WindowInv, Judged, Staging
  <2>4. MarkInv' /\ GateOutcome'
    BY <1>9 DEF Route, count, IInv, RunInv, MarkInv, Under, Judged, GateOutcome
  <2> QED BY <2>1, <2>2, <2>3, <2>4 DEF IInv
<1>10. CASE RouteFails
  <2>1. RowsInv' /\ RunInv'
    BY <1>10 DEF RouteFails, count, ghost, IInv, RowsInv, RunInv
  <2>2. FloorInv' /\ WindowInv' /\ MarkInv' /\ GateOutcome'
    BY <1>10 DEF RouteFails, count, ghost, IInv, RunInv, FloorInv, DetectorFloor, PendingIsLogged,
                 WindowInv, MarkInv, Under, Judged, GateOutcome
  <2> QED BY <2>1, <2>2 DEF IInv
<1>11. CASE Advance
  <2>1. rows \in Seq(Row) /\ mark \in 0 .. Len(rows) /\ Len(rows) \in Nat
    BY DEF IInv, RowsInv, MarkInv, Under
  <2>2. /\ Advanced \in mark .. Len(rows)
        /\ \A k \in mark + 1 .. Advanced : IsInterpreted(rows[k])
    BY <2>1, AdvancedIs
  <2>3. Under(Advanced)
    <3>1. \A k \in 1 .. Len(rows) : k > mark /\ IsInterpreted(rows[k]) => Judged(k)
      BY <1>11 DEF Advance, IInv, WindowInv
    <3>2. \A k \in 1 .. Advanced : k \in 1 .. Len(rows) /\ (k \in 1 .. mark \/ k \in mark + 1 .. Advanced)
      BY <2>1, <2>2
    <3>3. Advanced \in 0 .. Len(rows)
      BY <2>1, <2>2
    <3>4. \A k \in mark + 1 .. Advanced : k > mark
      BY <2>1, <2>2
    <3> QED BY <2>2, <3>1, <3>2, <3>3, <3>4 DEF IInv, MarkInv, Under
  <2>4. RowsInv' /\ RunInv'
    BY <1>11 DEF Advance, count, ghost, IInv, RowsInv, RunInv
  <2>5. FloorInv' /\ WindowInv' /\ GateOutcome'
    BY <1>11 DEF Advance, count, ghost, IInv, RunInv, FloorInv, DetectorFloor, PendingIsLogged,
                 WindowInv, GateOutcome
  <2>6. MarkInv'
    BY <1>11, <2>3 DEF Advance, ghost, MarkInv, Under, Judged
  <2> QED BY <2>4, <2>5, <2>6 DEF IInv
<1>12. CASE AdvanceFails
  BY <1>12, EndsKeeps DEF AdvanceFails, IInv, RunInv
<1>13. ASSUME NEW row \in Row, pc = "act", Len(rows) < MaxRows, rows' = Append(rows, row),
              row.kind = "observation" => row.oid \in Obs,
              row.kind # "observation" => row.about = {},
              UNCHANGED <<saved, late, logged, mark, pending, pc, pass, count, outcome, ghost>>
       PROVE  IInv'
  <2>1. rows' \in Seq(Row) /\ Len(rows') = Len(rows) + 1 /\ rows'[Len(rows')] = row
        /\ \A k \in 1 .. Len(rows) : rows'[k] = rows[k]
    BY <1>13 DEF IInv, RowsInv
  <2>2. RowsInv'
    BY <1>13, <2>1 DEF IInv, RowsInv
  <2>3. WindowInv'
    BY <1>13 DEF WindowInv
  <2>4. MarkInv'
    BY <1>13, <2>1, PrefixKept DEF IInv, RowsInv, ghost
  <2> QED BY <1>13, <2>2, <2>3, <2>4, RowsChange
<1>14. ASSUME NEW about \in SUBSET Question, RecordObservation(about)
       PROVE  IInv'
  <2>1. Cardinality(Observations) \in Nat
    BY SetOfRowsIsFinite DEF IInv, RowsInv, Observations
  <2> DEFINE row == [kind |-> "observation", oid |-> Cardinality(Observations) + 1,
                     n |-> 0, about |-> about]
  <2>2. row \in Row /\ row.oid \in Obs
    BY <1>14, <2>1 DEF RecordObservation, Row, Obs
  <2>3. row.kind = "observation" /\ rows' = Append(rows, row)
    BY <1>14 DEF RecordObservation
  <2> HIDE DEF row
  <2> QED BY <1>13, <1>14, <2>2, <2>3 DEF RecordObservation
<1>15. ASSUME NEW k \in DOMAIN rows, NEW more \in SUBSET Question, RecordInterpretation(k, more)
       PROVE  IInv'
  <2>1. k \in 1 .. Len(rows) /\ rows \in Seq(Row) /\ rows[k] \in Row /\ Len(rows) \in Nat
    BY DEF IInv, RowsInv
  <2> DEFINE row == [rows[k] EXCEPT !.n = @ + 1, !.about = @ \cup more]
  <2>2. row \in Row /\ row.kind = rows[k].kind /\ row.oid = rows[k].oid
        /\ row.n > 0 /\ row.kind = "observation"
    <3>1. rows[k].kind = "observation" /\ rows[k].n < MaxInterp
      BY <1>15 DEF RecordInterpretation
    <3>2. rows[k].n \in 0 .. MaxInterp /\ rows[k].about \in SUBSET Question /\ rows[k].oid \in 0 .. MaxObs
      BY <2>1 DEF Row
    <3>3. rows[k].n + 1 \in 0 .. MaxInterp /\ rows[k].n + 1 > 0
      BY <3>1, <3>2
    <3>4. rows[k].about \cup more \in SUBSET Question
      BY <3>2
    <3>5. rows[k] \in [kind : {"observation", "finding", "narrative"}, oid : 0 .. MaxObs,
                       n : 0 .. MaxInterp, about : SUBSET Question]
      BY <2>1 DEF Row
    <3>6. row.kind = rows[k].kind /\ row.oid = rows[k].oid /\ row.n = rows[k].n + 1
      BY <3>5
    <3>7. row \in Row
      BY <3>3, <3>4, <3>5 DEF Row
    <3> QED BY <3>1, <3>3, <3>6, <3>7
  <2>3. rows' = [rows EXCEPT ![k] = row]
    BY <1>15, <2>1 DEF RecordInterpretation
  <2> HIDE DEF row
  <2>4. rows' \in Seq(Row) /\ Len(rows') = Len(rows)
        /\ rows'[k] = row /\ \A j \in 1 .. Len(rows) : j # k => rows'[j] = rows[j]
    BY <2>1, <2>2, <2>3
  <2>5. RowsInv'
    BY <2>2, <2>4 DEF IInv, RowsInv
  <2>6. pc = "act" /\ pc' = "act"
    BY <1>15 DEF RecordInterpretation
  <2>7. WindowInv'
    BY <2>6 DEF WindowInv
  <2>8. MarkInv'
    <3>1. UNCHANGED <<saved, mark, reviewed>>
      BY <1>15 DEF RecordInterpretation, ghost
    <3>2. \A j \in 1 .. Len(rows) :
             /\ rows'[j].oid = rows[j].oid
             /\ IsInterpreted(rows[j]) => IsInterpreted(rows'[j])
      BY <2>2, <2>4 DEF IsInterpreted
    <3>3. Len(rows') >= Len(rows)
      BY <2>1, <2>4
    <3>4. RowsInv /\ MarkInv
      BY DEF IInv
    <3> QED BY <2>4, <3>1, <3>2, <3>3, <3>4, PrefixKept
  <2> QED BY <1>15, <2>5, <2>6, <2>7, <2>8, RowsChange DEF RecordInterpretation
<1>16. CASE RecordNarrative
  <2> DEFINE row == [kind |-> "narrative", oid |-> 0, n |-> 0, about |-> {}]
  <2>1. row \in Row /\ row.kind = "narrative" /\ row.about = {}
    BY DEF Row
  <2>2. rows' = Append(rows, row)
    BY <1>16 DEF RecordNarrative
  <2> HIDE DEF row
  <2> QED BY <1>13, <1>16, <2>1, <2>2 DEF RecordNarrative
<1>17. CASE CallsDone
  <2>1. RowsInv' /\ RunInv'
    BY <1>17 DEF CallsDone, disk, pass, count, ghost, IInv, RowsInv, RunInv
  <2>2. FloorInv' /\ WindowInv' /\ MarkInv' /\ GateOutcome'
    BY <1>17 DEF CallsDone, disk, pass, count, ghost, IInv, RunInv, FloorInv, DetectorFloor,
                 PendingIsLogged, WindowInv, MarkInv, Under, Judged, GateOutcome
  <2> QED BY <2>1, <2>2 DEF IInv
<1>18. ASSUME pc = "act", SentBack, UNCHANGED <<disk, reviewed>>, bounces' \in 0 .. MaxBounces
       PROVE  IInv'
  <2>1. CASE retries < OutputRetries
    <3>1. /\ pc' = "ask" /\ retries' = retries + 1
          /\ UNCHANGED <<pass, outcome, mark, pending, told, requests>>
      BY <1>18, <2>1 DEF SentBack
    <3>2. RowsInv' /\ RunInv'
      BY <1>18, <2>1, <3>1 DEF disk, pass, IInv, RowsInv, RunInv
    <3>3. FloorInv' /\ WindowInv' /\ MarkInv' /\ GateOutcome'
      BY <1>18, <3>1 DEF disk, pass, IInv, RunInv, FloorInv, DetectorFloor, PendingIsLogged,
                         WindowInv, MarkInv, Under, Judged, GateOutcome
    <3> QED BY <3>2, <3>3 DEF IInv
  <2>2. CASE ~(retries < OutputRetries)
    BY <1>18, <2>2, EndsKeeps DEF SentBack, IInv, RunInv
  <2> QED BY <2>1, <2>2
<1>19. CASE Malformed
  BY <1>18, <1>19 DEF Malformed, IInv, RunInv
<1>20. CASE Conclude
  <2>1. RowsInv' /\ RunInv'
    BY <1>20 DEF Conclude, Ends, disk, IInv, RowsInv, RunInv
  <2>2. FloorInv' /\ WindowInv'
    BY <1>20 DEF Conclude, Ends, disk, IInv, FloorInv, DetectorFloor, PendingIsLogged, WindowInv
  <2>3. MarkInv'
    BY <1>20 DEF Conclude, Ends, disk, IInv, RowsInv, MarkInv, Under, Judged
  <2>4. GateOutcome'
    BY <1>20 DEF Conclude, Ends, disk, GateSpent, Covered, IInv, RunInv, GateOutcome
  <2> QED BY <2>1, <2>2, <2>3, <2>4 DEF IInv
<1>21. CASE Bounce
  BY <1>18, <1>21 DEF Bounce, GateSpent, IInv, RunInv
<1>22. CASE Materialize
  <2>1. PICK place \in [1 .. Cardinality(Uncovered) -> Uncovered] :
             rows' = rows \o [i \in DOMAIN place |->
                [kind |-> "finding", oid |-> rows[place[i]].oid, n |-> 0, about |-> {}]]
    BY <1>22 DEF Materialize
  <2>2. Uncovered \subseteq 1 .. Len(rows) /\ Cardinality(Uncovered) \in Nat
    BY SetOfRowsIsFinite DEF IInv, RowsInv, Uncovered
  <2> DEFINE new == [i \in DOMAIN place |->
                [kind |-> "finding", oid |-> rows[place[i]].oid, n |-> 0, about |-> {}]]
  <2>3. new \in Seq(Row) /\ Len(new) = Cardinality(Uncovered)
        /\ \A i \in 1 .. Len(new) : new[i].kind = "finding" /\ new[i].about = {}
    <3>1. \A i \in 1 .. Cardinality(Uncovered) : new[i] \in Row
      <4> TAKE i \in 1 .. Cardinality(Uncovered)
      <4>1. place[i] \in 1 .. Len(rows) /\ i \in DOMAIN place
        BY <2>1, <2>2
      <4>2. rows[place[i]].oid \in 0 .. MaxObs
        <5>1. rows[place[i]] \in Row
          BY <4>1 DEF IInv, RowsInv
        <5> QED BY <5>1 DEF Row
      <4>3. new[i] = [kind |-> "finding", oid |-> rows[place[i]].oid, n |-> 0, about |-> {}]
        BY <4>1
      <4> HIDE DEF new
      <4> QED BY <4>2, <4>3 DEF Row
    <3>2. DOMAIN new = 1 .. Cardinality(Uncovered)
      BY <2>1
    <3> QED BY <2>2, <3>1, <3>2
  <2>4. rows' = rows \o new
    BY <2>1
  <2> HIDE DEF new
  <2>5. rows \in Seq(Row) /\ Len(rows) \in Nat
    BY DEF IInv, RowsInv
  <2>6. /\ rows' \in Seq(Row) /\ Len(rows') = Len(rows) + Len(new) /\ Len(new) \in Nat
        /\ \A k \in 1 .. Len(rows) : rows'[k] = rows[k]
        /\ \A k \in Len(rows) + 1 .. Len(rows') : rows'[k].kind = "finding" /\ rows'[k].about = {}
    BY <2>2, <2>3, <2>4, <2>5
  <2>7. \A k \in 1 .. Len(rows') : k \in 1 .. Len(rows) \/ k \in Len(rows) + 1 .. Len(rows')
    BY <2>5, <2>6
  <2>8. RowsInv'
    BY <1>22, <2>3, <2>6, <2>7 DEF Materialize, IInv, RowsInv
  <2>9. WindowInv'
    <3>1. UNCHANGED <<mark, pc, window, reviewed>>
      BY <1>22 DEF Materialize, pass, ghost
    <3>2. \A j \in 1 .. Len(rows') : IsInterpreted(rows'[j]) => j \in 1 .. Len(rows) /\ rows'[j] = rows[j]
      <4> TAKE j \in 1 .. Len(rows')
      <4> HAVE IsInterpreted(rows'[j])
      <4>1. rows'[j].kind # "finding"
        BY DEF IsInterpreted
      <4>2. j \in 1 .. Len(rows)
        BY <2>6, <2>7, <4>1
      <4> QED BY <2>6, <4>2
    <3> QED BY <3>1, <3>2 DEF IInv, WindowInv, Judged, Staging
  <2>10. MarkInv'
    <3>1. UNCHANGED <<saved, mark, reviewed>>
      BY <1>22 DEF Materialize, ghost
    <3>2. Len(rows') >= Len(rows) /\ RowsInv /\ MarkInv
      BY <2>5, <2>6 DEF IInv
    <3> QED BY <2>6, <3>1, <3>2, PrefixKept
  <2>11. Covered' = Covered
    <3>1. \A j \in 1 .. Len(rows') : rows'[j].about = {} \/ \E i \in 1 .. Len(rows) : rows'[j].about = rows[i].about
      <4> TAKE j \in 1 .. Len(rows')
      <4>1. CASE j \in 1 .. Len(rows)
        <5>1. rows'[j].about = rows[j].about
          BY <2>6, <4>1
        <5> QED BY <4>1, <5>1
      <4>2. CASE j \in Len(rows) + 1 .. Len(rows')
        BY <2>6, <4>2
      <4> QED BY <2>7, <4>1, <4>2
    <3>2. \A i \in 1 .. Len(rows) : i \in 1 .. Len(rows') /\ rows'[i].about = rows[i].about
      BY <2>5, <2>6
    <3> QED BY <2>5, <2>6, <3>1, <3>2, SameCover
  <2> QED BY <1>22, <2>8, <2>9, <2>10, <2>11, RowsChange DEF Materialize
<1>23. ASSUME NEW k \in DOMAIN rows, RejectFinding(k)
       PROVE  IInv'
  <2>1. k \in 1 .. Len(rows) /\ rows \in Seq(Row) /\ Len(rows) \in Nat /\ rows[k].kind = "finding"
    BY <1>23 DEF RejectFinding, IInv, RowsInv
  <2>2. rows' = SubSeq(rows, 1, k - 1) \o SubSeq(rows, k + 1, Len(rows))
    BY <1>23 DEF RejectFinding, RemoveAt
  <2>3. rows' \in Seq(Row) /\ Len(rows') = Len(rows) - 1
        /\ \A j \in 1 .. Len(rows') : rows'[j] = IF j < k THEN rows[j] ELSE rows[j + 1]
    <3> DEFINE before == SubSeq(rows, 1, k - 1)
               after == SubSeq(rows, k + 1, Len(rows))
    <3>1. \A i \in 1 .. Len(rows) : rows[i] \in Row
      BY <2>1
    <3>2. before \in Seq(Row) /\ Len(before) = k - 1 /\ \A i \in 1 .. k - 1 : before[i] = rows[i]
      <4>1. \A i \in 1 .. k - 1 : rows[i] \in Row
        BY <2>1, <3>1
      <4>2. 1 \in Int /\ k - 1 \in Int /\ (k - 1) - 1 + 1 = k - 1 /\ (1 <= k - 1 \/ k - 1 = 0)
        BY <2>1
      <4> QED BY <2>1, <4>1, <4>2, SubSeqProperties
    <3>3. after \in Seq(Row) /\ Len(after) = Len(rows) - k
          /\ \A i \in 1 .. Len(rows) - k : after[i] = rows[i + k]
      <4>1. \A i \in k + 1 .. Len(rows) : rows[i] \in Row
        BY <2>1, <3>1
      <4>2. k + 1 \in Int /\ Len(rows) \in Int /\ Len(rows) - (k + 1) + 1 = Len(rows) - k
        BY <2>1
      <4>3. \A i \in 1 .. Len(rows) - k : (k + 1) + i - 1 = i + k
        BY <2>1
      <4> HIDE DEF before
      <4>4. /\ after \in Seq(Row)
            /\ Len(after) = IF k + 1 <= Len(rows) THEN Len(rows) - (k + 1) + 1 ELSE 0
            /\ \A i \in 1 .. Len(rows) - (k + 1) + 1 : after[i] = rows[(k + 1) + i - 1]
        BY <4>1, <4>2, SubSeqProperties
      <4> HIDE DEF after
      <4>5. Len(after) = Len(rows) - k
        BY <2>1, <4>4
      <4> QED BY <4>2, <4>3, <4>4, <4>5
    <3> HIDE DEF before, after
    <3>4. rows' = before \o after
      BY <2>2 DEF before, after
    <3>5. /\ rows' \in Seq(Row) /\ Len(rows') = Len(before) + Len(after)
          /\ \A j \in 1 .. Len(before) + Len(after) :
                rows'[j] = IF j <= Len(before) THEN before[j] ELSE after[j - Len(before)]
      BY <3>2, <3>3, <3>4, ConcatProperties
    <3>6. Len(rows') = Len(rows) - 1
      BY <2>1, <3>2, <3>3, <3>5
    <3>7. ASSUME NEW j \in 1 .. Len(rows'), j < k
          PROVE  rows'[j] = rows[j]
      BY <2>1, <3>2, <3>3, <3>5, <3>6, <3>7
    <3>8. ASSUME NEW j \in 1 .. Len(rows'), ~(j < k)
          PROVE  rows'[j] = rows[j + 1]
      <4>1. j - (k - 1) \in 1 .. Len(rows) - k /\ ~(j <= k - 1) /\ (j - (k - 1)) + k = j + 1
        BY <2>1, <3>6, <3>8
      <4> QED BY <2>1, <3>2, <3>3, <3>5, <3>6, <4>1
    <3> QED BY <3>5, <3>6, <3>7, <3>8
  <2>4. RowsInv'
    BY <2>1, <2>3 DEF IInv, RowsInv
  <2>5. UNCHANGED <<saved, mark, pc, window, reviewed>>
    BY <1>23 DEF RejectFinding, pass, ghost
  <2>6. mark < k /\ saved < k /\ mark \in Nat /\ saved \in Nat
    BY <2>1 DEF IInv, MarkInv, Under, IsInterpreted
  <2>7. MarkInv'
    <3>1. mark \in 0 .. Len(rows') /\ saved \in 0 .. Len(rows')
      BY <2>1, <2>3, <2>6
    <3>2. \A j \in 1 .. mark : j \in 1 .. Len(rows') /\ j < k
      BY <2>1, <2>3, <2>6
    <3>3. \A j \in 1 .. saved : j \in 1 .. Len(rows') /\ j < k
      BY <2>1, <2>3, <2>6
    <3> QED BY <2>3, <2>5, <3>1, <3>2, <3>3 DEF IInv, MarkInv, Under, Judged
  <2>9. WindowInv'
    <3>1. \A j \in 1 .. Len(rows') : j > mark =>
             \E i \in 1 .. Len(rows) : i > mark /\ rows'[j] = rows[i]
      <4> TAKE j \in 1 .. Len(rows')
      <4>1. CASE j < k
        BY <2>1, <2>3, <4>1
      <4>2. CASE ~(j < k)
        <5>1. j + 1 \in 1 .. Len(rows) /\ rows'[j] = rows[j + 1] /\ (j > mark => j + 1 > mark)
          BY <2>1, <2>3, <2>6, <4>2
        <5> QED BY <5>1
      <4> QED BY <4>1, <4>2
    <3> QED BY <2>5, <3>1 DEF IInv, WindowInv, Judged, Staging
  <2>8. Covered' = Covered
    <3>1. rows[k].about = {}
      BY <2>1 DEF IInv, RowsInv
    <3>2. \A j \in 1 .. Len(rows') : \E i \in 1 .. Len(rows) : rows'[j] = rows[i]
      BY <2>1, <2>3
    <3>3. \A i \in 1 .. Len(rows) : i # k => \E j \in 1 .. Len(rows') : rows'[j] = rows[i]
      <4> TAKE i \in 1 .. Len(rows)
      <4> HAVE i # k
      <4>1. CASE i < k
        <5>1. i \in 1 .. Len(rows') /\ rows'[i] = rows[i]
          BY <2>1, <2>3, <4>1
        <5> QED BY <5>1
      <4>2. CASE i > k
        <5>1. i - 1 \in 1 .. Len(rows') /\ ~(i - 1 < k) /\ (i - 1) + 1 = i
          BY <2>1, <2>3, <4>2
        <5>2. rows'[i - 1] = rows[i]
          BY <2>3, <5>1
        <5> QED BY <5>1, <5>2
      <4> QED BY <2>1, <4>1, <4>2
    <3>4. \A i \in 1 .. Len(rows) : rows[i].about = {} \/ \E j \in 1 .. Len(rows') : rows'[j].about = rows[i].about
      BY <3>1, <3>3
    <3> QED BY <2>1, <2>3, <3>2, <3>4, SameCover
  <2> QED BY <1>23, <2>4, <2>7, <2>8, <2>9, RowsChange DEF RejectFinding
<1>24. CASE UNCHANGED vars
  <2>1. RowsInv' /\ RunInv'
    BY <1>24 DEF vars, disk, pass, count, ghost, IInv, RowsInv, RunInv
  <2>2. FloorInv' /\ WindowInv' /\ MarkInv' /\ GateOutcome'
    BY <1>24 DEF vars, disk, pass, count, ghost, IInv, FloorInv, DetectorFloor, PendingIsLogged,
                 WindowInv, MarkInv, Under, Judged, Staging, Detected, GateOutcome, Covered
  <2> QED BY <2>1, <2>2 DEF IInv
<1> QED BY <1>1, <1>2, <1>3, <1>4, <1>5, <1>7, <1>8, <1>9, <1>10, <1>11, <1>12, <1>14, <1>15,
           <1>16, <1>17, <1>19, <1>20, <1>21, <1>22, <1>23, <1>24 DEF Next

LEMMA InvariantHolds == Spec => []IInv
<1>1. IInv /\ [Next]_vars => IInv'
  BY StepHolds
<1> QED BY <1>1, InitHolds, PTL DEF Spec

-----------------------------------------------------------------------------
(* Theorems *)

\* Type correctness of the files, of the run's memory and of its counters.
THEOREM TypeCorrect == Spec => []TypeOK
<1>1. IInv => TypeOK
  <2> SUFFICES ASSUME IInv PROVE TypeOK
    OBVIOUS
  <2>1. mark \in 0 .. MaxRows /\ saved \in 0 .. MaxRows
    BY Bounds DEF IInv, RowsInv, MarkInv, Under
  <2> QED BY <2>1 DEF IInv, RowsInv, RunInv, TypeOK
<1> QED BY <1>1, InvariantHolds, PTL

\* critic_trigger.py, "never a silent skip": what lies under the watermark is
\* interpreted and was judged, through failures, restarts and reviews.
THEOREM NothingIsSkipped == Spec => []NoSilentSkip
<1>1. IInv => NoSilentSkip
  BY DEF IInv, RowsInv, MarkInv, Under, Judged, NoSilentSkip
<1> QED BY <1>1, InvariantHolds, PTL

\* live_critic.py: a contradiction the detectors find is logged and told, also
\* when the critic model says nothing.
THEOREM DetectorsAreHeard == Spec => []DetectorFloor
<1>1. IInv => DetectorFloor
  BY DEF IInv, FloorInv
<1> QED BY <1>1, InvariantHolds, PTL

\* route_live_verdicts: the agent is told of nothing that is not in the log.
THEOREM ToldIsLogged == Spec => []PendingIsLogged
<1>1. IInv => PendingIsLogged
  BY DEF IInv, FloorInv
<1> QED BY <1>1, InvariantHolds, PTL

\* _enforce_question_coverage: a run is COMPLETED only with every question
\* covered, or with the gate's attempts used up.
THEOREM GateIsHeld == Spec => []GateOutcome
<1>1. IInv => GateOutcome
  BY DEF IInv
<1> QED BY <1>1, InvariantHolds, PTL
=============================================================================
