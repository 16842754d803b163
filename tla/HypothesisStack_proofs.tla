------------------------ MODULE HypothesisStack_proofs ------------------------
(***************************************************************************)
(* Proofs about HypothesisStack, for any bounds and with every fault: one   *)
(* place for each hypothesis, no queue without an active hypothesis unless  *)
(* a pivot has lost its child, no id logged twice, a finish line that names *)
(* what it leaves open, a log that explains the stack as long as its lines  *)
(* could be written, and every step a step of the abstract hypothesis       *)
(* lifecycle.  And about RunViews, whose steps are steps of the stack: what *)
(* status, the screen and the streamed events say of it.                    *)
(***************************************************************************)
EXTENDS RunViews, FiniteSetTheorems, SequenceTheorems, Induction, TLAPS

\* The lines the stack writes.
Line == (Outcomes \cup {"FORM"}) \X Ids

(* The inductive invariant *)

\* What is charged to one hypothesis was requested by the run.
StepsCharged == \A h \in Ids : steps[h] <= requests

\* A run under way has written no finish line.
Unfinished == running => finish = NoFinish

StackInv == /\ seq \in 0 .. MaxHypotheses /\ active \in 0 .. MaxHypotheses
            /\ queued \in Seq(Ids) /\ outcome \in [Ids -> Outcomes \cup {"unformed"}]
            /\ WaitsBehindWork /\ OnePlaceEach
            /\ \A h \in Ids : h > seq => outcome[h] = "unformed"

LogInv == /\ log \in Seq(Line) /\ torn \in BOOLEAN
          /\ \A i \in 1 .. Len(log) : log[i][2] <= seq
          /\ OneFormPerId

RunInv == /\ running \in BOOLEAN /\ suspect \in BOOLEAN /\ childless \in BOOLEAN
          /\ finish.state \in {"none", "COMPLETED", "ERROR", "LIMIT"}
          /\ finish.open \in Seq(Ids)
          /\ steps \in [Ids -> 0 .. RequestLimit]
          /\ requests \in 0 .. RequestLimit /\ pending \in 0 .. MaxBatch
          /\ runs \in 0 .. MaxRuns /\ faults \in 0 .. MaxFaults
          /\ base \in Nat
          /\ StepsCharged /\ Unfinished /\ FinishClosesStack

IInv == StackInv /\ LogInv /\ RunInv

-----------------------------------------------------------------------------
(* The first part of the open hypotheses leaves the stack *)

\* The active hypothesis and the first j queued ones have left with outcome o.
Left(j, o) ==
    /\ active' = IF j = Len(queued) THEN 0 ELSE queued[j + 1]
    /\ queued' \in Seq(Ids)
    /\ Len(queued') = IF j = Len(queued) THEN 0 ELSE Len(queued) - j - 1
    /\ \A i \in 1 .. Len(queued') : queued'[i] = queued[i + j + 1]
    /\ outcome' = [h \in Ids |-> IF h = active \/ (\E i \in 1 .. j : h = queued[i])
                                 THEN o ELSE outcome[h]]
    /\ seq' = seq

\* What leaves the stack this way leaves it in order.
LEMMA LeftInOrder ==
    ASSUME BoundsAssumption, StackInv, active # 0,
           NEW j \in 0 .. Len(queued), NEW o \in Outcomes, Left(j, o)
    PROVE  StackInv'
<1> USE DEF StackInv, Left
<1>1. Len(queued) \in Nat /\ Len(queued') \in Nat
  OBVIOUS
<1>2. \A i \in 1 .. Len(queued) : /\ queued[i] \in Ids /\ queued[i] # active
                                  /\ queued[i] <= seq /\ outcome[queued[i]] = "unformed"
  <2> TAKE i \in 1 .. Len(queued)
  <2>0. OnePlaceEach /\ queued \in Seq(Ids)
    OBVIOUS
  <2> HIDE DEF StackInv, Left
  <2>1. queued[i] \in Ids /\ queued[i] \in InQueue /\ queued[i] # 0
    BY <2>0 DEF InQueue, Ids
  <2> QED BY <2>0, <2>1 DEF OnePlaceEach
<1>2a. \A i \in 1 .. Len(queued) : queued[i] \in Nat
  <2> HIDE DEF StackInv, Left
  <2> QED BY <1>2 DEF Ids
<1>3. active' \in 0 .. MaxHypotheses
  BY <1>1, <1>2 DEF BoundsAssumption, Ids
<1>4. outcome' \in [Ids -> Outcomes \cup {"unformed"}]
  OBVIOUS
<1>5. WaitsBehindWork'
  <2>1. CASE j = Len(queued)
    BY <1>1, <2>1 DEF WaitsBehindWork
  <2>2. CASE j # Len(queued)
    BY <1>1, <1>2, <2>2 DEF WaitsBehindWork, Ids
  <2> QED BY <2>1, <2>2
<1>6. OnePlaceEach'
  <2>1. \A a, b \in 1 .. Len(queued') : a < b => queued'[a] < queued'[b]
    BY <1>1 DEF OnePlaceEach
  <2>2. ASSUME NEW a \in 1 .. Len(queued')
        PROVE  /\ queued'[a] # active'
               /\ queued'[a] <= seq' /\ outcome'[queued'[a]] = "unformed"
    <3>1. PICK n \in 1 .. Len(queued) : n = a + j + 1
      BY <1>1
    <3>2. /\ j + 1 \in 1 .. Len(queued) /\ j + 1 < n /\ j # Len(queued)
          /\ queued'[a] = queued[n] /\ active' = queued[j + 1]
      BY <1>1, <3>1
    <3>3. queued[j + 1] < queued[n] /\ queued[n] \in Ids /\ queued[j + 1] \in Ids
      BY <3>2, <1>2 DEF OnePlaceEach
    <3>4. \A i \in 1 .. j : queued[i] # queued[n]
      <4> TAKE i \in 1 .. j
      <4>1. i \in 1 .. Len(queued) /\ i < n
        BY <1>1, <3>1
      <4>2. queued[i] < queued[n] /\ queued[i] \in Ids
        BY <4>1, <1>2 DEF OnePlaceEach
      <4>3. queued[i] \in Nat /\ queued[n] \in Nat
        BY <4>1, <1>2a
      <4> HIDE DEF StackInv, Left
      <4> QED BY <4>2, <4>3
    <3>5. outcome'[queued[n]] = outcome[queued[n]]
      BY <3>3, <3>4, <1>2
    <3>6. queued[n] # queued[j + 1]
      <4> HIDE DEF StackInv, Left
      <4> QED BY <3>3 DEF Ids
    <3> QED BY <3>2, <3>5, <3>6, <1>2
  <2>3. active' # 0 => active' <= seq' /\ outcome'[active'] = "unformed"
    <3> SUFFICES ASSUME active' # 0
                 PROVE  active' <= seq' /\ outcome'[active'] = "unformed"
      OBVIOUS
    <3>1. j # Len(queued) /\ j + 1 \in 1 .. Len(queued) /\ active' = queued[j + 1]
      BY <1>1
    <3>2. queued[j + 1] \in Ids /\ queued[j + 1] # active
      BY <3>1, <1>2
    <3>3. \A i \in 1 .. j : queued[i] # queued[j + 1]
      <4> TAKE i \in 1 .. j
      <4>1. i \in 1 .. Len(queued) /\ i < j + 1
        BY <1>1, <3>1
      <4>2. queued[i] < queued[j + 1] /\ queued[i] \in Ids
        BY <4>1, <3>1, <1>2 DEF OnePlaceEach
      <4> QED BY <4>2, <3>2 DEF Ids
    <3>4. queued[j + 1] <= seq /\ outcome[queued[j + 1]] = "unformed"
      BY <3>1, <3>2 DEF OnePlaceEach, InQueue, Ids
    <3> QED BY <3>1, <3>2, <3>3, <3>4
  <2>4. \A h \in InQueue' : \E a \in 1 .. Len(queued') : h = queued'[a]
    BY DEF InQueue
  <2>5. active' \notin InQueue'
    BY <2>2, <2>4
  <2>6. \A h \in InQueue' \cup {active'} : h # 0 => h <= seq' /\ outcome'[h] = "unformed"
    <3> HIDE DEF StackInv, Left
    <3> QED BY <2>2, <2>3, <2>4
  <2> HIDE DEF StackInv, Left
  <2> QED BY <2>1, <2>5, <2>6 DEF OnePlaceEach
<1>7. \A h \in Ids : h > seq' => outcome'[h] = "unformed"
  <2> SUFFICES ASSUME NEW h \in Ids, h > seq
               PROVE  outcome'[h] = "unformed"
    OBVIOUS
  <2>1. h # active
    <3>1. active <= seq /\ seq \in Nat /\ active \in Nat
      BY DEF OnePlaceEach
    <3> HIDE DEF StackInv, Left
    <3> QED BY <3>1 DEF Ids
  <2>2. \A i \in 1 .. j : h # queued[i]
    <3> TAKE i \in 1 .. j
    <3>1. seq \in Nat
      OBVIOUS
    <3> HIDE DEF StackInv, Left
    <3>2. i \in 1 .. Len(queued)
      BY <1>1
    <3> QED BY <1>2, <1>2a, <3>1, <3>2 DEF Ids
  <2> QED BY <2>1, <2>2
<1> QED BY <1>3, <1>4, <1>5, <1>6, <1>7

-----------------------------------------------------------------------------
(* The open hypotheses in a line, and what closing a first part of it leaves *)

LEMMA OpenLineIs ==
    ASSUME BoundsAssumption, StackInv, active # 0
    PROVE  /\ OpenLine \in Seq(Ids) /\ Len(OpenLine) = Len(queued) + 1
           /\ OpenLine[1] = active
           /\ \A i \in 1 .. Len(queued) : OpenLine[i + 1] = queued[i]
<1>1. active \in Ids /\ queued \in Seq(Ids)
  BY DEF StackInv, Ids
<1>2. <<active>> \in Seq(Ids) /\ Len(<<active>>) = 1 /\ <<active>>[1] = active
  BY <1>1
<1>3. OpenLine = <<active>> \o queued
  BY DEF OpenLine
<1> QED BY <1>1, <1>2, <1>3

LEMMA OpenLineIdle ==
    ASSUME StackInv, active = 0
    PROVE  OpenLine = queued
  BY DEF OpenLine

\* Abandoning the first k of the line: the active one and k - 1 queued ones.
LEMMA CloseFirstLeaves ==
    ASSUME BoundsAssumption, StackInv, active # 0,
           NEW k \in 1 .. Len(OpenLine), CloseFirst(k), seq' = seq
    PROVE  k - 1 \in 0 .. Len(queued) /\ Left(k - 1, "ABANDONED")
<1> DEFINE rest == SubSeq(OpenLine, k + 1, Len(OpenLine))
           j == k - 1
<1>1. /\ OpenLine \in Seq(Ids) /\ Len(OpenLine) = Len(queued) + 1
      /\ OpenLine[1] = active
      /\ \A i \in 1 .. Len(queued) : OpenLine[i + 1] = queued[i]
      /\ queued \in Seq(Ids) /\ Len(queued) \in Nat
  BY OpenLineIs DEF StackInv
<1>2. /\ rest \in Seq(Ids) /\ Len(rest) = Len(queued) - j /\ j \in 0 .. Len(queued)
      /\ \A i \in 1 .. Len(rest) : rest[i] = OpenLine[i + k]
  BY <1>1
<1>3. \A i \in 1 .. Len(rest) : rest[i] = queued[i + j]
  <2> TAKE i \in 1 .. Len(rest)
  <2>1. PICK m \in 1 .. Len(queued) : m = i + j /\ m + 1 = i + k
    BY <1>1, <1>2
  <2>2. rest[i] = OpenLine[m + 1]
    BY <1>2, <2>1
  <2> QED BY <1>1, <2>1, <2>2
<1>4. /\ active' = IF rest = <<>> THEN 0 ELSE Head(rest)
      /\ queued' = IF rest = <<>> THEN <<>> ELSE Tail(rest)
      /\ outcome' = [h \in Ids |-> IF h \in {OpenLine[i] : i \in 1 .. k} THEN "ABANDONED"
                                   ELSE outcome[h]]
  BY DEF CloseFirst
<1> HIDE DEF rest
<1>5. active' = IF j = Len(queued) THEN 0 ELSE queued[j + 1]
  <2>1. CASE j = Len(queued)
    BY <1>1, <1>2, <1>4, <2>1
  <2>2. CASE j # Len(queued)
    <3>1. Len(rest) > 0 /\ rest # <<>> /\ 1 \in 1 .. Len(rest)
      BY <1>1, <1>2, <2>2
    <3>2. Head(rest) = rest[1] /\ rest[1] = queued[1 + j]
      BY <1>2, <1>3, <3>1
    <3> QED BY <1>1, <1>2, <1>4, <2>2, <3>1, <3>2
  <2> QED BY <2>1, <2>2
<1>6. /\ queued' \in Seq(Ids)
      /\ Len(queued') = IF j = Len(queued) THEN 0 ELSE Len(queued) - j - 1
      /\ \A i \in 1 .. Len(queued') : queued'[i] = queued[i + j + 1]
  <2>1. CASE j = Len(queued)
    BY <1>1, <1>2, <1>4, <2>1
  <2>2. CASE j # Len(queued)
    <3>1. Len(rest) > 0 /\ rest # <<>> /\ queued' = Tail(rest)
      BY <1>1, <1>2, <1>4, <2>2
    <3>2. /\ Tail(rest) \in Seq(Ids) /\ Len(Tail(rest)) = Len(rest) - 1
          /\ \A i \in 1 .. Len(rest) - 1 : Tail(rest)[i] = rest[i + 1]
      BY <1>2, <3>1
    <3>3. ASSUME NEW i \in 1 .. Len(queued')
          PROVE  queued'[i] = queued[i + j + 1]
      <4>1. PICK m \in 1 .. Len(rest) : m = i + 1 /\ m + j = i + j + 1
        BY <1>2, <3>1, <3>2
      <4>2. queued'[i] = rest[m]
        BY <1>2, <3>1, <3>2, <4>1
      <4> QED BY <1>3, <4>1, <4>2
    <3> QED BY <1>1, <1>2, <2>2, <3>1, <3>2, <3>3
  <2> QED BY <2>1, <2>2
<1>7. \A h \in Ids : h \in {OpenLine[i] : i \in 1 .. k}
                     <=> h = active \/ \E i \in 1 .. j : h = queued[i]
  <2> TAKE h \in Ids
  <2>1. ASSUME NEW i \in 1 .. k, h = OpenLine[i]
        PROVE  h = active \/ \E m \in 1 .. j : h = queued[m]
    <3>1. CASE i = 1
      BY <1>1, <2>1, <3>1
    <3>2. CASE i # 1
      <4>1. PICK m \in 1 .. j : i = m + 1
        BY <1>2, <3>2
      <4>2. m \in 1 .. Len(queued)
        BY <1>1, <1>2
      <4> QED BY <1>1, <2>1, <4>1, <4>2
    <3> QED BY <3>1, <3>2
  <2>2. ASSUME NEW m \in 1 .. j, h = queued[m]
        PROVE  \E i \in 1 .. k : h = OpenLine[i]
    <3>1. m + 1 \in 1 .. k /\ m \in 1 .. Len(queued)
      BY <1>1, <1>2
    <3> QED BY <1>1, <2>2, <3>1
  <2>3. h = active => \E i \in 1 .. k : h = OpenLine[i]
    BY <1>1
  <2> QED BY <2>1, <2>2, <2>3
<1> HIDE DEF j
<1>8. Left(j, "ABANDONED")
  BY <1>4, <1>5, <1>6, <1>7 DEF Left
<1> QED BY <1>2, <1>8 DEF j

\* confirm and abandon take the active hypothesis out and promote the head.
LEMMA PromotionLeaves ==
    ASSUME BoundsAssumption, StackInv, active # 0, NEW o \in Outcomes,
           active' = Promotion[1], queued' = Promotion[2],
           outcome' = [outcome EXCEPT ![active] = o], seq' = seq
    PROVE  Left(0, o)
<1>1. queued \in Seq(Ids) /\ Len(queued) \in Nat /\ outcome \in [Ids -> Outcomes \cup {"unformed"}]
  BY DEF StackInv
<1>2. \A h \in Ids : ~ \E i \in 1 .. 0 : h = queued[i]
  OBVIOUS
<1>3. outcome' = [h \in Ids |-> IF h = active THEN o ELSE outcome[h]]
  BY <1>1
<1>4. outcome' = [h \in Ids |-> IF h = active \/ (\E i \in 1 .. 0 : h = queued[i])
                                THEN o ELSE outcome[h]]
  BY <1>2, <1>3
<1>5. CASE queued = <<>>
  <2>1. Len(queued) = 0 /\ active' = 0 /\ queued' = queued
    BY <1>5 DEF Promotion
  <2>2. 0 = Len(queued) /\ \A i \in 1 .. Len(queued') : queued'[i] = queued[i + 0 + 1]
    BY <2>1
  <2> QED BY <1>1, <1>4, <2>1, <2>2 DEF Left
<1>6. CASE queued # <<>>
  <2>1. /\ Len(queued) > 0 /\ active' = queued[1] /\ queued' = Tail(queued)
        /\ queued' \in Seq(Ids) /\ Len(queued') = Len(queued) - 1
    BY <1>1, <1>6 DEF Promotion
  <2>2. \A i \in 1 .. Len(queued') : queued'[i] = queued[i + 0 + 1]
    BY <1>1, <2>1
  <2>3. 0 # Len(queued) /\ active' = queued[0 + 1] /\ Len(queued') = Len(queued) - 0 - 1
    BY <1>1, <2>1
  <2> QED BY <1>4, <2>1, <2>2, <2>3 DEF Left
<1> QED BY <1>5, <1>6

-----------------------------------------------------------------------------
(* The log *)

\* A log whose ids are at most n, with FORM lines in the order of their ids.
LogOK(f, n) ==
    /\ f[1] \in Seq(Line) /\ f[2] \in BOOLEAN
    /\ \A i \in 1 .. Len(f[1]) : f[1][i][2] <= n
    /\ \A i, j \in 1 .. Len(f[1]) :
          i < j /\ f[1][i][1] = "FORM" /\ f[1][j][1] = "FORM" => f[1][i][2] < f[1][j][2]

LEMMA LogInvIs == ASSUME LogInv PROVE LogOK(file, seq)
  BY DEF LogInv, LogOK, file, OneFormPerId, Line

LEMMA LogOKIs == ASSUME LogOK(<<log', torn'>>, seq') PROVE LogInv'
  BY DEF LogInv, LogOK, OneFormPerId, Line

\* However a line is written, only a FORM line has to have a new id.
LEMMA WroteKeeps ==
    ASSUME BoundsAssumption, NEW f, NEW n \in Nat, NEW m \in Nat, LogOK(f, n), n <= m,
           NEW w \in Writes, NEW line \in Line, line[2] <= m,
           line[1] = "FORM" => n < line[2]
    PROVE  LogOK(Wrote(f, w, line), m)
<1>1. /\ f[1] \in Seq(Line) /\ Len(f[1]) \in Nat
      /\ \A i \in 1 .. Len(f[1]) : f[1][i] \in Line /\ f[1][i][2] \in Nat
  BY DEF LogOK, Line, Ids
<1>2. LogOK(<<f[1], FALSE>>, m) /\ LogOK(<<f[1], TRUE>>, m) /\ LogOK(f, m)
  BY <1>1 DEF LogOK
<1>3. LogOK(<<Append(f[1], line), FALSE>>, m)
  <2> DEFINE g == Append(f[1], line)
  <2>1. /\ g \in Seq(Line) /\ Len(g) = Len(f[1]) + 1 /\ g[Len(g)] = line
        /\ \A i \in 1 .. Len(f[1]) : g[i] = f[1][i]
    BY <1>1
  <2>2. line[2] \in Nat
    BY DEF Line, Ids
  <2> HIDE DEF g
  <2>3. \A i \in 1 .. Len(g) : i = Len(g) \/ i \in 1 .. Len(f[1])
    BY <1>1, <2>1
  <2>4. \A i \in 1 .. Len(g) : g[i][2] <= m
    BY <1>1, <2>1, <2>3 DEF LogOK
  <2>5. ASSUME NEW i \in 1 .. Len(g), NEW k \in 1 .. Len(g), i < k,
               g[i][1] = "FORM", g[k][1] = "FORM"
        PROVE  g[i][2] < g[k][2]
    <3>1. i \in 1 .. Len(f[1])
      BY <1>1, <2>1, <2>5
    <3>2. CASE k = Len(g)
      <4>1. g[k] = line /\ g[i] = f[1][i] /\ f[1][i][2] <= n /\ n < line[2]
        BY <2>1, <2>5, <3>1, <3>2 DEF LogOK
      <4> QED BY <1>1, <2>2, <3>1, <4>1
    <3>3. CASE k # Len(g)
      BY <2>1, <2>3, <2>5, <3>1, <3>3 DEF LogOK
    <3> QED BY <3>2, <3>3
  <2> QED BY <2>1, <2>4, <2>5 DEF LogOK, g
<1> QED BY <1>2, <1>3 DEF Wrote, Writes

\* Abandonments may be written in any number.
LEMMA ClosingKeeps ==
    ASSUME BoundsAssumption, StackInv, LogInv, active # 0, NEW k \in 0 .. Len(OpenLine)
    PROVE  LogOK(Closing(k), seq)
<1>1. LogOK(file, seq) /\ seq \in Nat
  BY LogInvIs DEF StackInv
<1>2. CASE k = 0
  BY <1>1, <1>2 DEF Closing
<1>3. CASE k # 0
  <2>1. active # 0
    OBVIOUS
  <2>2. /\ OpenLine \in Seq(Ids) /\ Len(OpenLine) \in Nat
        /\ \A i \in 1 .. Len(OpenLine) : OpenLine[i] \in Ids /\ OpenLine[i] <= seq
    <3>1. /\ OpenLine \in Seq(Ids) /\ Len(OpenLine) = Len(queued) + 1 /\ Len(queued) \in Nat
          /\ OpenLine[1] = active
          /\ \A i \in 1 .. Len(queued) : OpenLine[i + 1] = queued[i]
      BY <2>1, OpenLineIs DEF StackInv
    <3>2. \A h \in InQueue \cup {active} : h # 0 => h <= seq
      BY DEF StackInv, OnePlaceEach
    <3>3. active <= seq
      BY <2>1, <3>2
    <3>4. \A i \in 1 .. Len(queued) : queued[i] <= seq
      <4> TAKE i \in 1 .. Len(queued)
      <4>1. queued[i] \in InQueue /\ queued[i] \in Ids
        BY DEF InQueue, StackInv
      <4> QED BY <3>2, <4>1 DEF Ids
    <3>5. ASSUME NEW i \in 1 .. Len(OpenLine)
          PROVE  OpenLine[i] <= seq
      <4>1. CASE i = 1
        BY <3>1, <3>3, <4>1
      <4>2. CASE i # 1
        <5>1. PICK m \in 1 .. Len(queued) : i = m + 1
          BY <3>1, <4>2
        <5> QED BY <3>1, <3>4, <5>1
      <4> QED BY <4>1, <4>2
    <3> QED BY <3>1, <3>5
  <2> DEFINE lines == ClosingLines(k)
             readable == IF torn THEN Tail(lines) ELSE lines
             g == log \o readable
  <2>3. /\ lines \in Seq(Line) /\ Len(lines) = k
        /\ \A i \in 1 .. k : lines[i][1] = "ABANDONED" /\ lines[i][2] <= seq
    <3>1. \A i \in 1 .. k : <<"ABANDONED", OpenLine[i]>> \in Line
      BY <2>2 DEF Line, Outcomes
    <3>2. lines = [i \in 1 .. k |-> <<"ABANDONED", OpenLine[i]>>]
      BY DEF ClosingLines
    <3> HIDE DEF lines
    <3> QED BY <1>3, <2>2, <3>1, <3>2
  <2> HIDE DEF lines
  <2>4. /\ readable \in Seq(Line) /\ Len(readable) \in Nat
        /\ \A i \in 1 .. Len(readable) : readable[i][1] = "ABANDONED" /\ readable[i][2] <= seq
    <3>1. CASE torn
      <4>1. lines # <<>> /\ readable = Tail(lines)
        BY <1>3, <2>3, <3>1
      <4>2. /\ readable \in Seq(Line) /\ Len(readable) = k - 1
            /\ \A i \in 1 .. k - 1 : readable[i] = lines[i + 1] /\ i + 1 \in 1 .. k
        BY <1>3, <2>3, <4>1
      <4> HIDE DEF readable
      <4> QED BY <1>3, <2>3, <4>2
    <3>2. CASE ~torn
      BY <2>3, <3>2
    <3> QED BY <3>1, <3>2
  <2> HIDE DEF readable
  <2>5. /\ log \in Seq(Line) /\ Len(log) \in Nat
        /\ \A i \in 1 .. Len(log) : log[i][2] <= seq
        /\ \A i, j \in 1 .. Len(log) :
              i < j /\ log[i][1] = "FORM" /\ log[j][1] = "FORM" => log[i][2] < log[j][2]
    BY <1>1 DEF LogOK, file
  <2>6. /\ g \in Seq(Line) /\ Len(g) = Len(log) + Len(readable)
        /\ \A i \in 1 .. Len(log) : g[i] = log[i]
        /\ \A i \in 1 .. Len(g) : i > Len(log) => g[i] = readable[i - Len(log)]
    BY <2>4, <2>5
  <2> HIDE DEF g
  <2>7. \A i \in 1 .. Len(g) : i > Len(log) => g[i][1] = "ABANDONED" /\ g[i][2] <= seq
    <3> SUFFICES ASSUME NEW i \in 1 .. Len(g), i > Len(log)
                 PROVE  g[i][1] = "ABANDONED" /\ g[i][2] <= seq
      OBVIOUS
    <3>1. PICK m \in 1 .. Len(readable) : m = i - Len(log)
      BY <2>4, <2>5, <2>6
    <3> QED BY <2>4, <2>6, <3>1
  <2>8. \A i \in 1 .. Len(g) : i > Len(log) \/ i \in 1 .. Len(log)
    BY <2>5, <2>6
  <2>9. \A i \in 1 .. Len(g) : g[i][2] <= seq
    BY <2>5, <2>6, <2>7, <2>8
  <2>10. \A i, j \in 1 .. Len(g) :
            i < j /\ g[i][1] = "FORM" /\ g[j][1] = "FORM" => g[i][2] < g[j][2]
    BY <2>5, <2>6, <2>7, <2>8
  <2>11. LogOK(<<g, FALSE>>, seq)
    BY <2>6, <2>9, <2>10 DEF LogOK
  <2> QED BY <1>3, <2>11 DEF Closing, g, readable, lines
<1> QED BY <1>2, <1>3

\* The numbering resumes at the largest id of the log.
LEMMA ResumesAbove ==
    ASSUME BoundsAssumption, LogInv, seq \in 0 .. MaxHypotheses
    PROVE  /\ ResumeSeq \in 0 .. MaxHypotheses
           /\ \A i \in 1 .. Len(log) : log[i][2] <= ResumeSeq
<1> DEFINE logged == {log[i][2] : i \in 1 .. Len(log)}
<1>1. logged \in SUBSET (1 .. MaxHypotheses)
  <2>1. \A i \in 1 .. Len(log) : log[i] \in Line
    BY DEF LogInv
  <2>2. \A i \in 1 .. Len(log) : log[i][2] \in 1 .. MaxHypotheses
    BY <2>1 DEF Line, Ids
  <2> QED BY <2>2
<1>2. ResumeSeq = IF logged = {} THEN 0
                  ELSE CHOOSE h \in logged : \A g \in logged : g <= h
  BY DEF ResumeSeq
<1>3. \A i \in 1 .. Len(log) : log[i][2] \in logged
  OBVIOUS
<1> HIDE DEF logged
<1>4. CASE logged = {}
  BY <1>2, <1>3, <1>4 DEF BoundsAssumption
<1>5. CASE logged # {}
  <2>1. \E h \in logged : \A g \in logged : g <= h
    <3>1. logged \in SUBSET (0 .. MaxHypotheses)
      BY <1>1 DEF BoundsAssumption
    <3> QED BY <1>5, <3>1, LargestExists DEF BoundsAssumption
  <2>2. ResumeSeq \in logged /\ \A g \in logged : g <= ResumeSeq
    BY <1>2, <1>5, <2>1
  <2>3. ResumeSeq \in 0 .. MaxHypotheses
    BY <1>1, <2>2
  <2> QED BY <1>3, <2>2, <2>3
<1> QED BY <1>4, <1>5

-----------------------------------------------------------------------------
(* A new hypothesis enters the stack *)

LEMMA PlacedIs ==
    ASSUME StackInv, NEW h
    PROVE  /\ active = 0 /\ queued = <<>> =>
                 Placed(h, FALSE)[1] = h /\ Placed(h, FALSE)[2] = <<>>
           /\ active # 0 \/ queued # <<>> =>
                 Placed(h, FALSE)[1] = active /\ Placed(h, FALSE)[2] = Append(queued, h)
           /\ Placed(h, TRUE)[1] = h /\ Placed(h, TRUE)[2] = queued
  BY DEF Placed

LEMMA FormInOrder ==
    ASSUME BoundsAssumption, StackInv, seq + 1 \in Ids, seq' = seq + 1,
           active = 0 /\ queued = <<>> => active' = seq + 1 /\ queued' = <<>>,
           active # 0 \/ queued # <<>> => active' = active /\ queued' = Append(queued, seq + 1),
           outcome' = outcome, childless' = childless
    PROVE  StackInv'
<1>1. /\ seq \in Nat /\ queued \in Seq(Ids) /\ Len(queued) \in Nat
      /\ \A i \in 1 .. Len(queued) : queued[i] \in Ids
  BY DEF StackInv
<1>2. \A i \in 1 .. Len(queued) : queued[i] <= seq /\ outcome[queued[i]] = "unformed"
  <2> TAKE i \in 1 .. Len(queued)
  <2>1. queued[i] \in InQueue /\ queued[i] # 0
    BY <1>1 DEF InQueue, Ids
  <2> QED BY <2>1 DEF StackInv, OnePlaceEach
<1>3. outcome[seq + 1] = "unformed"
  BY <1>1 DEF StackInv, Ids
<1>4. CASE active = 0 /\ queued = <<>>
  <2>1. active' = seq + 1 /\ queued' = <<>>
    BY <1>4
  <2>2. InQueue' = {} /\ Len(queued') = 0
    BY <2>1 DEF InQueue
  <2>3. WaitsBehindWork' /\ OnePlaceEach'
    BY <1>1, <1>3, <2>1, <2>2 DEF WaitsBehindWork, OnePlaceEach
  <2> QED BY <1>1, <2>1, <2>3 DEF StackInv, BoundsAssumption, Ids
<1>5. CASE active # 0 \/ queued # <<>>
  <2>1. active' = active /\ queued' = Append(queued, seq + 1)
    BY <1>5
  <2>2. /\ queued' \in Seq(Ids) /\ Len(queued') = Len(queued) + 1
        /\ queued'[Len(queued')] = seq + 1
        /\ \A i \in 1 .. Len(queued) : queued'[i] = queued[i]
    BY <1>1, <2>1
  <2>3. \A i \in 1 .. Len(queued') : i = Len(queued') \/ i \in 1 .. Len(queued)
    BY <1>1, <2>2
  <2>4. /\ active \in Nat /\ active <= seq
        /\ active # 0 => outcome[active] = "unformed"
        /\ \A i \in 1 .. Len(queued) : queued[i] # active
    BY <1>1 DEF StackInv, OnePlaceEach, InQueue
  <2>5. \A i, j \in 1 .. Len(queued') : i < j => queued'[i] < queued'[j]
    <3> SUFFICES ASSUME NEW i \in 1 .. Len(queued'), NEW j \in 1 .. Len(queued'), i < j
                 PROVE  queued'[i] < queued'[j]
      OBVIOUS
    <3>0. i \in 1 .. Len(queued)
      BY <1>1, <2>2
    <3>1. i \in 1 .. Len(queued) /\ queued'[i] = queued[i] /\ queued[i] <= seq
          /\ queued[i] \in Nat
      BY <3>0, <1>1, <1>2, <2>2 DEF Ids
    <3>2. CASE j = Len(queued')
      <4>1. queued'[j] = seq + 1
        BY <2>2, <3>2
      <4>2. seq \in Nat
        BY <1>1
      <4> QED BY <3>1, <4>1, <4>2
    <3>3. CASE j # Len(queued')
      BY <2>2, <2>3, <3>1, <3>3 DEF StackInv, OnePlaceEach
    <3> QED BY <3>2, <3>3
  <2>6. \A i \in 1 .. Len(queued') : /\ queued'[i] <= seq' /\ outcome'[queued'[i]] = "unformed"
                                     /\ queued'[i] # active'
    <3> TAKE i \in 1 .. Len(queued')
    <3>1. CASE i = Len(queued')
      BY <1>1, <1>3, <2>1, <2>2, <2>4, <3>1
    <3>2. CASE i # Len(queued')
      <4>1. i \in 1 .. Len(queued) /\ queued'[i] = queued[i] /\ queued[i] \in Nat
        BY <1>1, <2>2, <2>3, <3>2 DEF Ids
      <4> QED BY <1>1, <1>2, <2>1, <2>4, <4>1
    <3> QED BY <3>1, <3>2
  <2>7. OnePlaceEach'
    <3>1. \A h \in InQueue' : \E i \in 1 .. Len(queued') : h = queued'[i]
      BY DEF InQueue
    <3>2. active' <= seq' /\ (active' # 0 => outcome'[active'] = "unformed")
      BY <1>1, <2>1, <2>4
    <3> QED BY <2>5, <2>6, <3>1, <3>2 DEF OnePlaceEach
  <2>8. WaitsBehindWork'
    BY <1>5, <2>1 DEF WaitsBehindWork, StackInv
  <2> QED BY <1>1, <2>1, <2>2, <2>7, <2>8 DEF StackInv, BoundsAssumption, Ids
<1> QED BY <1>4, <1>5

LEMMA PivotInOrder ==
    ASSUME BoundsAssumption, StackInv, active # 0, seq + 1 \in Ids, seq' = seq + 1,
           active' = seq + 1, queued' = queued,
           outcome' = [outcome EXCEPT ![active] = "PIVOTED"]
    PROVE  StackInv'
<1>1. /\ seq \in Nat /\ queued \in Seq(Ids) /\ Len(queued) \in Nat /\ active \in Ids
      /\ \A i \in 1 .. Len(queued) : queued[i] \in Ids
      /\ outcome \in [Ids -> Outcomes \cup {"unformed"}]
  BY DEF StackInv, Ids
<1>2. \A i \in 1 .. Len(queued) : /\ queued[i] <= seq /\ queued[i] \in Nat
                                  /\ outcome[queued[i]] = "unformed" /\ queued[i] # active
  <2> TAKE i \in 1 .. Len(queued)
  <2>1. queued[i] \in InQueue /\ queued[i] # 0 /\ queued[i] \in Nat
    BY <1>1 DEF InQueue, Ids
  <2> QED BY <2>1 DEF StackInv, OnePlaceEach
<1>3. active <= seq /\ active \in Nat
  BY <1>1 DEF StackInv, OnePlaceEach, Ids
<1>4. \A h \in Ids : h # active => outcome'[h] = outcome[h]
  BY <1>1
<1>5. outcome' \in [Ids -> Outcomes \cup {"unformed"}]
  BY <1>1 DEF Outcomes
<1>6. outcome[seq + 1] = "unformed" /\ seq + 1 # active
  BY <1>1, <1>3 DEF StackInv, Ids
<1>7. \A i \in 1 .. Len(queued') : /\ queued'[i] <= seq' /\ queued'[i] # active'
                                   /\ outcome'[queued'[i]] = "unformed"
  BY <1>1, <1>2, <1>4
<1>8. OnePlaceEach'
  <2>1. \A h \in InQueue' : \E i \in 1 .. Len(queued') : h = queued'[i]
    BY DEF InQueue
  <2>2. \A i, j \in 1 .. Len(queued') : i < j => queued'[i] < queued'[j]
    BY DEF StackInv, OnePlaceEach
  <2>3. active' <= seq' /\ outcome'[active'] = "unformed"
    BY <1>1, <1>4, <1>6
  <2> QED BY <1>7, <2>1, <2>2, <2>3 DEF OnePlaceEach
<1>9. WaitsBehindWork'
  BY <1>1 DEF WaitsBehindWork
<1>10. \A h \in Ids : h > seq' => outcome'[h] = "unformed"
  <2> SUFFICES ASSUME NEW h \in Ids, h > seq + 1
               PROVE  outcome'[h] = "unformed"
    OBVIOUS
  <2>1. h > seq /\ h # active
    BY <1>1, <1>3 DEF Ids
  <2> QED BY <1>4, <2>1 DEF StackInv
<1> QED BY <1>1, <1>5, <1>8, <1>9, <1>10 DEF StackInv, BoundsAssumption, Ids

\* A pivot that is left without its child.
LEMMA AloneInOrder ==
    ASSUME BoundsAssumption, StackInv, active # 0, seq + 1 \in Ids, seq' = seq + 1,
           active' = 0, queued' = queued, childless' = TRUE,
           outcome' = [outcome EXCEPT ![active] = "PIVOTED"]
    PROVE  StackInv'
<1>1. /\ seq \in Nat /\ queued \in Seq(Ids) /\ Len(queued) \in Nat /\ active \in Ids
      /\ outcome \in [Ids -> Outcomes \cup {"unformed"}]
  BY DEF StackInv, Ids
<1>2. InQueue' = InQueue /\ InQueue \subseteq Ids /\ active \notin InQueue /\ 0 \notin InQueue
  BY <1>1 DEF InQueue, StackInv, OnePlaceEach, Ids
<1>3. \A h \in InQueue : h <= seq /\ h \in Nat /\ outcome[h] = "unformed"
  BY <1>2 DEF StackInv, OnePlaceEach, Ids
<1>4. \A h \in Ids : h # active => outcome'[h] = outcome[h]
  BY <1>1
<1>5. outcome' \in [Ids -> Outcomes \cup {"unformed"}]
  BY <1>1 DEF Outcomes
<1>6. OnePlaceEach'
  <2>1. \A i, j \in 1 .. Len(queued') : i < j => queued'[i] < queued'[j]
    BY DEF StackInv, OnePlaceEach
  <2>2. \A h \in InQueue' \cup {active'} : h # 0 => h <= seq' /\ outcome'[h] = "unformed"
    BY <1>1, <1>2, <1>3, <1>4
  <2> QED BY <1>2, <2>1, <2>2 DEF OnePlaceEach
<1>7. WaitsBehindWork'
  BY DEF WaitsBehindWork
<1>8. \A h \in Ids : h > seq' => outcome'[h] = "unformed"
  <2> SUFFICES ASSUME NEW h \in Ids, h > seq + 1
               PROVE  outcome'[h] = "unformed"
    OBVIOUS
  <2>1. h > seq /\ h # active
    BY <1>1 DEF Ids, StackInv, OnePlaceEach
  <2> QED BY <1>4, <2>1 DEF StackInv
<1> QED BY <1>1, <1>5, <1>6, <1>7, <1>8 DEF StackInv, BoundsAssumption, Ids

-----------------------------------------------------------------------------
(* Every step keeps the invariant *)

\* What a step leaves alone of the run, or sets as a tool call does.
LEMMA CallKeepsRun ==
    ASSUME BoundsAssumption, IInv, NEW w \in Writes, Calling, Fault(w), CallEnds(w)
    PROVE  RunInv'
<1>1. finish' = NoFinish /\ running' \in BOOLEAN /\ pending' \in 0 .. MaxBatch
  <2>1. running /\ pending > 0 /\ pending \in 0 .. MaxBatch /\ finish = NoFinish
    BY DEF IInv, RunInv, Unfinished, Calling
  <2>2. finish' = finish
    BY DEF CallEnds
  <2>3. CASE w = "ok"
    <3>1. running' = running /\ pending' = pending - 1
      BY <2>3 DEF CallEnds, CallReturns
    <3> QED BY <2>1, <2>2, <3>1 DEF BoundsAssumption, IInv, RunInv
  <2>4. CASE w # "ok"
    <3>1. pending' = 0
      BY <2>4 DEF CallEnds, CallRaises
    <3>2. running' \in BOOLEAN
      BY <2>4, Zenon DEF CallEnds, CallRaises
    <3>3. pending' \in 0 .. MaxBatch
      BY <3>1 DEF BoundsAssumption
    <3> QED BY <2>1, <2>2, <3>2, <3>3
  <2> QED BY <2>3, <2>4
<1>2. faults' \in 0 .. MaxFaults /\ suspect' \in BOOLEAN
  <2>1. faults \in 0 .. MaxFaults /\ suspect \in BOOLEAN
    BY DEF IInv, RunInv
  <2>2. CASE w = "ok"
    BY <2>1, <2>2 DEF Fault
  <2>3. CASE w # "ok"
    <3>1. faults < MaxFaults /\ faults' = faults + 1 /\ suspect' = TRUE
      BY <2>3 DEF Fault
    <3> QED BY <2>1, <3>1 DEF BoundsAssumption
  <2> QED BY <2>2, <2>3
<1>3. <<steps, requests, runs, base, childless>>' = <<steps, requests, runs, base, childless>>
  BY DEF CallEnds
<1>4. FinishClosesStack' /\ Unfinished'
  BY <1>1 DEF FinishClosesStack, Unfinished, NoFinish
<1>5. finish'.state \in {"none", "COMPLETED", "ERROR", "LIMIT"} /\ finish'.open \in Seq(Ids)
  BY <1>1 DEF NoFinish
<1> QED BY <1>1, <1>2, <1>3, <1>4, <1>5 DEF IInv, RunInv, StepsCharged

LEMMA FormStep ==
    ASSUME BoundsAssumption, IInv, Form
    PROVE  IInv'
<1>1. PICK w \in Writes :
        /\ Calling /\ seq + 1 \in Ids /\ seq' = seq + 1
        /\ active' = Placed(seq + 1, FALSE)[1] /\ queued' = Placed(seq + 1, FALSE)[2]
        /\ outcome' = outcome
        /\ log' = Wrote(file, w, <<"FORM", seq + 1>>)[1]
        /\ torn' = Wrote(file, w, <<"FORM", seq + 1>>)[2]
        /\ Fault(w) /\ CallEnds(w)
  BY DEF Form
<1>2. StackInv'
  <2>1. childless' = childless
    BY <1>1 DEF CallEnds
  <2> QED BY <1>1, <2>1, PlacedIs, FormInOrder DEF IInv
<1>3. LogInv'
  <2>1. LogOK(file, seq) /\ seq \in Nat /\ seq + 1 \in Nat /\ seq <= seq + 1 /\ seq < seq + 1
    BY LogInvIs DEF IInv, StackInv
  <2> DEFINE line == <<"FORM", seq + 1>>
  <2>2. line \in Line
    BY <1>1 DEF Line
  <2>4. line[2] <= seq + 1 /\ (line[1] = "FORM" => seq < line[2])
    BY <2>1
  <2> HIDE DEF line
  <2>5. LogOK(Wrote(file, w, line), seq + 1)
    BY <2>1, <2>2, <2>4, WroteKeeps
  <2>3. LogOK(Wrote(file, w, <<"FORM", seq + 1>>), seq + 1)
    BY <2>5 DEF line
  <2> QED BY <1>1, <2>3, LogOKIs DEF LogOK
<1>4. RunInv'
  BY <1>1, CallKeepsRun
<1> QED BY <1>2, <1>3, <1>4 DEF IInv

LEMMA ResolveStep ==
    ASSUME BoundsAssumption, IInv, NEW o \in {"CONFIRMED", "ABANDONED"}, Resolve(o)
    PROVE  IInv'
<1>1. PICK w \in Writes :
        /\ Calling /\ active # 0
        /\ log' = Wrote(file, w, <<o, active>>)[1]
        /\ torn' = Wrote(file, w, <<o, active>>)[2]
        /\ IF w = "ok"
           THEN /\ active' = Promotion[1] /\ queued' = Promotion[2]
                /\ outcome' = [outcome EXCEPT ![active] = o] /\ seq' = seq
           ELSE UNCHANGED stack
        /\ Fault(w) /\ CallEnds(w)
  BY DEF Resolve
<1>2. StackInv'
  <2>1. CASE w = "ok"
    <3>1. Left(0, o)
      BY <1>1, <2>1, PromotionLeaves DEF IInv, Outcomes
    <3>2. 0 \in 0 .. Len(queued) /\ o \in Outcomes
      BY DEF IInv, StackInv, Outcomes
    <3> QED BY <1>1, <3>1, <3>2, LeftInOrder DEF IInv
  <2>2. CASE w # "ok"
    BY <1>1, <2>2 DEF CallEnds, stack, IInv, StackInv, WaitsBehindWork, OnePlaceEach, InQueue
  <2> QED BY <2>1, <2>2
<1>3. LogInv'
  <2>1. LogOK(file, seq) /\ seq \in Nat /\ seq <= seq /\ seq' = seq
    BY <1>1, LogInvIs DEF IInv, StackInv, stack
  <2>2. <<o, active>> \in Line /\ active <= seq /\ o # "FORM"
    BY <1>1 DEF IInv, StackInv, OnePlaceEach, Line, Ids, Outcomes
  <2>3. LogOK(Wrote(file, w, <<o, active>>), seq)
    BY <2>1, <2>2, WroteKeeps
  <2> QED BY <1>1, <2>1, <2>3, LogOKIs DEF LogOK
<1>4. RunInv'
  BY <1>1, CallKeepsRun
<1> QED BY <1>2, <1>3, <1>4 DEF IInv

LEMMA PivotRefusedStep ==
    ASSUME BoundsAssumption, IInv, PivotRefused
    PROVE  IInv'
<1>1. PICK w \in Writes :
        /\ Calling /\ active # 0
        /\ log' = Wrote(file, w, <<"PIVOTED", active>>)[1]
        /\ torn' = Wrote(file, w, <<"PIVOTED", active>>)[2]
        /\ UNCHANGED stack /\ Fault(w) /\ CallEnds(w)
  BY DEF PivotRefused
<1>2. StackInv' /\ seq' = seq
  BY <1>1 DEF CallEnds, stack, IInv, StackInv, WaitsBehindWork, OnePlaceEach, InQueue
<1>3. LogInv'
  <2>1. LogOK(file, seq) /\ seq \in Nat /\ seq <= seq
    BY LogInvIs DEF IInv, StackInv
  <2>2. <<"PIVOTED", active>> \in Line /\ active <= seq
    BY <1>1 DEF IInv, StackInv, OnePlaceEach, Line, Ids, Outcomes
  <2>3. LogOK(Wrote(file, w, <<"PIVOTED", active>>), seq)
    BY <2>1, <2>2, WroteKeeps
  <2> QED BY <1>1, <1>2, <2>3, LogOKIs DEF LogOK
<1>4. RunInv'
  BY <1>1, CallKeepsRun
<1> QED BY <1>2, <1>3, <1>4 DEF IInv

LEMMA PivotStep ==
    ASSUME BoundsAssumption, IInv, Pivot
    PROVE  IInv'
<1> DEFINE first == Wrote(file, "ok", <<"PIVOTED", active>>)
           both(w) == Wrote(first, w, <<"FORM", seq + 1>>)
<1>1. PICK w \in Writes :
        /\ Calling /\ active # 0 /\ seq + 1 \in Ids
        /\ log' = both(w)[1] /\ torn' = both(w)[2]
        /\ seq' = seq + 1
        /\ active' = Placed(seq + 1, TRUE)[1] /\ queued' = Placed(seq + 1, TRUE)[2]
        /\ outcome' = [outcome EXCEPT ![active] = "PIVOTED"]
        /\ Fault(w) /\ CallEnds(w)
  BY DEF Pivot
<1>2. StackInv'
  BY <1>1, PlacedIs, PivotInOrder DEF IInv
<1>3. LogInv'
  <2>1. LogOK(file, seq) /\ seq \in Nat /\ seq + 1 \in Nat /\ seq <= seq
        /\ seq <= seq + 1 /\ seq < seq + 1
    BY LogInvIs DEF IInv, StackInv
  <2>2. <<"PIVOTED", active>> \in Line /\ active <= seq /\ "ok" \in Writes
    <3> HIDE DEF first, both
    <3>1. active # 0
      BY <1>1
    <3>2. active \in Ids /\ active <= seq
      BY <3>1, BoundsAssumption DEF IInv, StackInv, OnePlaceEach, Ids
    <3> QED BY <3>2 DEF Line, Outcomes, Writes
  <2>3. LogOK(first, seq)
    BY <2>1, <2>2, WroteKeeps
  <2>4. <<"FORM", seq + 1>> \in Line
    BY <1>1 DEF Line
  <2> HIDE DEF first
  <2>5. LogOK(both(w), seq + 1)
    BY <2>1, <2>3, <2>4, WroteKeeps
  <2> HIDE DEF both
  <2> QED BY <1>1, <2>5, LogOKIs DEF LogOK
<1>4. RunInv'
  BY <1>1, CallKeepsRun
<1> QED BY <1>2, <1>3, <1>4 DEF IInv

\* A blank statement ends the call with the numbering one further.
LEMMA BlankKeepsRun ==
    ASSUME BoundsAssumption, IInv, Calling, CallReturns \/ CallRaises,
           UNCHANGED <<finish, steps, requests, runs, faults, base, suspect>>,
           childless' \in BOOLEAN
    PROVE  RunInv'
<1>1. running /\ pending > 0 /\ pending \in 0 .. MaxBatch /\ finish = NoFinish
  BY DEF IInv, RunInv, Unfinished, Calling
<1>2. pending' \in 0 .. MaxBatch
  <2>1. CASE CallReturns
    BY <1>1, <2>1 DEF CallReturns, BoundsAssumption
  <2>2. CASE CallRaises
    BY <2>2 DEF CallRaises, BoundsAssumption
  <2> QED BY <2>1, <2>2
<1>3. running' \in BOOLEAN
  <2>1. running \in BOOLEAN
    BY DEF IInv, RunInv
  <2> QED BY <2>1, Zenon DEF CallReturns, CallRaises
<1>4. FinishClosesStack' /\ Unfinished'
  BY <1>1 DEF FinishClosesStack, Unfinished, NoFinish
<1> QED BY <1>2, <1>3, <1>4 DEF IInv, RunInv, StepsCharged

LEMMA BlankFormStep ==
    ASSUME BoundsAssumption, IInv, BlankForm
    PROVE  IInv'
<1>1. /\ Calling /\ seq + 1 \in Ids /\ seq' = seq + 1 /\ (CallReturns \/ CallRaises)
      /\ UNCHANGED <<active, queued, outcome, file, finish, steps, requests, runs, faults, base,
                     suspect, childless>>
  BY DEF BlankForm
<1>2. StackInv'
  <2>1. seq \in Nat /\ seq' \in 0 .. MaxHypotheses
    BY <1>1 DEF IInv, StackInv, BoundsAssumption, Ids
  <2>2. WaitsBehindWork'
    BY <1>1 DEF IInv, StackInv, WaitsBehindWork
  <2>3. InQueue' = InQueue /\ InQueue \subseteq Ids
    BY <1>1 DEF IInv, StackInv, InQueue
  <2>4. \A h \in InQueue \cup {active} : h # 0 => h <= seq' /\ outcome[h] = "unformed"
    BY <1>1, <2>1, <2>3 DEF IInv, StackInv, OnePlaceEach, Ids
  <2>5. OnePlaceEach'
    BY <1>1, <2>3, <2>4 DEF IInv, StackInv, OnePlaceEach
  <2>6. \A h \in Ids : h > seq' => outcome'[h] = "unformed"
    BY <1>1, <2>1 DEF IInv, StackInv, Ids
  <2> QED BY <1>1, <2>1, <2>2, <2>5, <2>6 DEF IInv, StackInv
<1>3. LogInv'
  <2>1. LogOK(file, seq) /\ seq \in Nat
    BY LogInvIs DEF IInv, StackInv
  <2>2. \A i \in 1 .. Len(log) : log[i][2] \in Nat
    BY DEF IInv, LogInv, Line, Ids
  <2>3. log' = log /\ torn' = torn
    BY <1>1 DEF file
  <2>4. log' \in Seq(Line) /\ torn' \in BOOLEAN /\ OneFormPerId'
    BY <2>3 DEF IInv, LogInv, OneFormPerId
  <2>5. \A i \in 1 .. Len(log) : log[i][2] <= seq
    BY DEF IInv, LogInv
  <2>6. \A i \in 1 .. Len(log') : log'[i][2] <= seq'
    BY <1>1, <2>1, <2>2, <2>3, <2>5
  <2> QED BY <2>4, <2>6 DEF LogInv
<1>4. RunInv'
  BY <1>1, BlankKeepsRun DEF IInv, RunInv
<1> QED BY <1>2, <1>3, <1>4 DEF IInv

LEMMA BlankPivotStep ==
    ASSUME BoundsAssumption, IInv, BlankPivot
    PROVE  IInv'
<1> DEFINE line == <<"PIVOTED", active>>
<1>1. /\ Calling /\ active # 0 /\ seq + 1 \in Ids
      /\ log' = Wrote(file, "ok", line)[1] /\ torn' = Wrote(file, "ok", line)[2]
      /\ seq' = seq + 1 /\ active' = 0 /\ queued' = queued
      /\ outcome' = [outcome EXCEPT ![active] = "PIVOTED"]
      /\ (CallReturns \/ CallRaises)
      /\ UNCHANGED <<finish, steps, requests, runs, faults, base, suspect>>
  BY DEF BlankPivot
<1>2. childless' = TRUE
  BY DEF BlankPivot
<1>3. StackInv'
  BY <1>1, <1>2, AloneInOrder DEF IInv
<1>4. LogInv'
  <2>1. LogOK(file, seq) /\ seq \in Nat /\ seq + 1 \in Nat /\ seq <= seq + 1
    BY LogInvIs DEF IInv, StackInv
  <2>2. active \in Ids /\ active <= seq
    BY <1>1 DEF IInv, StackInv, OnePlaceEach, Ids
  <2>3. line \in Line /\ line[2] <= seq + 1 /\ line[1] # "FORM" /\ "ok" \in Writes
    BY <2>1, <2>2 DEF Line, Outcomes, Writes, Ids
  <2> HIDE DEF line
  <2>4. LogOK(Wrote(file, "ok", line), seq + 1)
    BY <2>1, <2>3, WroteKeeps
  <2> QED BY <1>1, <2>4, LogOKIs DEF LogOK
<1>5. RunInv'
  <2>1. childless' \in BOOLEAN
    BY <1>2, Zenon
  <2> QED BY <1>1, <2>1, BlankKeepsRun
<1> QED BY <1>3, <1>4, <1>5 DEF IInv

\* A step that ends a run with a finish line is right about what is open.
LEMMA FinishKeepsRun ==
    ASSUME BoundsAssumption, IInv, NEW state \in {"COMPLETED", "ERROR", "LIMIT"},
           NEW open \in Seq(Ids), Finished(state, open),
           faults' \in 0 .. MaxFaults, suspect' \in BOOLEAN,
           open = OpenLine',
           state = "ERROR" \/ (state = "COMPLETED" /\ ~suspect') => childless \/ open = <<>>
    PROVE  RunInv'
<1>1. finish' = [state |-> state, open |-> open] /\ pending' = 0
  BY DEF Finished
<1>2. running' = FALSE
  BY DEF Finished
<1>3. <<steps, requests, runs, base, childless>>' = <<steps, requests, runs, base, childless>>
  BY DEF Finished
<1>4. finish'.state = state /\ finish'.open = open
  BY <1>1
<1>5. FinishClosesStack'
  <2>1. childless' = childless
    BY <1>3
  <2> QED BY <1>4, <2>1, Zenon DEF FinishClosesStack
<1>6. running' \in BOOLEAN /\ Unfinished'
  BY <1>2, Zenon DEF Unfinished
<1>7. pending' \in 0 .. MaxBatch
  BY <1>1 DEF BoundsAssumption
<1>8. StepsCharged' /\ steps' \in [Ids -> 0 .. RequestLimit] /\ requests' \in 0 .. RequestLimit
      /\ runs' \in 0 .. MaxRuns /\ base' \in Nat /\ childless' \in BOOLEAN
  BY <1>3 DEF IInv, RunInv, StepsCharged
<1> QED BY <1>4, <1>5, <1>6, <1>7, <1>8 DEF RunInv

LEMMA FaultKeepsBounds ==
    ASSUME BoundsAssumption, IInv, NEW w \in Writes, Fault(w)
    PROVE  /\ faults' \in 0 .. MaxFaults /\ suspect' \in BOOLEAN
           /\ w = "ok" \/ suspect' = TRUE
<1>1. faults \in 0 .. MaxFaults /\ suspect \in BOOLEAN
  BY DEF IInv, RunInv
<1>2. CASE w = "ok"
  BY <1>1, <1>2 DEF Fault
<1>3. CASE w # "ok"
  <2>1. faults < MaxFaults /\ faults' = faults + 1 /\ suspect' = TRUE
    BY <1>3 DEF Fault
  <2> QED BY <1>1, <2>1 DEF BoundsAssumption
<1> QED BY <1>2, <1>3

LEMMA BlockedStep ==
    ASSUME BoundsAssumption, IInv, BlockedCall
    PROVE  IInv'
<1>1. /\ active = 0 /\ UNCHANGED <<stack, file, faults, suspect>> /\ Finished("ERROR", OpenLine)
  BY DEF BlockedCall, Blocked
<1>2. childless' = childless
  BY <1>1 DEF Finished
<1>3. StackInv'
  BY <1>1, <1>2 DEF stack, IInv, StackInv, WaitsBehindWork, OnePlaceEach, InQueue
<1>4. LogInv'
  BY <1>1 DEF stack, file, IInv, LogInv, OneFormPerId
<1>5. OpenLine' = OpenLine /\ OpenLine = queued /\ queued \in Seq(Ids)
  BY <1>1 DEF stack, OpenLine, IInv, StackInv
<1>6. childless \/ OpenLine = <<>>
  BY <1>1, <1>5 DEF IInv, StackInv, WaitsBehindWork
<1>7. faults' \in 0 .. MaxFaults /\ suspect' \in BOOLEAN
  BY <1>1 DEF IInv, RunInv
<1>8. RunInv'
  BY <1>1, <1>5, <1>6, <1>7, FinishKeepsRun
<1> QED BY <1>3, <1>4, <1>8 DEF IInv

\* The open hypotheses behind the first k are a line too.
LEMMA RestOfLine ==
    ASSUME BoundsAssumption, StackInv, active # 0, NEW k \in 0 .. Len(OpenLine)
    PROVE  /\ SubSeq(OpenLine, k + 1, Len(OpenLine)) \in Seq(Ids)
           /\ k = Len(OpenLine) => SubSeq(OpenLine, k + 1, Len(OpenLine)) = <<>>
           /\ k < Len(OpenLine) => OpenLine[k + 1] \in Ids /\ OpenLine[k + 1] <= seq
<1>1. /\ OpenLine \in Seq(Ids) /\ Len(OpenLine) = Len(queued) + 1 /\ Len(queued) \in Nat
      /\ OpenLine[1] = active /\ queued \in Seq(Ids) /\ active \in Ids
      /\ \A i \in 1 .. Len(queued) : OpenLine[i + 1] = queued[i]
  BY OpenLineIs DEF StackInv, Ids
<1>2. SubSeq(OpenLine, k + 1, Len(OpenLine)) \in Seq(Ids)
      /\ (k = Len(OpenLine) => SubSeq(OpenLine, k + 1, Len(OpenLine)) = <<>>)
  BY <1>1
<1>3. ASSUME k < Len(OpenLine)
      PROVE  OpenLine[k + 1] \in Ids /\ OpenLine[k + 1] <= seq
  <2>1. CASE k = 0
    <3>1. OpenLine[k + 1] = active
      BY <1>1, <2>1
    <3> QED BY <1>1, <3>1 DEF StackInv, OnePlaceEach
  <2>2. CASE k # 0
    <3>1. k \in 1 .. Len(queued) /\ OpenLine[k + 1] = queued[k]
      BY <1>1, <1>3, <2>2
    <3>2. queued[k] \in InQueue /\ queued[k] \in Ids /\ queued[k] # 0
      <4>1. queued[k] \in Ids
        BY <1>1, <3>1
      <4> QED BY <3>1, <4>1 DEF InQueue, Ids
    <3>3. queued[k] <= seq
      BY <3>2 DEF StackInv, OnePlaceEach
    <3> QED BY <3>1, <3>2, <3>3
  <2> QED BY <2>1, <2>2
<1> QED BY <1>2, <1>3

\* The line behind the active hypothesis is the queue.
LEMMA OpenTail ==
    ASSUME BoundsAssumption, StackInv, active # 0
    PROVE  SubSeq(OpenLine, 2, Len(OpenLine)) = queued
<1>1. /\ OpenLine \in Seq(Ids) /\ Len(OpenLine) = Len(queued) + 1
      /\ \A i \in 1 .. Len(queued) : OpenLine[i + 1] = queued[i]
      /\ queued \in Seq(Ids) /\ Len(queued) \in Nat
  BY OpenLineIs DEF StackInv
<1> DEFINE rest == SubSeq(OpenLine, 2, Len(OpenLine))
<1>2. /\ rest \in Seq(Ids) /\ Len(rest) = Len(queued)
      /\ \A i \in 1 .. Len(rest) : rest[i] = OpenLine[i + 1]
  BY <1>1
<1>3. \A i \in 1 .. Len(rest) : rest[i] = queued[i]
  BY <1>1, <1>2
<1> HIDE DEF rest
<1>4. rest = queued
  BY <1>1, <1>2, <1>3
<1> QED BY <1>4 DEF rest

LEMMA CloseFirstKeeps ==
    ASSUME BoundsAssumption, StackInv, active # 0,
           NEW k \in 1 .. Len(OpenLine), CloseFirst(k), seq' = seq
    PROVE  /\ StackInv'
           /\ k = Len(OpenLine) => active' = 0 /\ queued' = <<>>
<1>1. k - 1 \in 0 .. Len(queued) /\ Left(k - 1, "ABANDONED")
  BY CloseFirstLeaves
<1>2. "ABANDONED" \in Outcomes
  BY DEF Outcomes
<1>3. StackInv'
  BY <1>1, <1>2, LeftInOrder
<1>4. ASSUME k = Len(OpenLine)
      PROVE  active' = 0 /\ queued' = <<>>
  <2>1. SubSeq(OpenLine, k + 1, Len(OpenLine)) = <<>>
    BY <1>4, RestOfLine
  <2> QED BY <2>1 DEF CloseFirst
<1> QED BY <1>3, <1>4

\* The finish line says what the stack is left with.
LEMMA FinishSaysOpen ==
    ASSUME BoundsAssumption, IInv, Complete \/ UsageLimit \/ BlockedCall
    PROVE  finish'.open = OpenLine' /\ finish'.state \in {"COMPLETED", "ERROR", "LIMIT"}
<1>1. CASE Complete /\ active # 0
  <2>1. PICK k \in 0 .. Len(OpenLine) :
           /\ IF k = 0 THEN UNCHANGED <<active, queued, outcome>> ELSE CloseFirst(k)
           /\ Finished("COMPLETED", SubSeq(OpenLine, k + 1, Len(OpenLine)))
    BY <1>1 DEF Complete
  <2> DEFINE rest == SubSeq(OpenLine, k + 1, Len(OpenLine))
  <2>2. finish'.open = rest /\ finish'.state = "COMPLETED"
    BY <2>1 DEF Finished
  <2>3. rest = OpenLine'
    <3>1. OpenLine \in Seq(Ids)
      BY <1>1, OpenLineIs DEF IInv
    <3>2. CASE k = 0
      <4>1. rest = OpenLine
        BY <3>1, <3>2
      <4> QED BY <2>1, <3>2, <4>1 DEF OpenLine
    <3>3. CASE k # 0
      <4>1. rest \in Seq(Ids)
        BY <1>1, RestOfLine DEF IInv
      <4>2. /\ active' = IF rest = <<>> THEN 0 ELSE Head(rest)
            /\ queued' = IF rest = <<>> THEN <<>> ELSE Tail(rest)
        BY <2>1, <3>3 DEF CloseFirst
      <4> HIDE DEF rest
      <4>3. CASE rest = <<>>
        BY <4>2, <4>3 DEF OpenLine
      <4>4. CASE rest # <<>>
        <5>1. rest[1] \in Ids /\ Head(rest) = rest[1]
          BY <4>1, <4>4
        <5>2. active' # 0
          BY <4>2, <4>4, <5>1 DEF Ids
        <5>3. OpenLine' = <<Head(rest)>> \o Tail(rest)
          BY <4>2, <4>4, <5>2 DEF OpenLine
        <5>4. <<Head(rest)>> \o Tail(rest) = rest
          BY <4>1, <4>4
        <5> QED BY <5>3, <5>4
      <4> QED BY <4>3, <4>4
    <3> QED BY <3>2, <3>3
  <2> QED BY <2>2, <2>3
<1>2. CASE BlockedCall
  <2>1. finish'.open = OpenLine /\ finish'.state = "ERROR" /\ UNCHANGED <<active, queued>>
    BY <1>2 DEF BlockedCall, Finished, stack
  <2> QED BY <2>1 DEF OpenLine
<1>3. CASE (UsageLimit \/ Complete) /\ active = 0
  <2>1. /\ finish'.open = OpenLine /\ finish'.state \in {"LIMIT", "COMPLETED"}
        /\ UNCHANGED <<active, queued>>
    BY <1>3 DEF UsageLimit, Complete, Finished
  <2> QED BY <2>1 DEF OpenLine
<1>4. CASE UsageLimit /\ active # 0
  <2>1. PICK w \in Writes :
           /\ IF w = "ok" THEN CloseFirst(1) ELSE UNCHANGED <<active, queued, outcome>>
           /\ Finished("LIMIT", IF w = "ok" THEN queued ELSE OpenLine)
    BY <1>4 DEF UsageLimit
  <2>2. CASE w = "ok"
    <3>1. finish'.open = queued /\ finish'.state = "LIMIT"
      BY <2>1, <2>2 DEF Finished
    <3>2. SubSeq(OpenLine, 1 + 1, Len(OpenLine)) = queued
      BY <1>4, OpenTail DEF IInv
    <3>3. /\ active' = IF queued = <<>> THEN 0 ELSE Head(queued)
          /\ queued' = IF queued = <<>> THEN <<>> ELSE Tail(queued)
      BY <2>1, <2>2, <3>2 DEF CloseFirst
    <3>4. CASE queued = <<>>
      BY <3>1, <3>3, <3>4 DEF OpenLine
    <3>5. CASE queued # <<>>
      <4>1. queued \in Seq(Ids) /\ queued[1] \in Ids /\ Head(queued) = queued[1]
        BY <3>5 DEF IInv, StackInv
      <4>2. active' # 0
        BY <3>3, <3>5, <4>1 DEF Ids
      <4>3. OpenLine' = <<Head(queued)>> \o Tail(queued)
        BY <3>3, <3>5, <4>2 DEF OpenLine
      <4>4. <<Head(queued)>> \o Tail(queued) = queued
        BY <3>5, <4>1
      <4> QED BY <3>1, <4>3, <4>4
    <3> QED BY <3>4, <3>5
  <2>3. CASE w # "ok"
    BY <2>1, <2>3 DEF Finished, OpenLine
  <2> QED BY <2>2, <2>3
<1> QED BY <1>1, <1>2, <1>3, <1>4

\* The end of a run at which nothing is active.
LEMMA IdleEndStep ==
    ASSUME BoundsAssumption, IInv, NEW state \in {"COMPLETED", "LIMIT"},
           active = 0, UNCHANGED <<seq, active, queued, outcome, file, faults, suspect>>,
           Finished(state, OpenLine)
    PROVE  IInv'
<1>1. childless' = childless
  BY DEF Finished
<1>2. StackInv'
  BY <1>1 DEF IInv, StackInv, WaitsBehindWork, OnePlaceEach, InQueue
<1>3. LogInv'
  BY DEF file, IInv, LogInv, OneFormPerId
<1>4. OpenLine' = OpenLine /\ OpenLine = queued /\ queued \in Seq(Ids)
  BY DEF OpenLine, IInv, StackInv
<1>5. childless \/ OpenLine = <<>>
  BY <1>4 DEF IInv, StackInv, WaitsBehindWork
<1>6. faults' \in 0 .. MaxFaults /\ suspect' \in BOOLEAN
  BY DEF IInv, RunInv
<1>7. RunInv'
  BY <1>4, <1>5, <1>6, FinishKeepsRun
<1> QED BY <1>2, <1>3, <1>7 DEF IInv

LEMMA CompleteStep ==
    ASSUME BoundsAssumption, IInv, Complete
    PROVE  IInv'
<1>0. CASE active = 0
  <2>1. /\ UNCHANGED <<seq, active, queued, outcome, file, faults, suspect>>
        /\ Finished("COMPLETED", OpenLine)
    BY <1>0 DEF Complete
  <2> QED BY <1>0, <2>1, IdleEndStep
<1> SUFFICES ASSUME active # 0
             PROVE  IInv'
  BY <1>0
<1>1. PICK k \in 0 .. Len(OpenLine), w \in Writes :
        LET f == IF w = "ok" THEN Closing(k)
                 ELSE Wrote(Closing(k), w, <<"ABANDONED", OpenLine[k + 1]>>)
        IN /\ w = "ok" <=> k = Len(OpenLine)
           /\ IF k = 0 THEN UNCHANGED <<active, queued, outcome>> ELSE CloseFirst(k)
           /\ log' = f[1] /\ torn' = f[2]
           /\ Fault(w)
           /\ Finished("COMPLETED", SubSeq(OpenLine, k + 1, Len(OpenLine)))
  BY DEF Complete
<1>2. seq' = seq
  BY DEF Complete
<1>3. Len(OpenLine) \in Nat /\ Len(OpenLine) # 0
  BY OpenLineIs DEF IInv, StackInv
<1>4. childless' = childless
  BY <1>1 DEF Finished
<1>5. StackInv'
  <2>1. CASE k = 0
    <3>1. UNCHANGED <<active, queued, outcome>>
      BY <1>1, <2>1
    <3> QED BY <1>2, <1>4, <3>1 DEF IInv, StackInv, WaitsBehindWork, OnePlaceEach, InQueue
  <2>2. CASE k # 0
    <3>1. CloseFirst(k) /\ k \in 1 .. Len(OpenLine)
      BY <1>1, <1>3, <2>2
    <3> QED BY <1>2, <2>2, <3>1, CloseFirstKeeps DEF IInv
  <2> QED BY <2>1, <2>2
<1>6. LogInv'
  <2>1. LogOK(Closing(k), seq) /\ seq \in Nat /\ seq <= seq
    BY ClosingKeeps DEF IInv, StackInv
  <2>2. CASE w = "ok"
    <3>1. log' = Closing(k)[1] /\ torn' = Closing(k)[2]
      BY <1>1, <2>2
    <3> QED BY <1>2, <2>1, <3>1, LogOKIs DEF LogOK
  <2>3. CASE w # "ok"
    <3> DEFINE line == <<"ABANDONED", OpenLine[k + 1]>>
    <3>1. k < Len(OpenLine)
      BY <1>1, <1>3, <2>3
    <3>2. OpenLine[k + 1] \in Ids /\ OpenLine[k + 1] <= seq
      BY <3>1, RestOfLine DEF IInv
    <3>3. line \in Line /\ line[2] <= seq /\ line[1] # "FORM"
      BY <3>2 DEF Line, Outcomes
    <3>4. log' = Wrote(Closing(k), w, line)[1] /\ torn' = Wrote(Closing(k), w, line)[2]
      BY <1>1, <2>3
    <3> HIDE DEF line
    <3>5. LogOK(Wrote(Closing(k), w, line), seq)
      BY <2>1, <3>3, WroteKeeps
    <3> QED BY <1>2, <3>4, <3>5, LogOKIs DEF LogOK
  <2> QED BY <2>2, <2>3
<1>7. RunInv'
  <2> DEFINE rest == SubSeq(OpenLine, k + 1, Len(OpenLine))
  <2>1. rest \in Seq(Ids)
    BY RestOfLine DEF IInv
  <2>2. Fault(w) /\ Finished("COMPLETED", rest)
    BY <1>1
  <2>3. faults' \in 0 .. MaxFaults /\ suspect' \in BOOLEAN /\ (w = "ok" \/ suspect' = TRUE)
    BY <2>2, FaultKeepsBounds
  <2>4. w = "ok" => rest = <<>>
    BY <1>1, RestOfLine DEF IInv
  <2>5. rest = OpenLine'
    <3>1. finish'.open = OpenLine' /\ finish'.open = rest
      BY <2>2, FinishSaysOpen DEF Finished
    <3> QED BY <3>1
  <2> HIDE DEF rest
  <2>6. ("COMPLETED" = "ERROR" \/ ("COMPLETED" = "COMPLETED" /\ ~suspect'))
            => childless \/ rest = <<>>
    BY <2>3, <2>4
  <2> QED BY <2>1, <2>2, <2>3, <2>5, <2>6, FinishKeepsRun
<1> QED BY <1>5, <1>6, <1>7 DEF IInv

LEMMA UsageLimitStep ==
    ASSUME BoundsAssumption, IInv, UsageLimit
    PROVE  IInv'
<1>1. seq' = seq
  BY DEF UsageLimit
<1>2. CASE active = 0
  <2>1. UNCHANGED <<active, queued, outcome, file, faults, suspect>> /\ Finished("LIMIT", OpenLine)
    BY <1>2 DEF UsageLimit
  <2> QED BY <1>1, <1>2, <2>1, IdleEndStep
<1>3. CASE active # 0
  <2> DEFINE line == <<"ABANDONED", active>>
             open(w) == IF w = "ok" THEN queued ELSE OpenLine
  <2>1. PICK w \in Writes :
          /\ log' = Wrote(file, w, line)[1] /\ torn' = Wrote(file, w, line)[2]
          /\ IF w = "ok" THEN CloseFirst(1) ELSE UNCHANGED <<active, queued, outcome>>
          /\ Fault(w)
          /\ Finished("LIMIT", open(w))
    BY <1>3 DEF UsageLimit
  <2>2. OpenLine \in Seq(Ids) /\ queued \in Seq(Ids) /\ 1 \in 1 .. Len(OpenLine)
    BY <1>3, OpenLineIs DEF IInv, StackInv
  <2>3. StackInv'
    <3>1. CASE w = "ok"
      BY <1>1, <1>3, <2>1, <2>2, <3>1, CloseFirstKeeps DEF IInv
    <3>2. CASE w # "ok"
      BY <1>1, <2>1, <3>2 DEF Finished, IInv, StackInv, WaitsBehindWork, OnePlaceEach, InQueue
    <3> QED BY <3>1, <3>2
  <2>4. LogInv'
    <3>1. LogOK(file, seq) /\ seq \in Nat /\ seq <= seq
      BY LogInvIs DEF IInv, StackInv
    <3>2. line \in Line /\ line[2] <= seq /\ line[1] # "FORM"
      BY <1>3 DEF IInv, StackInv, OnePlaceEach, Line, Ids, Outcomes
    <3> HIDE DEF line
    <3>3. LogOK(Wrote(file, w, line), seq)
      BY <3>1, <3>2, WroteKeeps
    <3> QED BY <1>1, <2>1, <3>3, LogOKIs DEF LogOK
  <2>5. faults' \in 0 .. MaxFaults /\ suspect' \in BOOLEAN
    BY <2>1, FaultKeepsBounds
  <2>6. open(w) \in Seq(Ids)
    BY <2>2
  <2> HIDE DEF open
  <2>7. Finished("LIMIT", open(w))
    BY <2>1
  <2>8. open(w) = OpenLine'
    <3>1. finish'.open = OpenLine' /\ finish'.open = open(w)
      BY <2>7, FinishSaysOpen DEF Finished
    <3> QED BY <3>1
  <2>9. RunInv'
    BY <2>5, <2>6, <2>7, <2>8, FinishKeepsRun
  <2> QED BY <2>3, <2>4, <2>9 DEF IInv
<1> QED BY <1>2, <1>3

\* The steps that leave the log alone.
LEMMA OtherSteps ==
    ASSUME BoundsAssumption, IInv, Start \/ Die \/ Request \/ OtherCall \/ UNCHANGED vars
    PROVE  IInv'
<1>1. CASE Start
  <2>1. /\ seq' = ResumeSeq /\ active' = 0 /\ queued' = <<>>
        /\ outcome' = [h \in Ids |-> "unformed"] /\ UNCHANGED file
        /\ running' = TRUE /\ finish' = NoFinish /\ steps' = [h \in Ids |-> 0]
        /\ requests' = 0 /\ pending' = 0 /\ runs < MaxRuns /\ runs' = runs + 1
        /\ base' = Len(log) /\ faults' = faults /\ childless' = FALSE
    BY <1>1 DEF Start
  <2>2. ResumeSeq \in 0 .. MaxHypotheses /\ \A i \in 1 .. Len(log) : log[i][2] <= ResumeSeq
    BY ResumesAbove DEF IInv, StackInv
  <2>3. StackInv'
    <3>1. InQueue' = {} /\ Len(queued') = 0 /\ queued' \in Seq(Ids)
      BY <2>1 DEF InQueue
    <3>2. WaitsBehindWork' /\ OnePlaceEach'
      BY <2>1, <3>1 DEF WaitsBehindWork, OnePlaceEach
    <3> QED BY <2>1, <2>2, <3>1, <3>2 DEF StackInv, BoundsAssumption
  <2>4. LogInv'
    BY <2>1, <2>2 DEF file, IInv, LogInv, OneFormPerId
  <2>5. suspect' \in BOOLEAN
    BY <1>1, Zenon DEF Start, IInv, LogInv
  <2>6. running' \in BOOLEAN /\ childless' \in BOOLEAN
    BY <2>1, Zenon
  <2>7. FinishClosesStack' /\ Unfinished'
    BY <2>1 DEF FinishClosesStack, Unfinished, NoFinish
  <2>8. finish'.state \in {"none", "COMPLETED", "ERROR", "LIMIT"} /\ finish'.open \in Seq(Ids)
    BY <2>1 DEF NoFinish
  <2>9. /\ steps' \in [Ids -> 0 .. RequestLimit] /\ StepsCharged'
        /\ requests' \in 0 .. RequestLimit /\ pending' \in 0 .. MaxBatch
        /\ base' \in Nat /\ faults' \in 0 .. MaxFaults /\ runs' \in 0 .. MaxRuns
    BY <2>1 DEF BoundsAssumption, StepsCharged, IInv, RunInv, LogInv
  <2> QED BY <2>3, <2>4, <2>5, <2>6, <2>7, <2>8, <2>9 DEF IInv, RunInv
<1>2. CASE Die
  <2>1. /\ running /\ UNCHANGED <<stack, file, finish, steps, requests, runs, faults, base, suspect, childless>>
        /\ pending' = 0
    BY <1>2 DEF Die
  <2>2. running' = FALSE
    BY <1>2 DEF Die
  <2>3. StackInv' /\ LogInv'
    BY <2>1 DEF stack, file, IInv, StackInv, WaitsBehindWork, OnePlaceEach, InQueue, LogInv, OneFormPerId
  <2>4. finish' = NoFinish
    BY <2>1 DEF IInv, RunInv, Unfinished
  <2>5. FinishClosesStack' /\ Unfinished' /\ running' \in BOOLEAN
    BY <2>2, <2>4, Zenon DEF FinishClosesStack, Unfinished, NoFinish
  <2>6. pending' \in 0 .. MaxBatch
    BY <2>1 DEF BoundsAssumption
  <2> QED BY <2>1, <2>3, <2>5, <2>6 DEF IInv, RunInv, StepsCharged
<1>3. CASE Request
  <2>1. /\ running /\ UNCHANGED <<stack, file, running, finish, runs, faults, base, suspect, childless>>
        /\ requests < RequestLimit /\ requests' = requests + 1 /\ pending' \in 0 .. MaxBatch
        /\ steps' = IF active = 0 THEN steps ELSE [steps EXCEPT ![active] = @ + 1]
    BY <1>3 DEF Request, RequestMade
  <2>2. StackInv' /\ LogInv'
    BY <2>1 DEF stack, file, IInv, StackInv, WaitsBehindWork, OnePlaceEach, InQueue, LogInv, OneFormPerId
  <2>3. finish' = finish /\ running' = running /\ finish = NoFinish
    BY <2>1 DEF IInv, RunInv, Unfinished
  <2>4. FinishClosesStack' /\ Unfinished'
    BY <2>3 DEF FinishClosesStack, Unfinished, NoFinish
  <2>5. requests \in Nat /\ requests' \in 0 .. RequestLimit
    BY <2>1 DEF IInv, RunInv, BoundsAssumption
  <2>6. \A h \in Ids : /\ steps[h] \in Nat /\ steps[h] <= requests
                       /\ steps'[h] = steps[h] \/ steps'[h] = steps[h] + 1
    BY <2>1 DEF IInv, RunInv, StepsCharged
  <2>7. steps' \in [Ids -> Nat]
    <3>1. steps' = [h \in Ids |-> steps'[h]]
      BY <2>1 DEF IInv, RunInv
    <3>2. \A h \in Ids : steps'[h] \in Nat
      BY <2>6
    <3> QED BY <3>1, <3>2
  <2>8. \A h \in Ids : steps'[h] <= requests' /\ steps'[h] <= RequestLimit
    BY <2>1, <2>5, <2>6 DEF BoundsAssumption
  <2>9. steps' \in [Ids -> 0 .. RequestLimit] /\ StepsCharged'
    BY <2>7, <2>8 DEF StepsCharged, BoundsAssumption
  <2>10. pending' \in 0 .. MaxBatch
    BY <2>1 DEF BoundsAssumption
  <2> QED BY <2>1, <2>2, <2>3, <2>4, <2>5, <2>9, <2>10 DEF IInv, RunInv
<1>4. CASE OtherCall
  <2>1. /\ Calling /\ pending' = pending - 1
        /\ UNCHANGED <<stack, file, running, finish, steps, requests, runs, faults, base, suspect, childless>>
    BY <1>4 DEF OtherCall
  <2>2. StackInv' /\ LogInv'
    BY <2>1 DEF stack, file, IInv, StackInv, WaitsBehindWork, OnePlaceEach, InQueue, LogInv, OneFormPerId
  <2>3. finish' = NoFinish
    BY <2>1 DEF IInv, RunInv, Unfinished, Calling
  <2>4. FinishClosesStack' /\ Unfinished'
    BY <2>3 DEF FinishClosesStack, Unfinished, NoFinish
  <2>5. pending' \in 0 .. MaxBatch
    BY <2>1 DEF IInv, RunInv, Calling, BoundsAssumption
  <2> QED BY <2>1, <2>2, <2>4, <2>5 DEF IInv, RunInv, StepsCharged
<1>5. CASE UNCHANGED vars
  <2>1. UNCHANGED <<stack, file, running, finish, steps, requests, pending, runs, faults, base, suspect, childless>>
    BY <1>5 DEF vars, agent
  <2>2. StackInv' /\ LogInv'
    BY <2>1 DEF stack, file, IInv, StackInv, WaitsBehindWork, OnePlaceEach, InQueue, LogInv, OneFormPerId
  <2>3. OpenLine' = OpenLine /\ finish' = finish /\ suspect' = suspect /\ childless' = childless
    BY <2>1 DEF stack, OpenLine
  <2>4. FinishClosesStack'
    BY <2>3, Zenon DEF IInv, RunInv, FinishClosesStack
  <2>5. (running \in BOOLEAN /\ suspect \in BOOLEAN /\ childless \in BOOLEAN)'
    BY <2>1, Zenon DEF IInv, RunInv
  <2> QED BY <2>1, <2>2, <2>4, <2>5 DEF IInv, RunInv, StepsCharged, Unfinished
<1> QED BY <1>1, <1>2, <1>3, <1>4, <1>5

-----------------------------------------------------------------------------
(* The theorems *)

LEMMA InitInvariant == ASSUME BoundsAssumption, Init PROVE IInv
<1>1. /\ seq = 0 /\ active = 0 /\ queued = <<>> /\ outcome = [h \in Ids |-> "unformed"]
      /\ log = <<>> /\ torn = FALSE /\ running = FALSE /\ finish = NoFinish
      /\ steps = [h \in Ids |-> 0] /\ requests = 0 /\ pending = 0 /\ runs = 0
      /\ faults = 0 /\ base = 0 /\ suspect = FALSE /\ childless = FALSE
  BY DEF Init
<1>2. InQueue = {} /\ Len(queued) = 0
  BY <1>1 DEF InQueue
<1>3. StackInv
  BY <1>1, <1>2 DEF StackInv, WaitsBehindWork, OnePlaceEach, BoundsAssumption
<1>4. LogInv
  <2>1. log \in Seq(Line) /\ Len(log) = 0
    BY <1>1
  <2>2. torn \in BOOLEAN
    BY <1>1, Zenon
  <2> QED BY <2>1, <2>2 DEF LogInv, OneFormPerId
<1>5. RunInv
  <2>1. FinishClosesStack /\ Unfinished /\ finish.state = "none" /\ finish.open = <<>>
    BY <1>1 DEF FinishClosesStack, Unfinished, NoFinish
  <2>2. StepsCharged /\ steps \in [Ids -> 0 .. RequestLimit]
    BY <1>1 DEF StepsCharged, BoundsAssumption
  <2>3. running \in BOOLEAN /\ suspect \in BOOLEAN /\ childless \in BOOLEAN
    BY <1>1, Zenon
  <2>4. /\ requests \in 0 .. RequestLimit /\ pending \in 0 .. MaxBatch
        /\ runs \in 0 .. MaxRuns /\ faults \in 0 .. MaxFaults /\ base \in Nat
    BY <1>1 DEF BoundsAssumption
  <2> QED BY <2>1, <2>2, <2>3, <2>4 DEF RunInv
<1> QED BY <1>3, <1>4, <1>5 DEF IInv

LEMMA StepInvariant == ASSUME BoundsAssumption, IInv, [Next]_vars PROVE IInv'
<1>1. CASE Start \/ Die \/ Request \/ OtherCall \/ UNCHANGED vars
  BY <1>1, OtherSteps
<1>2. CASE Form
  BY <1>2, FormStep
<1>3. CASE Resolve("CONFIRMED") \/ Resolve("ABANDONED")
  BY <1>3, ResolveStep
<1>4. CASE PivotRefused
  BY <1>4, PivotRefusedStep
<1>5. CASE Pivot
  BY <1>5, PivotStep
<1>6. CASE BlockedCall
  BY <1>6, BlockedStep
<1>7. CASE Complete
  BY <1>7, CompleteStep
<1>8. CASE UsageLimit
  BY <1>8, UsageLimitStep
<1>9. CASE BlankForm \/ BlankPivot
  BY <1>9, BlankFormStep, BlankPivotStep
<1> QED
  BY <1>1, <1>2, <1>3, <1>4, <1>5, <1>6, <1>7, <1>8, <1>9 DEF Next, AgentStep

THEOREM InvariantHolds == Spec => []IInv
<1>1. Init => IInv
  BY BoundsAssumption, InitInvariant
<1>2. IInv /\ [Next]_vars => IInv'
  BY BoundsAssumption, StepInvariant
<1> QED BY <1>1, <1>2, PTL DEF Spec

\* The state has the shape the code gives it, for all bounds.
THEOREM TypeCorrect == Spec => []TypeOK
<1>1. IInv => TypeOK
  BY DEF IInv, StackInv, LogInv, RunInv, TypeOK, Line
<1> QED BY <1>1, InvariantHolds, PTL

\* _form_locked, _assert_active and the promotions of confirm and abandon never
\* leave a queue behind that nothing is active in front of: only a pivot whose
\* child is refused does.
THEOREM QueueWaitsBehindWork == Spec => []WaitsBehindWork
<1>1. IInv => WaitsBehindWork
  BY DEF IInv, StackInv
<1> QED BY <1>1, InvariantHolds, PTL

\* A hypothesis is active, queued or resolved and never two of them, and the
\* queue keeps the order of formation, through every failed log write.
THEOREM HypothesesHaveOnePlace == Spec => []OnePlaceEach
<1>1. IInv => OnePlaceEach
  BY DEF IInv, StackInv
<1> QED BY <1>1, InvariantHolds, PTL

\* _resume_seq: whatever the log has lost, no id is logged as formed twice.
THEOREM IdsAreLoggedOnce == Spec => []OneFormPerId
<1>1. IInv => OneFormPerId
  BY DEF IInv, LogInv
<1> QED BY <1>1, InvariantHolds, PTL

\* A finish line names all that is left open; a COMPLETED line behind good writes,
\* and every ERROR line, names nothing as long as each pivot has got its child.
THEOREM FinishIsTruthful == Spec => []FinishClosesStack
<1>1. IInv => FinishClosesStack
  BY DEF IInv, RunInv
<1> QED BY <1>1, InvariantHolds, PTL

-----------------------------------------------------------------------------
(* The log as its reader takes it *)

\* What a reader holds after a line: the hypothesis at work, 0 for none, and
\* the ones that wait.
Reading == (Ids \cup {0}) \X Seq(Ids)

Nothing == <<0, <<>> >>

LEMMA ReadsIs ==
    ASSUME NEW before \in Reading, NEW line \in Line
    PROVE  Reads(before, line) \in Reading
<1>1. /\ before[1] \in Ids \cup {0} /\ before[2] \in Seq(Ids)
      /\ line[1] \in Outcomes \cup {"FORM"} /\ line[2] \in Ids
  BY DEF Reading, Line
<1>2. ASSUME NEW a \in Ids \cup {0}, NEW q \in Seq(Ids)
      PROVE  <<a, q>> \in Reading
  BY DEF Reading
<1>3. CASE line[1] = "FORM"
  <2>1. Append(before[2], line[2]) \in Seq(Ids)
    BY <1>1
  <2>2. CASE before[1] = 0
    <3>1. Reads(before, line) = <<line[2], before[2]>>
      BY <1>3, <2>2 DEF Reads
    <3> QED BY <1>1, <1>2, <3>1
  <2>3. CASE before[1] # 0
    <3>1. Reads(before, line) = <<before[1], Append(before[2], line[2])>>
      BY <1>3, <2>3 DEF Reads
    <3> QED BY <1>1, <1>2, <2>1, <3>1, Zenon
  <2> QED BY <2>2, <2>3
<1>4. CASE line[1] = "PIVOTED"
  <2>1. Reads(before, line) = <<0, before[2]>>
    BY <1>4 DEF Reads
  <2> QED BY <1>1, <1>2, <2>1
<1>5. CASE line[1] \notin {"FORM", "PIVOTED"}
  <2>1. CASE before[2] = <<>>
    <3>1. Reads(before, line) = <<0, <<>> >>
      BY <1>5, <2>1 DEF Reads
    <3>2. <<>> \in Seq(Ids) /\ 0 \in Ids \cup {0}
      OBVIOUS
    <3> QED BY <1>2, <3>1, <3>2, Zenon
  <2>2. CASE before[2] # <<>>
    <3>1. Reads(before, line) = <<Head(before[2]), Tail(before[2])>>
      BY <1>5, <2>2 DEF Reads
    <3>2. Head(before[2]) \in Ids \cup {0} /\ Tail(before[2]) \in Seq(Ids)
      BY <1>1, <2>2
    <3> QED BY <1>2, <3>1, <3>2, Zenon
  <2> QED BY <2>1, <2>2
<1> QED BY <1>3, <1>4, <1>5

\* What the reader holds after each line, the lines up to from passed over.
Follows(r, lines, from) ==
    /\ r \in [0 .. Len(lines) -> Reading]
    /\ \A n \in 0 .. Len(lines) :
          r[n] = IF n <= from THEN Nothing ELSE Reads(r[n - 1], lines[n])

LEMMA ReplayedIs ==
    ASSUME NEW lines \in Seq(Line), NEW from \in Nat
    PROVE  \E r : Follows(r, lines, from) /\ Replayed(lines, from) = r[Len(lines)]
<1> DEFINE N == Len(lines)
           step == [x \in (1 .. N) \X Reading |->
                       IF x[1] <= from THEN Nothing ELSE Reads(x[2], lines[x[1]])]
           Walk(g) == g = [n \in 0 .. N |-> IF n <= from THEN <<0, <<>> >>
                                            ELSE Reads(g[n - 1], lines[n])]
<1>1. N \in Nat /\ Nothing \in Reading /\ \A n \in 1 .. N : lines[n] \in Line
  <2>1. <<>> \in Seq(Ids)
    OBVIOUS
  <2>2. N \in Nat /\ \A n \in 1 .. N : lines[n] \in Line
    OBVIOUS
  <2> HIDE DEF N
  <2> QED BY <2>1, <2>2 DEF Nothing, Reading
<1>2. step \in [(1 .. N) \X Reading -> Reading]
  <2>1. ASSUME NEW x \in (1 .. N) \X Reading
        PROVE  (IF x[1] <= from THEN Nothing ELSE Reads(x[2], lines[x[1]])) \in Reading
    <3>1. x[2] \in Reading /\ lines[x[1]] \in Line
      BY <1>1
    <3>2. Reads(x[2], lines[x[1]]) \in Reading
      BY <3>1, ReadsIs
    <3> QED BY <1>1, <3>2
  <2> QED BY <2>1
<1>3. PICK g \in [0 .. N -> Reading] : Iterates(g, N, Nothing, step)
  <2> HIDE DEF N, step
  <2> QED BY <1>1, <1>2, RecursionExists
<1>4. ASSUME NEW n \in 1 .. N
      PROVE  g[n] = IF n <= from THEN Nothing ELSE Reads(g[n - 1], lines[n])
  <2>1. n - 1 \in 0 .. N /\ <<n, g[n - 1]>> \in (1 .. N) \X Reading
    BY <1>1
  <2>2. step[<<n, g[n - 1]>>] = IF n <= from THEN Nothing ELSE Reads(g[n - 1], lines[n])
    BY <2>1
  <2> HIDE DEF step
  <2> QED BY <1>3, <2>2 DEF Iterates
<1>5. g[0] = Nothing /\ 0 <= from
  BY <1>3 DEF Iterates
<1>6. \A n \in 0 .. N : g[n] = IF n <= from THEN <<0, <<>> >> ELSE Reads(g[n - 1], lines[n])
  <2> HIDE DEF step
  <2> TAKE n \in 0 .. N
  <2>1. CASE n = 0
    BY <1>5, <2>1 DEF Nothing
  <2>2. CASE n # 0
    <3>1. n \in 1 .. N
      BY <1>1, <2>2
    <3> HIDE DEF N
    <3> QED BY <1>4, <3>1 DEF Nothing
  <2> QED BY <2>1, <2>2
<1>7. Walk(g)
  <2> HIDE DEF step
  <2> QED BY <1>3, <1>6
<1>8. Replayed(lines, from) = (CHOOSE h : Walk(h))[N]
  BY DEF Replayed
<1> DEFINE r == CHOOSE h : Walk(h)
<1>9. Walk(r)
  <2> HIDE DEF Walk
  <2> QED BY <1>7
<1>10. \A n \in 0 .. N : r[n] = IF n <= from THEN Nothing ELSE Reads(r[n - 1], lines[n])
  <2> HIDE DEF r, step
  <2> QED BY <1>9 DEF Nothing
<1>11. r \in [0 .. N -> Reading]
  <2> DEFINE Typed == {n \in 0 .. N : r[n] \in Reading}
  <2> HIDE DEF r, step
  <2>1. 0 \in Typed
    BY <1>1, <1>10
  <2>2. ASSUME NEW n \in 0 .. N, n \in Typed, n < N PROVE n + 1 \in Typed
    <3>1. n + 1 \in 0 .. N /\ (n + 1) - 1 = n /\ lines[n + 1] \in Line /\ r[n] \in Reading
      BY <1>1, <2>2
    <3>2. Reads(r[n], lines[n + 1]) \in Reading
      BY <3>1, ReadsIs
    <3>3. r[n + 1] = IF n + 1 <= from THEN Nothing ELSE Reads(r[n], lines[n + 1])
      BY <1>10, <3>1
    <3> HIDE DEF N
    <3> QED BY <1>1, <3>1, <3>2, <3>3
  <2>3. 0 .. N \subseteq Typed
    <3> HIDE DEF Typed, N
    <3> QED BY <1>1, <2>1, <2>2, IntervalInduction
  <2> QED BY <1>9, <2>3
<1> HIDE DEF r
<1> QED BY <1>8, <1>10, <1>11 DEF Follows, r

\* There is one such reading of the lines.
LEMMA FollowsOnce ==
    ASSUME NEW l \in Seq(Line), NEW m \in Seq(Line), NEW from \in Nat, NEW r, NEW s,
           Follows(r, l, from), Follows(s, m, from),
           Len(l) <= Len(m), \A n \in 1 .. Len(l) : l[n] = m[n]
    PROVE  r[Len(l)] = s[Len(l)]
<1> DEFINE N == Len(l)
           Same == {n \in 0 .. N : r[n] = s[n]}
<1>1. N \in Nat /\ 0 .. N \subseteq 0 .. Len(m)
  OBVIOUS
<1>2. 0 \in Same
  BY <1>1 DEF Follows
<1>3. ASSUME NEW n \in 0 .. N, n \in Same, n < N PROVE n + 1 \in Same
  <2>1. n + 1 \in 0 .. N /\ n + 1 \in 1 .. N /\ (n + 1) - 1 = n /\ n + 1 \in 0 .. Len(m)
    BY <1>1, <1>3
  <2>2. /\ r[n + 1] = IF n + 1 <= from THEN Nothing ELSE Reads(r[n], l[n + 1])
        /\ s[n + 1] = IF n + 1 <= from THEN Nothing ELSE Reads(s[n], m[n + 1])
    BY <2>1 DEF Follows
  <2>3. r[n] = s[n] /\ l[n + 1] = m[n + 1]
    BY <1>3, <2>1
  <2> QED BY <2>1, <2>2, <2>3
<1>4. 0 .. N \subseteq Same
  <2> HIDE DEF N, Same
  <2> QED BY <1>1, <1>2, <1>3, IntervalInduction
<1> QED BY <1>1, <1>4

\* The next line is read on top of the ones before it.
LEMMA ReplayedAppends ==
    ASSUME NEW l \in Seq(Line), NEW line \in Line, NEW from \in Nat, from <= Len(l)
    PROVE  /\ Replayed(l, from) \in Reading
           /\ Replayed(Append(l, line), from) = Reads(Replayed(l, from), line)
<1> DEFINE m == Append(l, line)
<1>1. /\ m \in Seq(Line) /\ Len(m) = Len(l) + 1 /\ m[Len(m)] = line /\ Len(l) \in Nat
      /\ \A n \in 1 .. Len(l) : m[n] = l[n]
  OBVIOUS
<1> HIDE DEF m
<1>2. PICK r : Follows(r, l, from) /\ Replayed(l, from) = r[Len(l)]
  BY ReplayedIs
<1>3. PICK s : Follows(s, m, from) /\ Replayed(m, from) = s[Len(m)]
  BY <1>1, ReplayedIs
<1>4. r[Len(l)] = s[Len(l)]
  BY <1>1, <1>2, <1>3, FollowsOnce
<1>5. s[Len(m)] = Reads(s[Len(l)], line)
  BY <1>1, <1>3 DEF Follows
<1>6. r[Len(l)] \in Reading
  BY <1>1, <1>2 DEF Follows
<1> QED BY <1>2, <1>3, <1>4, <1>5, <1>6 DEF m

LEMMA NothingReplayed ==
    ASSUME NEW l \in Seq(Line)
    PROVE  Replayed(l, Len(l)) = Nothing
<1>1. Len(l) \in Nat
  OBVIOUS
<1>2. PICK r : Follows(r, l, Len(l)) /\ Replayed(l, Len(l)) = r[Len(l)]
  BY <1>1, ReplayedIs
<1> QED BY <1>1, <1>2 DEF Follows

\* The lines behind from say what the reader holds and how each hypothesis ended.
Explains(lines, from, held, out) ==
    /\ from <= Len(lines) /\ Replayed(lines, from) = held
    /\ \A h \in Ids, o \in Outcomes :
          out[h] = o <=> \E n \in from + 1 .. Len(lines) : lines[n] = <<o, h>>

\* A line more is explained too, when it resolves what was not resolved.
LEMMA NextExplained ==
    ASSUME NEW lines \in Seq(Line), NEW from \in Nat, NEW held, NEW out,
           Explains(lines, from, held, out), NEW line \in Line, NEW after,
           \/ line[1] = "FORM" /\ after = out
           \/ /\ line[1] # "FORM" /\ out[line[2]] = "unformed"
              /\ after = [h \in Ids |-> IF h = line[2] THEN line[1] ELSE out[h]]
    PROVE  Explains(Append(lines, line), from, Reads(held, line), after)
<1> DEFINE more == Append(lines, line)
<1>1. /\ Len(lines) \in Nat /\ from <= Len(lines) /\ Len(more) = Len(lines) + 1
      /\ more[Len(lines) + 1] = line
      /\ \A n \in from + 1 .. Len(lines) : more[n] = lines[n]
  BY DEF Explains
<1>2. Replayed(more, from) = Reads(held, line)
  BY ReplayedAppends DEF Explains
<1>3. from <= Len(more)
  BY <1>1
<1> HIDE DEF more
<1>4. ASSUME NEW h \in Ids, NEW o \in Outcomes
      PROVE  after[h] = o <=> \E n \in from + 1 .. Len(more) : more[n] = <<o, h>>
  <2>1. (\E n \in from + 1 .. Len(more) : more[n] = <<o, h>>)
           <=> line = <<o, h>> \/ \E n \in from + 1 .. Len(lines) : lines[n] = <<o, h>>
    <3>1. from + 1 .. Len(more) = (from + 1 .. Len(lines)) \cup {Len(lines) + 1}
      BY <1>1
    <3> QED BY <1>1, <3>1
  <2>2. out[h] = o <=> \E n \in from + 1 .. Len(lines) : lines[n] = <<o, h>>
    BY DEF Explains
  <2>3. line = <<line[1], line[2]>> /\ o # "FORM" /\ o # "unformed"
    BY DEF Line, Outcomes
  <2>4. line = <<o, h>> <=> line[1] = o /\ line[2] = h
    BY <2>3
  <2>5. after[h] = o <=> line = <<o, h>> \/ out[h] = o
    <3>1. CASE line[1] = "FORM" /\ after = out
      BY <2>3, <2>4, <3>1
    <3>2. CASE /\ line[1] # "FORM" /\ out[line[2]] = "unformed"
               /\ after = [g \in Ids |-> IF g = line[2] THEN line[1] ELSE out[g]]
      <4>1. CASE h = line[2]
        BY <2>3, <2>4, <3>2, <4>1
      <4>2. CASE h # line[2]
        BY <2>4, <3>2, <4>2
      <4> QED BY <4>1, <4>2
    <3> QED BY <3>1, <3>2
  <2> QED BY <2>1, <2>2, <2>5
<1> QED BY <1>2, <1>3, <1>4 DEF Explains, more

\* The lines say how each hypothesis ended and, if exact, what the reader holds.
Tells(lines, from, held, out, exact) ==
    /\ Explains(lines, from, Replayed(lines, from), out)
    /\ exact => Replayed(lines, from) = held

LEMMA NextTold ==
    ASSUME NEW lines \in Seq(Line), NEW from \in Nat, NEW held, NEW out, NEW exact,
           Tells(lines, from, held, out, exact), NEW line \in Line, NEW after, NEW holds, NEW still,
           still => exact /\ Reads(held, line) = holds,
           \/ line[1] = "FORM" /\ after = out
           \/ /\ line[1] # "FORM" /\ out[line[2]] = "unformed"
              /\ after = [h \in Ids |-> IF h = line[2] THEN line[1] ELSE out[h]]
    PROVE  Tells(Append(lines, line), from, holds, after, still)
<1> DEFINE more == Append(lines, line)
           was == Replayed(lines, from)
<1>1. Explains(lines, from, was, out)
  BY DEF Tells
<1> HIDE DEF was
<1>2. Explains(more, from, Reads(was, line), after)
  BY <1>1, NextExplained
<1> HIDE DEF more
<1>3. Replayed(more, from) = Reads(was, line)
  BY <1>2 DEF Explains
<1>4. still => Replayed(more, from) = holds
  <2>1. exact => was = held
    BY DEF Tells, was
  <2> QED BY <1>3, <2>1
<1>5. Tells(more, from, holds, after, still)
  BY <1>2, <1>3, <1>4 DEF Tells
<1> QED BY <1>5 DEF more

\* While no line has been lost, the log explains the stack, its last line is
\* whole, and it tells what is held as long as each pivot has got its child.
LogTells == ~suspect => ~torn /\ Tells(log, base, <<active, queued>>, outcome, ~childless)

LEMMA WroteOk ==
    ASSUME NEW l, NEW line
    PROVE  Wrote(<<l, FALSE>>, "ok", line) = <<Append(l, line), FALSE>>
  BY DEF Wrote

\* The stack is explained when a line was written and its effect is that line's.
LEMMA LineTells ==
    ASSUME BoundsAssumption, IInv, LogTells, NEW w \in Writes, NEW line \in Line, Fault(w),
           log' = Wrote(file, w, line)[1], torn' = Wrote(file, w, line)[2], base' = base,
           w = "ok" => /\ ~childless' => /\ ~childless
                                         /\ <<active', queued'>> = Reads(<<active, queued>>, line)
                       /\ \/ line[1] = "FORM" /\ outcome' = outcome
                          \/ /\ line[1] # "FORM" /\ outcome[line[2]] = "unformed"
                             /\ outcome' = [h \in Ids |-> IF h = line[2] THEN line[1]
                                                          ELSE outcome[h]]
    PROVE  LogTells'
<1>1. CASE w # "ok"
  <2>1. suspect' = TRUE
    BY <1>1, FaultKeepsBounds
  <2> QED BY <2>1 DEF LogTells
<1>2. CASE w = "ok"
  <2> SUFFICES ASSUME ~suspect'
               PROVE  ~torn' /\ Tells(log', base', <<active', queued'>>, outcome', ~childless')
    BY DEF LogTells
  <2>1. suspect' = suspect
    BY <1>2 DEF Fault
  <2>2. ~torn /\ Tells(log, base, <<active, queued>>, outcome, ~childless)
    BY <2>1, Zenon DEF LogTells
  <2>3. torn = FALSE /\ log \in Seq(Line) /\ base \in Nat
    BY <2>2, Zenon DEF IInv, LogInv, RunInv
  <2>4. Wrote(file, w, line) = <<Append(log, line), FALSE>>
    BY <1>2, <2>3, WroteOk DEF file
  <2>5. log' = Append(log, line) /\ torn' = FALSE
    BY <2>4
  <2> DEFINE held == <<active, queued>>
             holds == <<active', queued'>>
             exact == ~childless
             still == ~childless'
  <2>6. Tells(log, base, held, outcome, exact) /\ (still => exact /\ Reads(held, line) = holds)
    BY <1>2, <2>2, Zenon
  <2>7. \/ line[1] = "FORM" /\ outcome' = outcome
        \/ /\ line[1] # "FORM" /\ outcome[line[2]] = "unformed"
           /\ outcome' = [h \in Ids |-> IF h = line[2] THEN line[1] ELSE outcome[h]]
    BY <1>2
  <2> HIDE DEF held, holds, exact, still
  <2>8. Tells(Append(log, line), base, holds, outcome', still)
    BY <2>3, <2>6, <2>7, NextTold
  <2> QED BY <2>5, <2>8, Zenon DEF holds, still
<1> QED BY <1>1, <1>2

\* Of the active hypothesis nothing has been decided.
LEMMA ActiveIsOpen ==
    ASSUME BoundsAssumption, IInv, active # 0
    PROVE  /\ active \in Ids /\ outcome[active] = "unformed"
           /\ outcome \in [Ids -> Outcomes \cup {"unformed"}]
<1>1. active \in Ids
  BY DEF IInv, StackInv, Ids
<1>2. outcome[active] = "unformed"
  BY DEF IInv, StackInv, OnePlaceEach
<1> QED BY <1>1, <1>2 DEF IInv, StackInv

LEMMA FormTells ==
    ASSUME BoundsAssumption, IInv, LogTells, Form
    PROVE  LogTells'
<1> DEFINE line == <<"FORM", seq + 1>>
<1>1. PICK w \in Writes :
        /\ Calling /\ seq + 1 \in Ids
        /\ active' = Placed(seq + 1, FALSE)[1] /\ queued' = Placed(seq + 1, FALSE)[2]
        /\ outcome' = outcome
        /\ log' = Wrote(file, w, line)[1] /\ torn' = Wrote(file, w, line)[2]
        /\ Fault(w) /\ CallEnds(w)
  BY DEF Form
<1>2. line \in Line /\ line[1] = "FORM"
  BY <1>1 DEF Line
<1>3. ~childless => <<active', queued'>> = Reads(<<active, queued>>, line)
  <2>1. Reads(<<active, queued>>, line) = IF active = 0 THEN <<seq + 1, queued>>
                                          ELSE <<active, Append(queued, seq + 1)>>
    BY DEF Reads
  <2>2. ~childless /\ active = 0 => queued = <<>>
    BY DEF IInv, StackInv, WaitsBehindWork
  <2> QED BY <1>1, <2>1, <2>2, PlacedIs DEF IInv
<1>4. base' = base /\ childless' = childless
  BY <1>1 DEF CallEnds
<1> HIDE DEF line
<1> QED BY <1>1, <1>2, <1>3, <1>4, LineTells

LEMMA ResolveTells ==
    ASSUME BoundsAssumption, IInv, LogTells,
           NEW o \in {"CONFIRMED", "ABANDONED"}, Resolve(o)
    PROVE  LogTells'
<1> DEFINE line == <<o, active>>
<1>1. PICK w \in Writes :
        /\ Calling /\ active # 0
        /\ log' = Wrote(file, w, line)[1] /\ torn' = Wrote(file, w, line)[2]
        /\ w = "ok" => /\ active' = Promotion[1] /\ queued' = Promotion[2]
                       /\ outcome' = [outcome EXCEPT ![active] = o]
        /\ Fault(w) /\ CallEnds(w)
  BY DEF Resolve
<1>2. /\ active \in Ids /\ outcome[active] = "unformed"
      /\ outcome \in [Ids -> Outcomes \cup {"unformed"}]
  BY <1>1, ActiveIsOpen
<1>3. line \in Line /\ line[1] = o /\ line[1] # "FORM" /\ line[2] = active
  BY <1>2 DEF Line, Outcomes
<1>4. Promotion = Reads(<<active, queued>>, line)
  <2>1. Reads(<<active, queued>>, line) = IF queued = <<>> THEN <<0, <<>> >>
                                          ELSE <<Head(queued), Tail(queued)>>
    BY DEF Reads
  <2> QED BY <2>1 DEF Promotion
<1>5. Promotion = <<Promotion[1], Promotion[2]>>
  BY DEF Promotion
<1>6. base' = base /\ childless' = childless
  BY <1>1 DEF CallEnds
<1>7. w = "ok" => outcome' = [h \in Ids |-> IF h = line[2] THEN line[1] ELSE outcome[h]]
  BY <1>1, <1>2, <1>3
<1> HIDE DEF line
<1> QED BY <1>1, <1>2, <1>3, <1>4, <1>5, <1>6, <1>7, LineTells

LEMMA PivotRefusedTells ==
    ASSUME BoundsAssumption, IInv, PivotRefused
    PROVE  LogTells'
<1>1. PICK w \in Writes : w # "ok" /\ Fault(w)
  BY DEF PivotRefused
<1> QED BY <1>1, FaultKeepsBounds DEF LogTells

\* The two lines of a pivot: the parent's outcome, then the child.
LEMMA PivotTells ==
    ASSUME BoundsAssumption, IInv, LogTells, Pivot
    PROVE  LogTells'
<1> DEFINE parent == <<"PIVOTED", active>>
           child == <<"FORM", seq + 1>>
           between == [h \in Ids |-> IF h = active THEN "PIVOTED" ELSE outcome[h]]
<1>1. PICK w \in Writes :
        /\ Calling /\ active # 0 /\ seq + 1 \in Ids
        /\ log' = Wrote(Wrote(file, "ok", parent), w, child)[1]
        /\ torn' = Wrote(Wrote(file, "ok", parent), w, child)[2]
        /\ active' = Placed(seq + 1, TRUE)[1] /\ queued' = Placed(seq + 1, TRUE)[2]
        /\ outcome' = [outcome EXCEPT ![active] = "PIVOTED"]
        /\ Fault(w) /\ CallEnds(w)
  BY DEF Pivot
<1>2. CASE w # "ok"
  BY <1>1, <1>2, FaultKeepsBounds DEF LogTells
<1>3. CASE w = "ok"
  <2> SUFFICES ASSUME ~suspect'
               PROVE  ~torn' /\ Tells(log', base', <<active', queued'>>, outcome', ~childless')
    BY DEF LogTells
  <2>1. suspect' = suspect /\ base' = base /\ childless' = childless
    BY <1>1, <1>3 DEF Fault, CallEnds
  <2>2. ~torn /\ Tells(log, base, <<active, queued>>, outcome, ~childless)
    BY <2>1, Zenon DEF LogTells
  <2>3. torn = FALSE /\ log \in Seq(Line) /\ base \in Nat
    BY <2>2, Zenon DEF IInv, LogInv, RunInv
  <2>4. /\ active \in Ids /\ outcome[active] = "unformed"
        /\ outcome \in [Ids -> Outcomes \cup {"unformed"}]
    BY <1>1, ActiveIsOpen
  <2>5. /\ parent \in Line /\ parent[1] = "PIVOTED" /\ parent[2] = active
        /\ child \in Line /\ child[1] = "FORM"
    BY <1>1, <2>4 DEF Line, Outcomes
  <2>6. outcome' = between
    BY <1>1, <2>4
  <2> HIDE DEF parent, child, between
  <2>7. Wrote(file, "ok", parent) = <<Append(log, parent), FALSE>>
    BY <2>3, WroteOk DEF file
  <2>8. log' = Append(Append(log, parent), child) /\ torn' = FALSE
    <3>1. Wrote(<<Append(log, parent), FALSE>>, w, child)
             = <<Append(Append(log, parent), child), FALSE>>
      BY <1>3, WroteOk
    <3>2. log' = Wrote(<<Append(log, parent), FALSE>>, w, child)[1]
          /\ torn' = Wrote(<<Append(log, parent), FALSE>>, w, child)[2]
      BY <1>1, <2>7, Zenon
    <3> DEFINE lines == Append(Append(log, parent), child)
    <3> HIDE DEF lines
    <3>3. log' = <<lines, FALSE>>[1] /\ torn' = <<lines, FALSE>>[2]
      BY <3>1, <3>2, Zenon DEF lines
    <3>4. log' = lines /\ torn' = FALSE
      BY <3>3
    <3> QED BY <3>4 DEF lines
  <2>9. Append(log, parent) \in Seq(Line)
    BY <2>3, <2>5
  <2> DEFINE exact == ~childless
             held == <<active, queued>>
             mid == <<0, queued>>
             holds == <<active', queued'>>
  <2>10. Tells(log, base, held, outcome, exact)
    BY <2>2
  <2>11. Reads(held, parent) = mid
    BY DEF parent, Reads
  <2>12. Reads(mid, child) = holds
    <3>1. Reads(mid, child) = <<seq + 1, queued>>
      BY DEF child, Reads
    <3> QED BY <1>1, <3>1, PlacedIs DEF IInv
  <2>13. between = [h \in Ids |-> IF h = parent[2] THEN parent[1] ELSE outcome[h]]
    BY <2>5 DEF between
  <2> HIDE DEF exact, held, mid, holds
  <2>14. Tells(Append(log, parent), base, mid, between, exact)
    BY <2>3, <2>4, <2>5, <2>10, <2>11, <2>13, NextTold
  <2>15. Tells(Append(Append(log, parent), child), base, holds, between, exact)
    BY <2>3, <2>5, <2>9, <2>12, <2>14, NextTold
  <2> QED BY <2>1, <2>6, <2>8, <2>15, Zenon DEF holds, exact
<1> QED BY <1>2, <1>3

\* The line of a pivot that is left without its child.
LEMMA BlankPivotTells ==
    ASSUME BoundsAssumption, IInv, LogTells, BlankPivot
    PROVE  LogTells'
<1> DEFINE line == <<"PIVOTED", active>>
<1>1. /\ active # 0 /\ childless' = TRUE /\ UNCHANGED <<faults, base, suspect>>
      /\ log' = Wrote(file, "ok", line)[1] /\ torn' = Wrote(file, "ok", line)[2]
      /\ outcome' = [outcome EXCEPT ![active] = "PIVOTED"]
  BY DEF BlankPivot
<1>2. /\ active \in Ids /\ outcome[active] = "unformed"
      /\ outcome \in [Ids -> Outcomes \cup {"unformed"}]
  BY <1>1, ActiveIsOpen
<1>3. line \in Line /\ line[1] = "PIVOTED" /\ line[1] # "FORM" /\ line[2] = active
  BY <1>2 DEF Line, Outcomes
<1>4. outcome' = [h \in Ids |-> IF h = line[2] THEN line[1] ELSE outcome[h]]
  BY <1>1, <1>2, <1>3
<1>5. Fault("ok") /\ "ok" \in Writes
  BY <1>1 DEF Fault, Writes
<1> HIDE DEF line
<1> QED BY <1>1, <1>2, <1>3, <1>4, <1>5, LineTells

LEMMA UsageLimitTells ==
    ASSUME BoundsAssumption, IInv, LogTells, UsageLimit
    PROVE  LogTells'
<1>1. CASE active = 0
  <2>1. UNCHANGED <<active, queued, outcome, file, suspect, base, childless>>
    BY <1>1 DEF UsageLimit, Finished
  <2> QED BY <2>1 DEF LogTells, file
<1>2. CASE active # 0
  <2> DEFINE line == <<"ABANDONED", active>>
  <2>1. PICK w \in Writes :
          /\ log' = Wrote(file, w, line)[1] /\ torn' = Wrote(file, w, line)[2]
          /\ w = "ok" => CloseFirst(1)
          /\ Fault(w) /\ base' = base /\ childless' = childless
    BY <1>2 DEF UsageLimit, Finished
  <2>2. /\ active \in Ids /\ outcome[active] = "unformed"
        /\ outcome \in [Ids -> Outcomes \cup {"unformed"}]
    BY <1>2, ActiveIsOpen
  <2>3. line \in Line /\ line[1] = "ABANDONED" /\ line[1] # "FORM" /\ line[2] = active
    BY <2>2 DEF Line, Outcomes
  <2>4. SubSeq(OpenLine, 1 + 1, Len(OpenLine)) = queued /\ OpenLine[1] = active
    BY <1>2, OpenTail, OpenLineIs DEF IInv
  <2>5. ASSUME CloseFirst(1)
        PROVE  /\ active' = (IF queued = <<>> THEN 0 ELSE Head(queued))
               /\ queued' = (IF queued = <<>> THEN <<>> ELSE Tail(queued))
               /\ outcome' = [h \in Ids |-> IF h = active THEN "ABANDONED" ELSE outcome[h]]
    <3>1. {OpenLine[i] : i \in 1 .. 1} = {active}
      BY <2>4
    <3>2. outcome' = [h \in Ids |-> IF h \in {active} THEN "ABANDONED" ELSE outcome[h]]
      BY <2>5, <3>1 DEF CloseFirst
    <3>3. outcome' = [h \in Ids |-> IF h = active THEN "ABANDONED" ELSE outcome[h]]
      BY <3>2
    <3> QED BY <2>4, <2>5, <3>3 DEF CloseFirst
  <2>6. Reads(<<active, queued>>, line) = IF queued = <<>> THEN <<0, <<>> >>
                                          ELSE <<Head(queued), Tail(queued)>>
    BY DEF Reads
  <2>7. CloseFirst(1) => <<active', queued'>> = Reads(<<active, queued>>, line)
    BY <2>5, <2>6
  <2>8. CloseFirst(1) => outcome' = [h \in Ids |-> IF h = line[2] THEN line[1] ELSE outcome[h]]
    BY <2>3, <2>5
  <2> HIDE DEF line
  <2> QED BY <2>1, <2>2, <2>3, <2>7, <2>8, LineTells
<1> QED BY <1>1, <1>2

\* What a reader holds, and knows, when the first k of the line are closed.
HeldBehind(k) == IF k = Len(OpenLine) THEN Nothing
                 ELSE <<OpenLine[k + 1], SubSeq(OpenLine, k + 2, Len(OpenLine))>>
ClosedUpTo(k) == [h \in Ids |-> IF \E i \in 1 .. k : h = OpenLine[i] THEN "ABANDONED"
                                ELSE outcome[h]]

\* What is left of a sequence behind its first m elements.
LEMMA BehindIs ==
    ASSUME NEW S, NEW s \in Seq(S), NEW m \in 0 .. Len(s)
    PROVE  /\ SubSeq(s, m + 1, Len(s)) \in Seq(S)
           /\ Len(SubSeq(s, m + 1, Len(s))) = Len(s) - m
           /\ \A i \in 1 .. Len(s) - m : SubSeq(s, m + 1, Len(s))[i] = s[i + m]
<1>1. Len(s) \in Nat /\ m \in Nat /\ m <= Len(s)
  OBVIOUS
<1> QED BY <1>1

LEMMA BehindNext ==
    ASSUME NEW S, NEW s \in Seq(S), NEW m \in 0 .. Len(s), m < Len(s)
    PROVE  /\ SubSeq(s, m + 1, Len(s)) # <<>>
           /\ Head(SubSeq(s, m + 1, Len(s))) = s[m + 1]
           /\ Tail(SubSeq(s, m + 1, Len(s))) = SubSeq(s, m + 2, Len(s))
<1> DEFINE r == SubSeq(s, m + 1, Len(s))
           t == SubSeq(s, m + 2, Len(s))
<1>1. Len(s) \in Nat /\ m \in Nat /\ m + 1 \in 0 .. Len(s) /\ (m + 1) + 1 = m + 2
  OBVIOUS
<1>2. r \in Seq(S) /\ Len(r) = Len(s) - m /\ \A i \in 1 .. Len(s) - m : r[i] = s[i + m]
  BY BehindIs
<1>3. SubSeq(s, (m + 1) + 1, Len(s)) = t
  BY <1>1
<1>4. /\ SubSeq(s, (m + 1) + 1, Len(s)) \in Seq(S)
      /\ Len(SubSeq(s, (m + 1) + 1, Len(s))) = Len(s) - (m + 1)
      /\ \A i \in 1 .. Len(s) - (m + 1) : SubSeq(s, (m + 1) + 1, Len(s))[i] = s[i + (m + 1)]
  BY <1>1, BehindIs
<1>5. t \in Seq(S) /\ Len(t) = Len(s) - (m + 1)
      /\ \A i \in 1 .. Len(s) - (m + 1) : t[i] = s[i + (m + 1)]
  BY <1>3, <1>4
<1> HIDE DEF r, t
<1>6. r # <<>> /\ Head(r) = s[m + 1] /\ Len(r) >= 1
  BY <1>1, <1>2
<1>7. /\ Tail(r) \in Seq(S) /\ Len(Tail(r)) = Len(r) - 1
      /\ \A i \in 1 .. Len(Tail(r)) : Tail(r)[i] = r[i + 1]
  BY <1>2, <1>6
<1>8. ASSUME NEW i \in 1 .. Len(t)
      PROVE  Tail(r)[i] = t[i]
  <2>1. /\ i \in 1 .. Len(s) - (m + 1) /\ i \in 1 .. Len(Tail(r))
        /\ i + 1 \in 1 .. Len(s) - m /\ (i + 1) + m = i + (m + 1)
    BY <1>1, <1>2, <1>5, <1>7
  <2> QED BY <1>2, <1>5, <1>7, <2>1
<1>9. Tail(r) = t
  <2>1. Len(Tail(r)) = Len(t) /\ Len(t) \in Nat
    BY <1>1, <1>2, <1>5, <1>7
  <2>2. Tail(r) \in Seq(S) /\ t \in Seq(S)
    BY <1>5, <1>7
  <2> QED BY <1>8, <2>1, <2>2, SeqEqual
<1> QED BY <1>6, <1>9 DEF r, t

\* The next in the line is closed by its line in the log.
LEMMA HeldNext ==
    ASSUME BoundsAssumption, StackInv, active # 0, NEW k \in 0 .. Len(OpenLine), k < Len(OpenLine)
    PROVE  /\ Reads(HeldBehind(k), <<"ABANDONED", OpenLine[k + 1]>>) = HeldBehind(k + 1)
           /\ OpenLine[k + 1] \in Ids
<1> DEFINE n == Len(OpenLine)
           behind == SubSeq(OpenLine, k + 2, n)
           line == <<"ABANDONED", OpenLine[k + 1]>>
<1>1. active # 0 /\ OpenLine \in Seq(Ids) /\ n \in Nat
  BY OpenLineIs
<1>2. /\ k \in Nat /\ k + 1 \in 0 .. n /\ k + 1 <= n /\ k # n
      /\ (k + 1) + 1 = k + 2
  BY <1>1
<1>3. Reads(<<OpenLine[k + 1], behind>>, line)
        = IF behind = <<>> THEN <<0, <<>> >> ELSE <<Head(behind), Tail(behind)>>
  BY DEF Reads
<1>4. HeldBehind(k) = <<OpenLine[k + 1], behind>>
  BY <1>2, Zenon DEF HeldBehind
<1>5. CASE k + 1 = n
  <2>1. behind = <<>>
    BY <1>1, <1>2, <1>5
  <2>2. HeldBehind(k + 1) = <<0, <<>> >>
    BY <1>5 DEF HeldBehind, Nothing
  <2>3. OpenLine[k + 1] \in Ids
    BY <1>1, <1>2, <1>5
  <2> HIDE DEF behind, n, line
  <2>4. Reads(<<OpenLine[k + 1], behind>>, line) = <<0, <<>> >>
    BY <1>3, <2>1
  <2>5. Reads(HeldBehind(k), line) = HeldBehind(k + 1)
    BY <1>4, <2>2, <2>4
  <2> QED BY <2>3, <2>5 DEF line
<1>6. CASE k + 1 # n
  <2>1. /\ SubSeq(OpenLine, (k + 1) + 1, n) # <<>>
        /\ Head(SubSeq(OpenLine, (k + 1) + 1, n)) = OpenLine[(k + 1) + 1]
        /\ Tail(SubSeq(OpenLine, (k + 1) + 1, n)) = SubSeq(OpenLine, (k + 1) + 2, n)
    <3>1. k + 1 < n
      BY <1>1, <1>2, <1>6
    <3> DEFINE m == k + 1
    <3>2. m \in 0 .. n /\ m < n
      BY <1>2, <3>1
    <3> HIDE DEF m
    <3>3. /\ SubSeq(OpenLine, m + 1, n) # <<>>
          /\ Head(SubSeq(OpenLine, m + 1, n)) = OpenLine[m + 1]
          /\ Tail(SubSeq(OpenLine, m + 1, n)) = SubSeq(OpenLine, m + 2, n)
      BY <1>1, <3>2, BehindNext
    <3> QED BY <3>3 DEF m
  <2>2. /\ behind # <<>> /\ Head(behind) = OpenLine[(k + 1) + 1]
        /\ Tail(behind) = SubSeq(OpenLine, (k + 1) + 2, n)
    BY <1>2, <2>1
  <2>3. HeldBehind(k + 1) = <<OpenLine[(k + 1) + 1], SubSeq(OpenLine, (k + 1) + 2, n)>>
    BY <1>6 DEF HeldBehind
  <2> HIDE DEF behind, n, line
  <2>4. Reads(<<OpenLine[k + 1], behind>>, line) = <<Head(behind), Tail(behind)>>
    BY <1>3, <2>2
  <2>5. Reads(HeldBehind(k), line) = HeldBehind(k + 1)
    BY <1>4, <2>2, <2>3, <2>4
  <2>6. OpenLine[k + 1] \in Ids
    BY <1>1, <1>2 DEF n
  <2> QED BY <2>5, <2>6 DEF line
<1> QED BY <1>5, <1>6

\* The hypotheses of the line are different ones, and none is decided.
LEMMA LineIsOpen ==
    ASSUME BoundsAssumption, IInv, active # 0, NEW k \in 0 .. Len(OpenLine),
           k < Len(OpenLine)
    PROVE  /\ outcome[OpenLine[k + 1]] = "unformed"
           /\ \A i \in 1 .. k : OpenLine[i] # OpenLine[k + 1]
<1>1. active # 0
  OBVIOUS
<1>2. /\ OpenLine \in Seq(Ids) /\ Len(OpenLine) = Len(queued) + 1 /\ Len(queued) \in Nat
      /\ OpenLine[1] = active /\ queued \in Seq(Ids)
      /\ \A i \in 1 .. Len(queued) : OpenLine[i + 1] = queued[i]
  BY <1>1, OpenLineIs DEF IInv, StackInv
<1>3. OnePlaceEach
  BY DEF IInv, StackInv
<1>4. ASSUME NEW i \in 1 .. Len(queued)
      PROVE  queued[i] \in Ids /\ queued[i] # active /\ outcome[queued[i]] = "unformed"
  <2>1. queued[i] \in Ids
    BY <1>2
  <2>2. queued[i] \in InQueue /\ queued[i] # 0
    BY <2>1 DEF InQueue, Ids
  <2> QED BY <1>3, <2>1, <2>2 DEF OnePlaceEach
<1>5. CASE k = 0
  <2>1. OpenLine[k + 1] = active
    BY <1>2, <1>5
  <2> QED BY <1>1, <1>5, <2>1, ActiveIsOpen
<1>6. CASE k # 0
  <2>1. k \in 1 .. Len(queued) /\ OpenLine[k + 1] = queued[k]
    BY <1>2, <1>6
  <2>2. ASSUME NEW i \in 1 .. k
        PROVE  OpenLine[i] # OpenLine[k + 1]
    <3>1. CASE i = 1
      <4>1. OpenLine[i] = active
        BY <1>2, <3>1
      <4>2. queued[k] # active
        BY <1>4, <2>1
      <4> QED BY <2>1, <4>1, <4>2
    <3>2. CASE i # 1
      <4>1. i - 1 \in 1 .. Len(queued) /\ i - 1 < k /\ (i - 1) + 1 = i
        BY <1>2, <2>1, <3>2
      <4>2. OpenLine[i] = queued[i - 1]
        BY <1>2, <4>1
      <4>3. queued[i - 1] < queued[k]
        BY <1>3, <2>1, <4>1 DEF OnePlaceEach
      <4>4. queued[i - 1] \in Nat /\ queued[k] \in Nat
        BY <1>4, <2>1, <4>1 DEF Ids
      <4> QED BY <2>1, <4>2, <4>3, <4>4
    <3> QED BY <3>1, <3>2
  <2> QED BY <1>4, <2>1, <2>2
<1> QED BY <1>5, <1>6

\* One line more of the closing is one line more of the log.
LEMMA ClosingLine ==
    ASSUME BoundsAssumption, IInv, active # 0, NEW k \in 0 .. Len(OpenLine)
    PROVE  /\ log \o ClosingLines(k) \in Seq(Line)
           /\ k < Len(OpenLine) =>
                 log \o ClosingLines(k + 1)
                    = Append(log \o ClosingLines(k), <<"ABANDONED", OpenLine[k + 1]>>)
<1>1. OpenLine \in Seq(Ids) /\ Len(OpenLine) \in Nat /\ log \in Seq(Line) /\ k \in Nat
  BY OpenLineIs DEF IInv, LogInv
<1>2. ASSUME NEW m \in 0 .. Len(OpenLine)
      PROVE  /\ ClosingLines(m) \in Seq(Line) /\ Len(ClosingLines(m)) = m
             /\ \A i \in 1 .. m : ClosingLines(m)[i] = <<"ABANDONED", OpenLine[i]>>
  <2>1. ASSUME NEW i \in 1 .. m PROVE <<"ABANDONED", OpenLine[i]>> \in Line
    <3>1. OpenLine[i] \in Ids
      BY <1>1
    <3> QED BY <3>1 DEF Line, Outcomes
  <2>2. m \in Nat
    BY <1>1
  <2> QED BY <2>1, <2>2 DEF ClosingLines
<1> DEFINE lines == log \o ClosingLines(k)
<1>3. lines \in Seq(Line)
  <2>1. ClosingLines(k) \in Seq(Line)
    BY <1>2
  <2> HIDE DEF lines
  <2> QED BY <1>1, <2>1 DEF lines
<1>4. ASSUME k < Len(OpenLine)
      PROVE  log \o ClosingLines(k + 1) = Append(lines, <<"ABANDONED", OpenLine[k + 1]>>)
  <2> DEFINE line == <<"ABANDONED", OpenLine[k + 1]>>
             a == ClosingLines(k)
             b == ClosingLines(k + 1)
  <2>1. k + 1 \in 0 .. Len(OpenLine) /\ k + 1 \in 1 .. k + 1
    BY <1>1, <1>4
  <2>2. /\ a \in Seq(Line) /\ Len(a) = k
        /\ \A i \in 1 .. k : a[i] = <<"ABANDONED", OpenLine[i]>>
    BY <1>2
  <2>3. /\ b \in Seq(Line) /\ Len(b) = k + 1
        /\ \A i \in 1 .. k + 1 : b[i] = <<"ABANDONED", OpenLine[i]>>
    BY <1>2, <2>1
  <2>4. line \in Line /\ b[k + 1] = line
    <3>1. OpenLine[k + 1] \in Ids
      BY <1>1, <2>1
    <3> QED BY <2>1, <2>3, <3>1 DEF Line, Outcomes
  <2> HIDE DEF line, a, b
  <2>5. \A i \in 1 .. k : b[i] = a[i]
    <3>1. \A i \in 1 .. k : i \in 1 .. k + 1
      BY <1>1
    <3> QED BY <2>2, <2>3, <3>1
  <2>6. b = Append(a, line)
    <3>1. /\ Append(a, line) \in Seq(Line) /\ Len(Append(a, line)) = k + 1
          /\ Append(a, line)[k + 1] = line /\ \A i \in 1 .. k : Append(a, line)[i] = a[i]
      BY <2>2, <2>4
    <3>2. ASSUME NEW i \in 1 .. Len(b) PROVE b[i] = Append(a, line)[i]
      <4>1. i = k + 1 \/ i \in 1 .. k
        BY <1>1, <2>3
      <4> QED BY <2>4, <2>5, <3>1, <4>1
    <3>3. Len(b) = Len(Append(a, line))
      BY <2>3, <3>1
    <3> QED BY <2>3, <3>1, <3>2, <3>3, SeqEqual
  <2>7. log \o Append(a, line) = Append(log \o a, line)
    BY <1>1, <2>2, <2>4
  <2> QED BY <2>6, <2>7 DEF a, b, line
<1> QED BY <1>3, <1>4

LEMMA ClosingExplained ==
    ASSUME BoundsAssumption, IInv, active # 0, NEW exact,
           Tells(log, base, <<active, queued>>, outcome, exact)
    PROVE  \A k \in 0 .. Len(OpenLine) :
              Tells(log \o ClosingLines(k), base, HeldBehind(k), ClosedUpTo(k), exact)
<1> DEFINE N == Len(OpenLine)
           Told == {k \in 0 .. N :
                      Tells(log \o ClosingLines(k), base, HeldBehind(k), ClosedUpTo(k), exact)}
<1>1. N \in Nat /\ log \in Seq(Line) /\ base \in Nat
      /\ outcome \in [Ids -> Outcomes \cup {"unformed"}]
  BY OpenLineIs DEF IInv, LogInv, RunInv, StackInv
<1>2. 0 \in Told
  <2>1. ClosingLines(0) = <<>>
    BY DEF ClosingLines
  <2>2. log \o ClosingLines(0) = log
    BY <1>1, <2>1
  <2>3. HeldBehind(0) = <<active, queued>>
    <3>1. 0 # Len(OpenLine) /\ OpenLine[1] = active
      BY OpenLineIs DEF IInv, StackInv
    <3>2. SubSeq(OpenLine, 2, Len(OpenLine)) = queued
      BY OpenTail DEF IInv
    <3>3. 0 + 1 = 1 /\ 0 + 2 = 2
      OBVIOUS
    <3> QED BY <3>1, <3>2, <3>3 DEF HeldBehind
  <2>4. ClosedUpTo(0) = outcome
    <3>1. \A h \in Ids : ~ \E i \in 1 .. 0 : h = OpenLine[i]
      OBVIOUS
    <3> QED BY <1>1, <3>1 DEF ClosedUpTo
  <2>5. Tells(log \o ClosingLines(0), base, HeldBehind(0), ClosedUpTo(0), exact)
    BY <2>2, <2>3, <2>4
  <2> QED BY <1>1, <2>5
<1>3. ASSUME NEW k \in 0 .. N, k \in Told, k < N PROVE k + 1 \in Told
  <2> DEFINE line == <<"ABANDONED", OpenLine[k + 1]>>
  <2>1. /\ Reads(HeldBehind(k), line) = HeldBehind(k + 1) /\ OpenLine[k + 1] \in Ids
        /\ outcome[OpenLine[k + 1]] = "unformed"
        /\ \A i \in 1 .. k : OpenLine[i] # OpenLine[k + 1]
    BY <1>3, HeldNext, LineIsOpen DEF IInv
  <2>2. /\ log \o ClosingLines(k) \in Seq(Line)
        /\ log \o ClosingLines(k + 1) = Append(log \o ClosingLines(k), line)
    BY <1>3, ClosingLine
  <2>3. line \in Line /\ line[1] = "ABANDONED" /\ line[1] # "FORM" /\ line[2] = OpenLine[k + 1]
    BY <2>1 DEF Line, Outcomes
  <2>4. ClosedUpTo(k)[line[2]] = "unformed"
    <3>1. ~ \E i \in 1 .. k : OpenLine[k + 1] = OpenLine[i]
      BY <2>1
    <3> QED BY <2>1, <2>3, <3>1 DEF ClosedUpTo
  <2>5. ClosedUpTo(k + 1) = [h \in Ids |-> IF h = line[2] THEN line[1] ELSE ClosedUpTo(k)[h]]
    <3>1. ASSUME NEW h \in Ids
          PROVE  (\E i \in 1 .. k + 1 : h = OpenLine[i])
                    <=> h = OpenLine[k + 1] \/ \E i \in 1 .. k : h = OpenLine[i]
      <4>1. 1 .. k + 1 = (1 .. k) \cup {k + 1}
        BY <1>1
      <4> QED BY <4>1
    <3> HIDE DEF line
    <3> QED BY <2>3, <3>1 DEF ClosedUpTo
  <2>6. Tells(log \o ClosingLines(k), base, HeldBehind(k), ClosedUpTo(k), exact)
    BY <1>3
  <2> HIDE DEF line
  <2> DEFINE lines == log \o ClosingLines(k)
             held == HeldBehind(k)
             out == ClosedUpTo(k)
             holds == HeldBehind(k + 1)
             after == ClosedUpTo(k + 1)
  <2>7. /\ lines \in Seq(Line) /\ Tells(lines, base, held, out, exact)
        /\ out[line[2]] = "unformed"
        /\ after = [h \in Ids |-> IF h = line[2] THEN line[1] ELSE out[h]]
    BY <2>2, <2>4, <2>5, <2>6
  <2>8. Tells(Append(lines, line), base, holds, after, exact)
    <3>1. Reads(held, line) = holds
      BY <2>1 DEF line
    <3>2. base \in Nat
      BY <1>1
    <3> HIDE DEF lines, held, out, holds, after
    <3>3. exact => exact /\ Reads(held, line) = holds
      BY <3>1, Zenon
    <3> QED BY <2>3, <2>7, <3>2, <3>3, NextTold
  <2>9. k + 1 \in 0 .. N
    BY <1>1, <1>3
  <2>10. Tells(log \o ClosingLines(k + 1), base, HeldBehind(k + 1), ClosedUpTo(k + 1), exact)
    BY <2>2, <2>8
  <2> QED BY <2>9, <2>10
<1>4. 0 .. N \subseteq Told
  <2> HIDE DEF N, Told
  <2> QED BY <1>1, <1>2, <1>3, IntervalInduction
<1> QED BY <1>4

LEMMA CompleteTells ==
    ASSUME BoundsAssumption, IInv, LogTells, Complete
    PROVE  LogTells'
<1> DEFINE n == Len(OpenLine)
<1>0. CASE active = 0
  <2>1. UNCHANGED <<active, queued, outcome, file, suspect, base, childless>>
    BY <1>0 DEF Complete, Finished
  <2> QED BY <2>1 DEF LogTells, file
<1> SUFFICES ASSUME active # 0
             PROVE  LogTells'
  BY <1>0
<1>1. PICK k \in 0 .. n, w \in Writes :
        /\ w = "ok" <=> k = n
        /\ IF k = 0 THEN UNCHANGED <<active, queued, outcome>> ELSE CloseFirst(k)
        /\ w = "ok" => log' = Closing(k)[1] /\ torn' = Closing(k)[2]
        /\ Fault(w) /\ base' = base /\ childless' = childless
  BY DEF Complete, Finished
<1>2. CASE w # "ok"
  BY <1>1, <1>2, FaultKeepsBounds DEF LogTells
<1>3. CASE w = "ok"
  <2> SUFFICES ASSUME ~suspect'
               PROVE  ~torn' /\ Tells(log', base', <<active', queued'>>, outcome', ~childless')
    BY DEF LogTells
  <2>1. suspect' = suspect /\ k = n
    BY <1>1, <1>3 DEF Fault
  <2>2. ~torn /\ Tells(log, base, <<active, queued>>, outcome, ~childless)
    BY <2>1, Zenon DEF LogTells
  <2>3. torn = FALSE /\ log \in Seq(Line)
    BY <2>2, Zenon DEF IInv, LogInv
  <2>4. Tells(log \o ClosingLines(k), base, HeldBehind(k), ClosedUpTo(k), ~childless)
    BY <2>2, ClosingExplained
  <2>5. HeldBehind(k) = <<0, <<>> >>
    BY <2>1 DEF HeldBehind, Nothing
  <2>6. CASE k = 0
    <3>1. Closing(k) = file
      BY <2>6 DEF Closing
    <3>2. log' = log /\ torn' = torn
      BY <1>1, <1>3, <3>1 DEF file
    <3>3. UNCHANGED <<active, queued, outcome>>
      BY <1>1, <2>6
    <3> QED BY <1>1, <2>2, <3>2, <3>3
  <2>7. CASE k # 0
    <3>1. Closing(k) = <<log \o ClosingLines(k), FALSE>>
      BY <2>3, <2>7 DEF Closing
    <3>2. log' = log \o ClosingLines(k) /\ torn' = FALSE
      BY <1>1, <1>3, <3>1
    <3>3. CloseFirst(k)
      BY <1>1, <2>7
    <3>4. SubSeq(OpenLine, k + 1, Len(OpenLine)) = <<>>
      BY <2>1, RestOfLine DEF IInv
    <3>5. active' = 0 /\ queued' = <<>>
      BY <3>3, <3>4 DEF CloseFirst
    <3>6. outcome' = ClosedUpTo(k)
      <4>1. ASSUME NEW h \in Ids
            PROVE  h \in {OpenLine[i] : i \in 1 .. k} <=> \E i \in 1 .. k : h = OpenLine[i]
        OBVIOUS
      <4>2. outcome' = [h \in Ids |-> IF h \in {OpenLine[i] : i \in 1 .. k} THEN "ABANDONED"
                                      ELSE outcome[h]]
        BY <3>3 DEF CloseFirst
      <4> QED BY <4>1, <4>2 DEF ClosedUpTo
    <3> QED BY <1>1, <2>4, <2>5, <3>2, <3>5, <3>6
  <2> QED BY <2>6, <2>7
<1> QED BY <1>2, <1>3

\* A new run has written nothing; the other steps leave log and stack alone.
LEMMA OthersTell ==
    ASSUME BoundsAssumption, IInv, LogTells,
           Start \/ Die \/ Request \/ BlankForm \/ OtherCall \/ BlockedCall \/ UNCHANGED vars
    PROVE  LogTells'
<1>1. CASE Start
  <2>1. /\ active' = 0 /\ queued' = <<>> /\ outcome' = [h \in Ids |-> "unformed"]
        /\ log' = log /\ torn' = torn /\ suspect' = torn /\ base' = Len(log)
    BY <1>1 DEF Start, file
  <2>2. log \in Seq(Line) /\ torn \in BOOLEAN
    BY DEF IInv, LogInv
  <2>3. Len(log) \in Nat /\ Replayed(log, Len(log)) = <<0, <<>> >>
    BY <2>2, NothingReplayed DEF Nothing
  <2>4. ASSUME NEW h \in Ids, NEW o \in Outcomes
        PROVE  outcome'[h] = o <=> \E i \in Len(log) + 1 .. Len(log) : log[i] = <<o, h>>
    <3>1. Len(log) + 1 .. Len(log) = {} /\ o # "unformed"
      BY <2>3 DEF Outcomes
    <3> QED BY <2>1, <3>1
  <2>5. Tells(log', base', <<active', queued'>>, outcome', ~childless')
    BY <2>1, <2>3, <2>4 DEF Tells, Explains
  <2>6. ~suspect' => ~torn'
    BY <2>1
  <2> QED BY <2>5, <2>6 DEF LogTells
<1>2. CASE Die \/ Request \/ BlankForm \/ OtherCall \/ BlockedCall \/ UNCHANGED vars
  <2>1. UNCHANGED <<active, queued, outcome, log, torn, base, suspect, childless>>
    BY <1>2 DEF Die, Request, BlankForm, OtherCall, BlockedCall, Finished, vars, stack, file
  <2> QED BY <2>1 DEF LogTells
<1> QED BY <1>1, <1>2

LEMMA StepTells == ASSUME BoundsAssumption, IInv, LogTells, [Next]_vars PROVE LogTells'
<1>1. CASE Start \/ Die \/ Request \/ BlankForm \/ OtherCall \/ BlockedCall \/ UNCHANGED vars
  BY <1>1, OthersTell
<1>2. CASE Form
  BY <1>2, FormTells
<1>3. CASE Resolve("CONFIRMED") \/ Resolve("ABANDONED")
  BY <1>3, ResolveTells
<1>4. CASE PivotRefused
  BY <1>4, PivotRefusedTells
<1>5. CASE Pivot
  BY <1>5, PivotTells
<1>6. CASE Complete
  BY <1>6, CompleteTells
<1>7. CASE UsageLimit
  BY <1>7, UsageLimitTells
<1>8. CASE BlankPivot
  BY <1>8, BlankPivotTells
<1> QED
  BY <1>1, <1>2, <1>3, <1>4, <1>5, <1>6, <1>7, <1>8 DEF Next, AgentStep

LEMMA InitTells == ASSUME BoundsAssumption, Init PROVE LogTells
<1>1. /\ active = 0 /\ queued = <<>> /\ outcome = [h \in Ids |-> "unformed"]
      /\ log = <<>> /\ torn = FALSE /\ base = 0
  BY DEF Init
<1>2. log \in Seq(Line) /\ Len(log) = 0
  BY <1>1
<1>3. Replayed(log, 0) = <<0, <<>> >>
  BY <1>2, NothingReplayed DEF Nothing
<1>4. ASSUME NEW h \in Ids, NEW o \in Outcomes
      PROVE  outcome[h] = o <=> \E i \in 0 + 1 .. Len(log) : log[i] = <<o, h>>
  <2>1. 0 + 1 .. Len(log) = {} /\ o # "unformed"
    BY <1>2 DEF Outcomes
  <2> QED BY <1>1, <2>1
<1>5. Tells(log, base, <<active, queued>>, outcome, ~childless)
  BY <1>1, <1>2, <1>3, <1>4 DEF Tells, Explains
<1>6. ~torn
  BY <1>1
<1> QED BY <1>5, <1>6 DEF LogTells

\* HypothesisStack and its log: while no write of a run has failed, its lines
\* say how each hypothesis ended, however many runs there were before it, and, as
\* long as each pivot has got its child, which is active and which wait in which
\* order.
THEOREM LogIsTruthful == Spec => []LogExplainsStack
<1>1. Init => LogTells
  BY BoundsAssumption, InitTells
<1>2. IInv /\ LogTells /\ [Next]_vars => LogTells'
  BY BoundsAssumption, StepTells
<1>3. LogTells => LogExplainsStack
  BY DEF LogTells, Tells, Explains, LogExplainsStack
<1> QED BY <1>1, <1>2, <1>3, InvariantHolds, PTL DEF Spec

-----------------------------------------------------------------------------
(***************************************************************************)
(* HypothesisStack implements HypothesisLifecycle: its first state is an    *)
(* initial state of the lifecycle and each of its steps, with every fault,  *)
(* is a lifecycle step or leaves every hypothesis as it is.                 *)
(***************************************************************************)

LEMMA StatusIs ==
    ASSUME StackInv, NEW h \in Ids
    PROVE  /\ StatusOf[h] = "active" <=> h = active
           /\ StatusOf[h] = "waiting" <=> h \in InQueue
           /\ h # active /\ h \notin InQueue => StatusOf[h] = outcome[h]
<1>1. outcome[h] \in {"CONFIRMED", "PIVOTED", "ABANDONED", "unformed"}
  BY DEF StackInv, Outcomes
<1>2. h = active => h \notin InQueue
  BY DEF StackInv, OnePlaceEach
<1> QED BY <1>1, <1>2 DEF StatusOf

LEMMA WaitingIs ==
    ASSUME StackInv
    PROVE  Lifecycle!Waiting(StatusOf) = InQueue
<1>1. InQueue \subseteq Ids
  BY DEF StackInv, InQueue
<1> QED BY <1>1, StatusIs DEF Lifecycle!Waiting, Lifecycle!Ids, Ids

\* The id handed out next is new to the lifecycle.
LEMMA NextIsUnused ==
    ASSUME BoundsAssumption, StackInv, seq + 1 \in Ids
    PROVE  Lifecycle!Unused(seq + 1)
<1> SUFFICES ASSUME NEW g \in Ids, g >= seq + 1
             PROVE  StatusOf[g] = "unformed"
  BY DEF Lifecycle!Unused, Lifecycle!Ids, Ids
<1>0. g > seq /\ seq \in Nat
  BY DEF StackInv, Ids
<1>1. g # active /\ g \notin InQueue
  <2>1. \A h \in InQueue \cup {active} : h # 0 => h <= seq
    BY DEF StackInv, OnePlaceEach
  <2> QED BY <1>0, <2>1 DEF Ids
<1>2. outcome[g] = "unformed"
  BY DEF StackInv, Ids
<1> QED BY <1>1, <1>2, StatusIs

LEMMA BusyIs ==
    ASSUME StackInv
    PROVE  Lifecycle!Busy <=> active # 0 \/ queued # <<>>
<1>1. ASSUME active # 0 PROVE Lifecycle!Busy
  <2>1. active \in Ids
    BY <1>1 DEF StackInv, Ids
  <2>2. StatusOf[active] = "active"
    BY <2>1, StatusIs
  <2> QED BY <2>1, <2>2 DEF Lifecycle!Busy, Lifecycle!Ids, Ids
<1>2. ASSUME queued # <<>> PROVE Lifecycle!Busy
  <2>1. queued \in Seq(Ids) /\ 1 \in 1 .. Len(queued)
    BY <1>2 DEF StackInv
  <2>2. queued[1] \in Ids /\ queued[1] \in InQueue
    BY <2>1 DEF InQueue
  <2>3. StatusOf[queued[1]] = "waiting"
    BY <2>2, StatusIs
  <2> QED BY <2>2, <2>3 DEF Lifecycle!Busy, Lifecycle!Ids, Ids
<1>3. ASSUME Lifecycle!Busy PROVE active # 0 \/ queued # <<>>
  <2>1. PICK h \in Ids : StatusOf[h] \in {"active", "waiting"}
    BY <1>3 DEF Lifecycle!Busy, Lifecycle!Ids, Ids
  <2>2. h = active \/ h \in InQueue
    BY <2>1, StatusIs
  <2>3. h \in InQueue => queued # <<>>
    BY DEF InQueue
  <2> QED BY <2>2, <2>3 DEF Ids
<1> QED BY <1>1, <1>2, <1>3

\* The statuses once the active hypothesis and those of S have outcome o,
\* before the place that is free is taken.
Freed(S, o) == [g \in Ids |-> IF g \in S \cup {active} THEN o ELSE StatusOf[g]]

\* The first part of the line leaves: the rest of the lifecycle moves up.
LEMMA LeftIsPromoted ==
    ASSUME BoundsAssumption, StackInv, StackInv', active # 0,
           NEW j \in 0 .. Len(queued), NEW o \in Outcomes, Left(j, o)
    PROVE  StatusOf' = Lifecycle!Promoted(Freed({queued[i] : i \in 1 .. j}, o))
<1> DEFINE S == {queued[i] : i \in 1 .. j}
           st == Freed(S, o)
           Behind == {queued[i] : i \in j + 1 .. Len(queued)}
<1> SUFFICES StatusOf' = Lifecycle!Promoted(st)
  OBVIOUS
<1>1. /\ Len(queued) \in Nat /\ active \in Ids
      /\ \A i \in 1 .. Len(queued) : queued[i] \in Ids /\ queued[i] # active
      /\ \A i, k \in 1 .. Len(queued) : i < k => queued[i] < queued[k]
  BY DEF StackInv, OnePlaceEach, InQueue, Ids
<1>2. S \subseteq InQueue /\ Behind \subseteq InQueue
  BY <1>1 DEF InQueue
<1>3. \A g \in InQueue : g \in S \/ g \in Behind
  <2> TAKE g \in InQueue
  <2>1. PICK i \in 1 .. Len(queued) : g = queued[i]
    BY DEF InQueue
  <2>2. i \in 1 .. j \/ i \in j + 1 .. Len(queued)
    BY <1>1
  <2> QED BY <2>1, <2>2
<1>4. \A g \in S, h \in Behind : g < h
  <2> TAKE g \in S, h \in Behind
  <2>1. PICK i \in 1 .. j : g = queued[i]
    OBVIOUS
  <2>2. PICK k \in j + 1 .. Len(queued) : h = queued[k]
    OBVIOUS
  <2>3. i \in 1 .. Len(queued) /\ k \in 1 .. Len(queued) /\ i < k
    BY <1>1
  <2> QED BY <1>1, <2>1, <2>2, <2>3
<1>5. InQueue \subseteq Ids /\ active \notin InQueue
  BY <1>1 DEF InQueue
<1>6. InQueue' = IF j = Len(queued) THEN {} ELSE Behind \ {queued[j + 1]}
  <2>1. CASE j = Len(queued)
    <3>1. Len(queued') = 0
      BY <2>1 DEF Left
    <3> QED BY <2>1, <3>1 DEF InQueue
  <2>2. CASE j # Len(queued)
    <3>1. Len(queued') = Len(queued) - j - 1
          /\ \A i \in 1 .. Len(queued') : queued'[i] = queued[i + j + 1]
      BY <2>2 DEF Left
    <3>2. ASSUME NEW g \in InQueue'
          PROVE  g \in Behind \ {queued[j + 1]}
      <4>1. PICK i \in 1 .. Len(queued') : g = queued'[i]
        BY DEF InQueue
      <4>2. PICK n \in j + 1 .. Len(queued) : n = i + j + 1
        BY <1>1, <3>1
      <4>3. g = queued[n] /\ j + 1 < n /\ n \in 1 .. Len(queued) /\ j + 1 \in 1 .. Len(queued)
        BY <1>1, <2>2, <3>1, <4>1, <4>2
      <4>4. queued[j + 1] < queued[n] /\ queued[n] \in Ids /\ queued[j + 1] \in Ids
        BY <1>1, <4>3
      <4>5. queued[n] # queued[j + 1]
        BY <4>4 DEF Ids
      <4> QED BY <4>2, <4>3, <4>5
    <3>3. ASSUME NEW g \in Behind, g # queued[j + 1]
          PROVE  g \in InQueue'
      <4>1. PICK n \in j + 1 .. Len(queued) : g = queued[n]
        OBVIOUS
      <4>2. n # j + 1
        BY <3>3, <4>1
      <4>3. PICK i \in 1 .. Len(queued') : n = i + j + 1
        BY <1>1, <2>2, <3>1, <4>2
      <4> QED BY <3>1, <4>1, <4>3 DEF InQueue
    <3> QED BY <2>2, <3>2, <3>3
  <2> QED BY <2>1, <2>2
<1> HIDE DEF S, Behind
<1>7. \A g \in Ids : st[g] = IF g \in S \cup {active} THEN o ELSE StatusOf[g]
  BY DEF Freed
<1>8. o \notin {"active", "waiting", "unformed"}
  BY DEF Outcomes
<1>9. Lifecycle!Waiting(st) = Behind
  <2>1. ASSUME NEW g \in Ids
        PROVE  st[g] = "waiting" <=> g \in Behind
    <3>1. g \in Behind => g \notin S \cup {active} /\ g \in InQueue
      <4>1. g \in S => ~(g < g)
        BY DEF Ids
      <4> QED BY <1>2, <1>4, <1>5, <4>1
    <3>2. g \in InQueue /\ g \notin S => g \in Behind
      BY <1>3
    <3> QED BY <1>7, <1>8, <3>1, <3>2, StatusIs
  <2> HIDE DEF st
  <2> QED BY <1>2, <1>5, <2>1 DEF Lifecycle!Waiting, Lifecycle!Ids, Ids
<1>10. \A g \in Ids : outcome'[g] = IF g \in S \cup {active} THEN o ELSE outcome[g]
  <2>1. \A g \in Ids : outcome'[g] = IF g = active \/ (\E i \in 1 .. j : g = queued[i])
                                     THEN o ELSE outcome[g]
    BY DEF Left
  <2> QED BY <2>1 DEF S
<1>11. st = [g \in Ids |-> st[g]] /\ StatusOf' = [g \in Ids |-> StatusOf'[g]]
  BY DEF Freed, StatusOf
<1>12. CASE j = Len(queued)
  <2>1. Behind = {} /\ InQueue' = {} /\ active' = 0
    BY <1>1, <1>6, <1>12 DEF Left, Behind
  <2>2. Lifecycle!Promoted(st) = st
    BY <1>9, <2>1 DEF Lifecycle!Promoted
  <2>3. ASSUME NEW g \in Ids PROVE StatusOf'[g] = st[g]
    <3>1. StatusOf'[g] = outcome'[g]
      BY <2>1 DEF StatusOf, Ids
    <3>2. g \notin S \cup {active} => g \notin InQueue
      BY <1>3, <2>1
    <3> QED BY <1>7, <1>10, <3>1, <3>2, StatusIs
  <2> HIDE DEF st
  <2> QED BY <1>11, <2>2, <2>3
<1>13. CASE j # Len(queued)
  <2> DEFINE next == queued[j + 1]
  <2>1. /\ next \in Behind /\ next \in Ids /\ active' = next
        /\ InQueue' = Behind \ {next}
    BY <1>1, <1>6, <1>13 DEF Left, Behind
  <2>2. \A g \in Behind : next <= g /\ g \in Ids
    <3> TAKE g \in Behind
    <3>1. PICK n \in j + 1 .. Len(queued) : g = queued[n]
      BY DEF Behind
    <3>2. CASE n = j + 1
      BY <1>1, <2>1, <3>1, <3>2 DEF Ids
    <3>3. CASE n # j + 1
      <4>1. j + 1 < n /\ n \in 1 .. Len(queued) /\ j + 1 \in 1 .. Len(queued)
        BY <1>1, <3>3
      <4>2. next < g /\ g \in Ids
        BY <1>1, <3>1, <4>1
      <4> QED BY <2>1, <4>2 DEF Ids
    <3> QED BY <3>2, <3>3
  <2> HIDE DEF next
  <2>3. Lifecycle!Oldest(Behind) = next
    <3>1. \A h \in Behind : (\A g \in Behind : h <= g) => h = next
      <4> TAKE h \in Behind
      <4>1. h \in Nat /\ next \in Nat /\ next <= h
        BY <2>1, <2>2 DEF Ids
      <4> QED BY <2>1, <4>1
    <3> QED BY <2>1, <2>2, <3>1 DEF Lifecycle!Oldest
  <2>4. Lifecycle!Promoted(st) = [st EXCEPT ![next] = "active"]
    BY <1>9, <2>1, <2>3 DEF Lifecycle!Promoted
  <2>5. ASSUME NEW g \in Ids
        PROVE  StatusOf'[g] = IF g = next THEN "active" ELSE st[g]
    <3>1. CASE g = next
      BY <2>1, <3>1 DEF StatusOf
    <3>2. CASE g # next /\ g \in Behind
      <4>1. StatusOf'[g] = "waiting"
        BY <2>1, <3>2 DEF StatusOf
      <4>2. st[g] = "waiting"
        <5> HIDE DEF st
        <5> QED BY <1>9, <3>2 DEF Lifecycle!Waiting
      <4> QED BY <3>2, <4>1, <4>2
    <3>3. CASE g # next /\ g \notin Behind
      <4>1. StatusOf'[g] = outcome'[g]
        BY <2>1, <3>3 DEF StatusOf
      <4>2. g \notin S \cup {active} => g \notin InQueue
        BY <1>3, <3>3
      <4> QED BY <1>7, <1>10, <3>3, <4>1, <4>2, StatusIs
    <3> QED BY <3>1, <3>2, <3>3
  <2> HIDE DEF st
  <2> QED BY <1>11, <2>1, <2>4, <2>5
<1> QED BY <1>12, <1>13

\* Where the stack is as it was, the statuses are.
LEMMA SameStackSameStatus ==
    ASSUME UNCHANGED <<active, queued, outcome>>
    PROVE  StatusOf' = StatusOf
  BY DEF StatusOf, InQueue

\* Abandoning the first of the line is the lifecycle's Abandon.
LEMMA LeftAbandons ==
    ASSUME BoundsAssumption, StackInv, StackInv', active # 0,
           NEW j \in 0 .. Len(queued), Left(j, "ABANDONED")
    PROVE  Lifecycle!Next
<1> DEFINE S == {queued[i] : i \in 1 .. j}
<1>1. /\ Len(queued) \in Nat /\ active \in Ids
      /\ \A i \in 1 .. Len(queued) : queued[i] \in Ids
      /\ \A i, k \in 1 .. Len(queued) : i < k => queued[i] < queued[k]
  BY DEF StackInv, OnePlaceEach, Ids
<1>2. S \subseteq InQueue /\ S \in SUBSET Ids
  BY <1>1 DEF InQueue
<1>3. \A g \in S, w \in InQueue \ S : g < w
  <2> TAKE g \in S, w \in InQueue \ S
  <2>1. PICK i \in 1 .. j : g = queued[i]
    OBVIOUS
  <2>2. PICK k \in 1 .. Len(queued) : w = queued[k]
    BY DEF InQueue
  <2>3. k \notin 1 .. j
    BY <2>2
  <2>4. i \in 1 .. Len(queued) /\ i < k
    BY <1>1, <2>3
  <2> QED BY <1>1, <2>1, <2>2, <2>4
<1>4. StatusOf' = Lifecycle!Promoted(Freed(S, "ABANDONED"))
  BY LeftIsPromoted DEF Outcomes
<1> HIDE DEF S
<1>5. StatusOf[active] = "active"
  BY <1>1, StatusIs
<1>6. Lifecycle!Abandon(active, S)
  BY <1>2, <1>3, <1>4, <1>5, WaitingIs DEF Lifecycle!Abandon, Freed, Lifecycle!Ids, Ids
<1>7. active \in Lifecycle!Ids /\ S \in SUBSET Lifecycle!Ids
  BY <1>1, <1>2 DEF Lifecycle!Ids, Ids
<1> QED BY <1>6, <1>7 DEF Lifecycle!Next

LEMMA LeftConfirms ==
    ASSUME BoundsAssumption, StackInv, StackInv', active # 0, Left(0, "CONFIRMED")
    PROVE  Lifecycle!Next
<1>1. active \in Ids /\ 0 \in 0 .. Len(queued)
  BY DEF StackInv, Ids
<1>2. StatusOf' = Lifecycle!Promoted(Freed({queued[i] : i \in 1 .. 0}, "CONFIRMED"))
  BY <1>1, LeftIsPromoted DEF Outcomes
<1>3. {queued[i] : i \in 1 .. 0} \cup {active} = {active}
  OBVIOUS
<1>4. Freed({queued[i] : i \in 1 .. 0}, "CONFIRMED") = [StatusOf EXCEPT ![active] = "CONFIRMED"]
  BY <1>1, <1>3 DEF Freed, StatusOf
<1>5. Lifecycle!Confirm(active)
  BY <1>1, <1>2, <1>4, StatusIs DEF Lifecycle!Confirm
<1>6. active \in Lifecycle!Ids
  BY <1>1 DEF Lifecycle!Ids, Ids
<1> QED BY <1>5, <1>6 DEF Lifecycle!Next

LEMMA FormForms ==
    ASSUME BoundsAssumption, StackInv, seq + 1 \in Ids,
           active = 0 /\ queued = <<>> => active' = seq + 1 /\ queued' = <<>>,
           active # 0 \/ queued # <<>> => active' = active /\ queued' = Append(queued, seq + 1),
           outcome' = outcome
    PROVE  Lifecycle!Next
<1> DEFINE h == seq + 1
<1>1. h \in Ids /\ h \in Lifecycle!Ids /\ Lifecycle!Unused(h)
  BY NextIsUnused DEF Lifecycle!Ids, Ids
<1>2. StatusOf = [g \in Ids |-> StatusOf[g]] /\ StatusOf' = [g \in Ids |-> StatusOf'[g]]
  BY DEF StatusOf
<1>3. h # active /\ h \notin InQueue
  <2>1. \A g \in InQueue \cup {active} : g # 0 => g <= seq
    BY DEF StackInv, OnePlaceEach
  <2>2. h > seq /\ h # 0 /\ seq \in Nat
    BY DEF StackInv
  <2> QED BY <2>1, <2>2, <1>1 DEF Ids
<1> HIDE DEF h
<1>4. CASE active = 0 /\ queued = <<>>
  <2>1. active' = h /\ queued' = <<>> /\ queued = <<>>
    BY <1>4 DEF h
  <2>2. InQueue' = {} /\ InQueue = {}
    BY <2>1 DEF InQueue
  <2>3. \A g \in Ids : StatusOf'[g] = IF g = h THEN "active" ELSE StatusOf[g]
    BY <1>4, <2>1, <2>2 DEF StatusOf, Ids
  <2>4. StatusOf' = [StatusOf EXCEPT ![h] = "active"]
    BY <1>1, <1>2, <2>3
  <2>5. ~Lifecycle!Busy
    BY <1>4, BusyIs
  <2> QED BY <1>1, <2>4, <2>5 DEF Lifecycle!Form, Lifecycle!Next
<1>5. CASE active # 0 \/ queued # <<>>
  <2>1. active' = active /\ queued' = Append(queued, h) /\ queued \in Seq(Ids)
    BY <1>5 DEF h, StackInv
  <2>2. InQueue' = InQueue \cup {h}
    <3>1. /\ Len(queued') = Len(queued) + 1 /\ Len(queued) \in Nat
          /\ queued'[Len(queued')] = h
          /\ \A i \in 1 .. Len(queued) : queued'[i] = queued[i]
      BY <1>1, <2>1
    <3>2. ASSUME NEW g \in InQueue'
          PROVE  g \in InQueue \cup {h}
      <4>1. PICK i \in 1 .. Len(queued') : g = queued'[i]
        BY DEF InQueue
      <4>2. i = Len(queued') \/ i \in 1 .. Len(queued)
        BY <3>1
      <4> QED BY <3>1, <4>1, <4>2 DEF InQueue
    <3>3. ASSUME NEW g \in InQueue \cup {h}
          PROVE  g \in InQueue'
      <4>1. CASE g = h
        <5>1. Len(queued') \in 1 .. Len(queued')
          BY <3>1
        <5> QED BY <3>1, <4>1, <5>1 DEF InQueue
      <4>2. CASE g \in InQueue
        <5>1. PICK i \in 1 .. Len(queued) : g = queued[i]
          BY <4>2 DEF InQueue
        <5>2. i \in 1 .. Len(queued')
          BY <3>1
        <5> QED BY <3>1, <5>1, <5>2 DEF InQueue
      <4> QED BY <3>3, <4>1, <4>2
    <3> QED BY <3>2, <3>3
  <2>3. \A g \in Ids : StatusOf'[g] = IF g = h THEN "waiting" ELSE StatusOf[g]
    BY <1>3, <2>1, <2>2 DEF StatusOf
  <2>4. StatusOf' = [StatusOf EXCEPT ![h] = "waiting"]
    BY <1>1, <1>2, <2>3
  <2>5. Lifecycle!Busy
    BY <1>5, BusyIs
  <2> QED BY <1>1, <2>4, <2>5 DEF Lifecycle!Form, Lifecycle!Next
<1> QED BY <1>4, <1>5

LEMMA PivotPivots ==
    ASSUME BoundsAssumption, StackInv, active # 0, seq + 1 \in Ids,
           active' = seq + 1, queued' = queued,
           outcome' = [outcome EXCEPT ![active] = "PIVOTED"]
    PROVE  Lifecycle!Next
<1> DEFINE child == seq + 1
<1>1. /\ child \in Ids /\ active \in Ids
      /\ child \in Lifecycle!Ids /\ active \in Lifecycle!Ids /\ Lifecycle!Unused(child)
  BY NextIsUnused DEF Lifecycle!Ids, Ids, StackInv
<1>2. child # active /\ child \notin InQueue /\ active \notin InQueue /\ active' = child
  BY DEF StackInv, OnePlaceEach, Ids
<1> HIDE DEF child
<1>3. InQueue' = InQueue
  BY DEF InQueue
<1>4. \A g \in Ids : outcome'[g] = IF g = active THEN "PIVOTED" ELSE outcome[g]
  BY <1>1 DEF StackInv
<1>5. \A g \in Ids : StatusOf'[g] = IF g = active THEN "PIVOTED"
                                    ELSE IF g = child THEN "active" ELSE StatusOf[g]
  BY <1>2, <1>3, <1>4 DEF StatusOf
<1>6. StatusOf = [g \in Ids |-> StatusOf[g]] /\ StatusOf' = [g \in Ids |-> StatusOf'[g]]
  BY DEF StatusOf
<1>7. StatusOf' = [StatusOf EXCEPT ![active] = "PIVOTED", ![child] = "active"]
  BY <1>1, <1>2, <1>5, <1>6
<1>8. StatusOf[active] = "active"
  BY <1>1, StatusIs
<1> QED BY <1>1, <1>7, <1>8 DEF Lifecycle!Pivot, Lifecycle!Next

LEMMA PivotLeaves ==
    ASSUME BoundsAssumption, StackInv, active # 0, active' = 0, queued' = queued,
           outcome' = [outcome EXCEPT ![active] = "PIVOTED"]
    PROVE  Lifecycle!Next
<1>1. active \in Ids /\ active \in Lifecycle!Ids /\ active \notin InQueue
  BY DEF Lifecycle!Ids, Ids, StackInv, OnePlaceEach
<1>2. InQueue' = InQueue
  BY DEF InQueue
<1>3. \A g \in Ids : outcome'[g] = IF g = active THEN "PIVOTED" ELSE outcome[g]
  BY <1>1 DEF StackInv
<1>4. \A g \in Ids : StatusOf'[g] = IF g = active THEN "PIVOTED" ELSE StatusOf[g]
  BY <1>1, <1>2, <1>3 DEF StatusOf, Ids
<1>5. StatusOf = [g \in Ids |-> StatusOf[g]] /\ StatusOf' = [g \in Ids |-> StatusOf'[g]]
  BY DEF StatusOf
<1>6. StatusOf' = [StatusOf EXCEPT ![active] = "PIVOTED"]
  BY <1>1, <1>4, <1>5
<1>7. StatusOf[active] = "active"
  BY <1>1, StatusIs
<1> QED BY <1>1, <1>6, <1>7 DEF Lifecycle!PivotAlone, Lifecycle!Next

LEMMA InitRefines == ASSUME BoundsAssumption, Init PROVE Lifecycle!Init
<1>1. active = 0 /\ queued = <<>> /\ outcome = [h \in Ids |-> "unformed"]
  BY DEF Init
<1>2. InQueue = {}
  BY <1>1 DEF InQueue
<1> QED BY <1>1, <1>2 DEF Lifecycle!Init, Lifecycle!Ids, Ids, StatusOf

LEMMA StepRefines ==
    ASSUME BoundsAssumption, IInv, IInv', [Next]_vars
    PROVE  [Lifecycle!Next]_StatusOf
<1> USE DEF IInv
<1>1. CASE Start
  <2>1. active' = 0 /\ queued' = <<>> /\ outcome' = [h \in Ids |-> "unformed"]
    BY <1>1 DEF Start
  <2>2. InQueue' = {}
    BY <2>1 DEF InQueue
  <2>3. StatusOf' = [h \in Ids |-> "unformed"]
    BY <2>1, <2>2 DEF StatusOf, Ids
  <2> QED BY <2>3 DEF Lifecycle!Next, Lifecycle!NewRun, Lifecycle!Ids, Ids
<1>2. CASE Die \/ Request \/ PivotRefused \/ BlankForm \/ OtherCall \/ BlockedCall \/ UNCHANGED vars
  <2>1. UNCHANGED <<active, queued, outcome>>
    BY <1>2 DEF Die, Request, PivotRefused, BlankForm, OtherCall, BlockedCall, vars, stack
  <2> QED BY <2>1, SameStackSameStatus
<1>3. CASE Form
  <2>1. /\ seq + 1 \in Ids /\ outcome' = outcome
        /\ active' = Placed(seq + 1, FALSE)[1] /\ queued' = Placed(seq + 1, FALSE)[2]
    BY <1>3 DEF Form
  <2> QED BY <2>1, PlacedIs, FormForms
<1>4. ASSUME NEW o \in {"CONFIRMED", "ABANDONED"}, Resolve(o)
      PROVE  [Lifecycle!Next]_StatusOf
  <2>1. PICK w \in Writes :
          /\ active # 0
          /\ IF w = "ok"
             THEN /\ active' = Promotion[1] /\ queued' = Promotion[2]
                  /\ outcome' = [outcome EXCEPT ![active] = o] /\ seq' = seq
             ELSE UNCHANGED stack
    BY <1>4 DEF Resolve
  <2>2. CASE w = "ok"
    <3>1. Left(0, o) /\ 0 \in 0 .. Len(queued)
      BY <2>1, <2>2, PromotionLeaves DEF Outcomes, StackInv
    <3>2. CASE o = "CONFIRMED"
      BY <2>1, <3>1, <3>2, LeftConfirms
    <3>3. CASE o = "ABANDONED"
      BY <2>1, <3>1, <3>3, LeftAbandons
    <3> QED BY <3>2, <3>3
  <2>3. CASE w # "ok"
    BY <2>1, <2>3, SameStackSameStatus DEF stack
  <2> QED BY <2>2, <2>3
<1>5. CASE Pivot
  <2>1. /\ active # 0 /\ seq + 1 \in Ids
        /\ active' = Placed(seq + 1, TRUE)[1] /\ queued' = Placed(seq + 1, TRUE)[2]
        /\ outcome' = [outcome EXCEPT ![active] = "PIVOTED"]
    BY <1>5 DEF Pivot
  <2> QED BY <2>1, PlacedIs, PivotPivots
<1>6. ASSUME NEW k \in 1 .. Len(OpenLine), CloseFirst(k), seq' = seq, active # 0
      PROVE  Lifecycle!Next
  <2>1. k - 1 \in 0 .. Len(queued) /\ Left(k - 1, "ABANDONED")
    BY <1>6, CloseFirstLeaves
  <2> QED BY <1>6, <2>1, LeftAbandons
<1>7. CASE BlankPivot
  BY <1>7, PivotLeaves DEF BlankPivot
<1>8. CASE Complete /\ active = 0
  <2>1. UNCHANGED <<active, queued, outcome>>
    BY <1>8 DEF Complete
  <2> QED BY <2>1, SameStackSameStatus
<1>9. CASE Complete /\ active # 0
  <2>1. PICK k \in 0 .. Len(OpenLine) :
          IF k = 0 THEN UNCHANGED <<active, queued, outcome>> ELSE CloseFirst(k)
    BY <1>9 DEF Complete
  <2>2. seq' = seq
    BY <1>9 DEF Complete
  <2>3. CASE k = 0
    BY <2>1, <2>3, SameStackSameStatus
  <2>4. CASE k # 0
    <3>1. Len(OpenLine) \in Nat
      BY <1>9, OpenLineIs DEF StackInv
    <3>2. active # 0 /\ k \in 1 .. Len(OpenLine)
      BY <1>9, <2>4, <3>1
    <3> QED BY <1>6, <2>1, <2>2, <2>4, <3>2
  <2> QED BY <2>3, <2>4
<1>10. CASE UsageLimit
  <2>1. seq' = seq
    BY <1>10 DEF UsageLimit
  <2>2. UNCHANGED <<active, queued, outcome>> \/ (active # 0 /\ CloseFirst(1))
    BY <1>10 DEF UsageLimit
  <2>3. active # 0 => 1 \in 1 .. Len(OpenLine)
    BY OpenLineIs DEF StackInv
  <2> QED BY <1>6, <2>1, <2>2, <2>3, SameStackSameStatus
<1> QED
  BY <1>1, <1>2, <1>3, <1>4, <1>5, <1>7, <1>8, <1>9, <1>10 DEF Next, AgentStep

\* The stack with its log, its faults and its ends of a run keeps what the
\* lifecycle promises: one hypothesis at a time, the oldest waiting one next, a
\* pivot before all of them, and outcomes that are final; a pivot whose child is
\* refused leaves the others waiting.
THEOREM StackImplementsLifecycle == Spec => KeepsLifecycle
<1>1. Init => Lifecycle!Init
  BY BoundsAssumption, InitRefines
<1>2. IInv /\ IInv' /\ [Next]_vars => [Lifecycle!Next]_StatusOf
  BY BoundsAssumption, StepRefines
<1> QED
  BY <1>1, <1>2, InvariantHolds, PTL DEF Spec, KeepsLifecycle, Lifecycle!Spec

-----------------------------------------------------------------------------
(* The counts of the log *)

\* Every hypothesis the run has formed.
Known == {h \in Ids : h = active \/ h \in InQueue \/ outcome[h] # "unformed"}

\* The lines behind from form the hypotheses known, and a hypothesis whose
\* outcome is there has no later line.
Counts(lines, from, known) ==
    /\ \A h \in Ids : h \in known <=> \E n \in from + 1 .. Len(lines) : lines[n] = <<"FORM", h>>
    /\ \A n, m \in from + 1 .. Len(lines) :
          n < m /\ lines[n][1] \in Outcomes => lines[m][2] # lines[n][2]

LogCounts == ~suspect => Counts(log, base, Known)

LEMMA CountsNext ==
    ASSUME NEW lines \in Seq(Line), NEW from \in Nat, from <= Len(lines), NEW known,
           Counts(lines, from, known), NEW line \in Line, NEW more,
           \A n \in from + 1 .. Len(lines) :
              lines[n][1] \in Outcomes => lines[n][2] # line[2],
           more = IF line[1] = "FORM" THEN known \cup {line[2]} ELSE known
    PROVE  Counts(Append(lines, line), from, more)
<1> DEFINE longer == Append(lines, line)
           N == Len(lines)
<1>1. /\ N \in Nat /\ from <= N /\ Len(longer) = N + 1 /\ longer[N + 1] = line
      /\ \A n \in from + 1 .. N : longer[n] = lines[n]
  OBVIOUS
<1> HIDE DEF longer, N
<1>2. from + 1 .. N + 1 = (from + 1 .. N) \cup {N + 1}
  BY <1>1
<1>3. line = <<line[1], line[2]>>
  BY DEF Line
<1>4. ASSUME NEW h \in Ids
      PROVE  h \in more <=> \E n \in from + 1 .. N + 1 : longer[n] = <<"FORM", h>>
  <2>1. (\E n \in from + 1 .. N + 1 : longer[n] = <<"FORM", h>>)
           <=> line = <<"FORM", h>> \/ \E n \in from + 1 .. N : lines[n] = <<"FORM", h>>
    BY <1>1, <1>2
  <2>2. h \in known <=> \E n \in from + 1 .. N : lines[n] = <<"FORM", h>>
    BY DEF Counts, N
  <2>3. line = <<"FORM", h>> <=> line[1] = "FORM" /\ line[2] = h
    BY <1>3
  <2> QED BY <2>1, <2>2, <2>3
<1>5. ASSUME NEW n \in from + 1 .. N + 1, NEW m \in from + 1 .. N + 1,
             n < m, longer[n][1] \in Outcomes
      PROVE  longer[m][2] # longer[n][2]
  <2>1. n \in from + 1 .. N /\ longer[n] = lines[n]
    BY <1>1, <1>5
  <2>2. CASE m = N + 1
    BY <1>1, <1>5, <2>1, <2>2 DEF N
  <2>3. CASE m # N + 1
    <3>1. m \in from + 1 .. N /\ longer[m] = lines[m]
      BY <1>1, <2>3
    <3> QED BY <1>5, <2>1, <3>1 DEF Counts, N
  <2> QED BY <2>2, <2>3
<1> QED BY <1>1, <1>4, <1>5 DEF Counts, longer

\* No line behind base resolves a hypothesis that is not resolved.
LEMMA UnresolvedInLog ==
    ASSUME NEW lines \in Seq(Line), NEW from \in Nat, NEW held, NEW out,
           Explains(lines, from, held, out), NEW h \in Ids, out[h] = "unformed"
    PROVE  \A n \in from + 1 .. Len(lines) : lines[n][1] \in Outcomes => lines[n][2] # h
<1> SUFFICES ASSUME NEW n \in from + 1 .. Len(lines), lines[n][1] \in Outcomes,
                    lines[n][2] = h
             PROVE  FALSE
  OBVIOUS
<1>1. lines[n] \in Line
  BY DEF Explains
<1>2. lines[n] = <<lines[n][1], h>>
  BY <1>1 DEF Line
<1>3. out[h] = lines[n][1]
  BY <1>2 DEF Explains
<1> QED BY <1>3 DEF Outcomes

\* A line is counted when the stack has changed by what it says.
LEMMA LineIsCounted ==
    ASSUME BoundsAssumption, IInv, LogTells, LogCounts, NEW w \in Writes, NEW line \in Line,
           Fault(w), log' = Wrote(file, w, line)[1], base' = base,
           w = "ok" => /\ outcome[line[2]] = "unformed"
                       /\ Known' = IF line[1] = "FORM" THEN Known \cup {line[2]} ELSE Known
    PROVE  LogCounts'
<1>1. CASE w # "ok"
  BY <1>1, FaultKeepsBounds DEF LogCounts
<1>2. CASE w = "ok"
  <2> SUFFICES ASSUME ~suspect' PROVE Counts(log', base', Known')
    BY DEF LogCounts
  <2>1. suspect' = suspect
    BY <1>2 DEF Fault
  <2>2. /\ ~torn /\ Explains(log, base, Replayed(log, base), outcome)
        /\ Counts(log, base, Known)
    BY <2>1, Zenon DEF LogTells, Tells, LogCounts
  <2>3. torn = FALSE /\ log \in Seq(Line) /\ base \in Nat
    BY <2>2, Zenon DEF IInv, LogInv, RunInv
  <2>4. Wrote(file, w, line) = <<Append(log, line), FALSE>>
    BY <1>2, <2>3, WroteOk DEF file
  <2>5. log' = Append(log, line) /\ line[2] \in Ids /\ base <= Len(log)
    BY <2>2, <2>4 DEF Line, Explains
  <2>6. \A n \in base + 1 .. Len(log) : log[n][1] \in Outcomes => log[n][2] # line[2]
    BY <1>2, <2>2, <2>3, <2>5, UnresolvedInLog
  <2>7. Counts(Append(log, line), base, Known')
    BY <1>2, <2>2, <2>3, <2>5, <2>6, CountsNext
  <2> QED BY <2>5, <2>7
<1> QED BY <1>1, <1>2

\* What leaves the first place stays known.
LEMMA LeftKnows ==
    ASSUME BoundsAssumption, StackInv, active # 0,
           NEW j \in 0 .. Len(queued), NEW o \in Outcomes, Left(j, o)
    PROVE  Known' = Known
<1>1. /\ Len(queued) \in Nat /\ Len(queued') \in Nat /\ o # "unformed" /\ active \in Ids
      /\ \A i \in 1 .. Len(queued) : queued[i] \in Ids
  BY DEF StackInv, Left, Outcomes, Ids
<1>2. ASSUME NEW h \in Ids PROVE h \in Known' <=> h \in Known
  <2>1. outcome'[h] = IF h = active \/ (\E i \in 1 .. j : h = queued[i])
                      THEN o ELSE outcome[h]
    BY DEF Left
  <2>2. h \in InQueue <=> \E i \in 1 .. Len(queued) : h = queued[i]
    BY DEF InQueue
  <2>3. h \in InQueue' <=> \E i \in 1 .. Len(queued') : h = queued'[i]
    BY DEF InQueue
  <2>4. ASSUME h \in Known' PROVE h \in Known
    <3>1. CASE h = active'
      <4>1. j # Len(queued) /\ h = queued[j + 1]
        BY <3>1 DEF Left, Ids
      <4>2. j + 1 \in 1 .. Len(queued)
        BY <1>1, <4>1
      <4> QED BY <2>2, <4>1, <4>2 DEF Known
    <3>2. CASE h \in InQueue'
      <4>1. PICK i \in 1 .. Len(queued') : h = queued'[i]
        BY <2>3, <3>2
      <4>2. h = queued[i + j + 1] /\ i + j + 1 \in 1 .. Len(queued)
        BY <1>1, <4>1 DEF Left
      <4> QED BY <2>2, <4>2 DEF Known
    <3>3. CASE outcome'[h] # "unformed"
      <4>1. j <= Len(queued) /\ \A i \in 1 .. j : i \in 1 .. Len(queued)
        BY <1>1
      <4> QED BY <2>1, <2>2, <3>3, <4>1 DEF Known
    <3> QED BY <2>4, <3>1, <3>2, <3>3 DEF Known
  <2>5. ASSUME h \in Known PROVE h \in Known'
    <3>1. CASE outcome[h] # "unformed" \/ h = active
      BY <1>1, <2>1, <3>1 DEF Known
    <3>2. CASE h \in InQueue
      <4>1. PICK i \in 1 .. Len(queued) : h = queued[i]
        BY <2>2, <3>2
      <4>2. CASE i <= j
        <5>1. i \in 1 .. j
          BY <1>1, <4>2
        <5>2. outcome'[h] = o
          BY <2>1, <4>1, <5>1
        <5> QED BY <1>1, <5>2 DEF Known
      <4>3. CASE i = j + 1
        <5>1. active' = h
          BY <1>1, <4>1, <4>3 DEF Left
        <5> QED BY <5>1 DEF Known
      <4>4. CASE i > j + 1
        <5>1. i - (j + 1) \in 1 .. Len(queued') /\ (i - (j + 1)) + j + 1 = i
          BY <1>1, <4>1, <4>4 DEF Left
        <5>2. queued'[i - (j + 1)] = queued[i]
          BY <5>1 DEF Left
        <5> QED BY <2>3, <4>1, <5>1, <5>2 DEF Known
      <4> QED BY <1>1, <4>2, <4>3, <4>4
    <3> QED BY <2>5, <3>1, <3>2 DEF Known
  <2> QED BY <2>4, <2>5
<1>3. Known \subseteq Ids /\ Known' \subseteq Ids
  BY DEF Known
<1> QED BY <1>2, <1>3

LEMMA FormCounts ==
    ASSUME BoundsAssumption, IInv, LogTells, LogCounts, Form
    PROVE  LogCounts'
<1> DEFINE line == <<"FORM", seq + 1>>
<1>1. PICK w \in Writes :
        /\ Calling /\ seq + 1 \in Ids
        /\ active' = Placed(seq + 1, FALSE)[1] /\ queued' = Placed(seq + 1, FALSE)[2]
        /\ outcome' = outcome
        /\ log' = Wrote(file, w, line)[1] /\ Fault(w) /\ CallEnds(w)
  BY DEF Form
<1>2. line \in Line /\ line[1] = "FORM" /\ line[2] = seq + 1
  BY <1>1 DEF Line
<1>3. outcome[seq + 1] = "unformed"
  BY <1>1 DEF IInv, StackInv, Ids
<1>4. Known' = Known \cup {seq + 1}
  <2>1. CASE active = 0 /\ queued = <<>>
    <3>1. active' = seq + 1 /\ queued' = <<>> /\ queued = <<>>
      BY <1>1, <2>1, PlacedIs DEF IInv, StackInv
    <3>2. InQueue = {} /\ InQueue' = {}
      BY <3>1 DEF InQueue
    <3>3. ASSUME NEW h \in Ids PROVE h \in Known' <=> h \in Known \cup {seq + 1}
      <4>1. h # 0
        BY DEF Ids
      <4> QED BY <1>1, <2>1, <3>1, <3>2, <4>1 DEF Known
    <3>4. Known \subseteq Ids /\ Known' \subseteq Ids
      BY DEF Known
    <3> QED BY <1>1, <3>3, <3>4
  <2>2. CASE active # 0 \/ queued # <<>>
    <3>1. active' = active /\ queued' = Append(queued, seq + 1) /\ queued \in Seq(Ids)
      BY <1>1, <2>2, PlacedIs DEF IInv, StackInv
    <3>2. InQueue' = InQueue \cup {seq + 1}
      <4>1. /\ Len(queued) \in Nat /\ Len(queued') = Len(queued) + 1
            /\ \A i \in 1 .. Len(queued) : queued'[i] = queued[i]
            /\ queued'[Len(queued) + 1] = seq + 1
        BY <3>1
      <4>2. 1 .. Len(queued') = (1 .. Len(queued)) \cup {Len(queued) + 1}
        BY <4>1
      <4> QED BY <4>1, <4>2 DEF InQueue
    <3> QED BY <1>1, <3>1, <3>2 DEF Known
  <2> QED BY <2>1, <2>2
<1>5. base' = base
  BY <1>1 DEF CallEnds
<1> HIDE DEF line
<1> QED BY <1>1, <1>2, <1>3, <1>4, <1>5, LineIsCounted

LEMMA ResolveCounts ==
    ASSUME BoundsAssumption, IInv, LogTells, LogCounts,
           NEW o \in {"CONFIRMED", "ABANDONED"}, Resolve(o)
    PROVE  LogCounts'
<1> DEFINE line == <<o, active>>
<1>1. PICK w \in Writes :
        /\ Calling /\ active # 0 /\ log' = Wrote(file, w, line)[1]
        /\ w = "ok" => /\ active' = Promotion[1] /\ queued' = Promotion[2]
                       /\ outcome' = [outcome EXCEPT ![active] = o] /\ seq' = seq
        /\ Fault(w) /\ CallEnds(w)
  BY DEF Resolve
<1>2. active \in Ids /\ outcome[active] = "unformed"
  BY <1>1, ActiveIsOpen
<1>3. line \in Line /\ line[1] = o /\ line[1] # "FORM" /\ line[2] = active /\ o \in Outcomes
  BY <1>2 DEF Line, Outcomes
<1>4. w = "ok" => Known' = Known
  <2> SUFFICES ASSUME w = "ok" PROVE Known' = Known
    OBVIOUS
  <2>1. Left(0, o) /\ 0 \in 0 .. Len(queued)
    BY <1>1, <1>3, PromotionLeaves DEF IInv, StackInv
  <2> QED BY <1>1, <1>3, <2>1, LeftKnows DEF IInv
<1>5. base' = base
  BY <1>1 DEF CallEnds
<1> HIDE DEF line
<1> QED BY <1>1, <1>2, <1>3, <1>4, <1>5, LineIsCounted

LEMMA PivotCounts ==
    ASSUME BoundsAssumption, IInv, LogTells, LogCounts, Pivot
    PROVE  LogCounts'
<1> DEFINE parent == <<"PIVOTED", active>>
           child == <<"FORM", seq + 1>>
<1>1. PICK w \in Writes :
        /\ Calling /\ active # 0 /\ seq + 1 \in Ids
        /\ log' = Wrote(Wrote(file, "ok", parent), w, child)[1]
        /\ active' = Placed(seq + 1, TRUE)[1] /\ queued' = Placed(seq + 1, TRUE)[2]
        /\ outcome' = [outcome EXCEPT ![active] = "PIVOTED"]
        /\ Fault(w) /\ CallEnds(w)
  BY DEF Pivot
<1>2. CASE w # "ok"
  BY <1>1, <1>2, FaultKeepsBounds DEF LogCounts
<1>3. CASE w = "ok"
  <2> SUFFICES ASSUME ~suspect' PROVE Counts(log', base', Known')
    BY DEF LogCounts
  <2>1. suspect' = suspect /\ base' = base
    BY <1>1, <1>3 DEF Fault, CallEnds
  <2>2. /\ ~torn /\ Explains(log, base, Replayed(log, base), outcome)
        /\ Counts(log, base, Known)
    BY <2>1, Zenon DEF LogTells, Tells, LogCounts
  <2>3. torn = FALSE /\ log \in Seq(Line) /\ base \in Nat /\ base <= Len(log)
    BY <2>2, Zenon DEF IInv, LogInv, RunInv, Explains
  <2>4. /\ active \in Ids /\ outcome[active] = "unformed"
        /\ outcome \in [Ids -> Outcomes \cup {"unformed"}]
    BY <1>1, ActiveIsOpen
  <2>5. /\ parent \in Line /\ parent[1] = "PIVOTED" /\ parent[2] = active
        /\ child \in Line /\ child[1] = "FORM" /\ child[2] = seq + 1
    BY <1>1, <2>4 DEF Line, Outcomes
  <2>6. Known' = Known \cup {seq + 1}
    <3>1. active' = seq + 1 /\ queued' = queued
      BY <1>1, PlacedIs DEF IInv
    <3>2. InQueue' = InQueue
      BY <3>1 DEF InQueue
    <3>3. \A h \in Ids : outcome'[h] = IF h = active THEN "PIVOTED" ELSE outcome[h]
      BY <1>1, <2>4
    <3> QED BY <1>1, <2>4, <3>1, <3>2, <3>3 DEF Known
  <2> HIDE DEF parent, child
  <2>7. log' = Append(Append(log, parent), child)
    <3>1. Wrote(file, "ok", parent) = <<Append(log, parent), FALSE>>
      BY <2>3, WroteOk DEF file
    <3>2. Wrote(<<Append(log, parent), FALSE>>, w, child)
             = <<Append(Append(log, parent), child), FALSE>>
      BY <1>3, WroteOk
    <3>3. log' = Wrote(<<Append(log, parent), FALSE>>, w, child)[1]
      BY <1>1, <3>1, Zenon
    <3> DEFINE lines == Append(Append(log, parent), child)
    <3> HIDE DEF lines
    <3>4. log' = <<lines, FALSE>>[1]
      BY <3>2, <3>3, Zenon DEF lines
    <3>5. log' = lines
      BY <3>4
    <3> QED BY <3>5 DEF lines
  <2>8. /\ Append(log, parent) \in Seq(Line) /\ Len(Append(log, parent)) = Len(log) + 1
        /\ base <= Len(Append(log, parent))
    BY <2>3, <2>5
  <2>9. Counts(Append(log, parent), base, Known)
    <3>1. \A n \in base + 1 .. Len(log) : log[n][1] \in Outcomes => log[n][2] # parent[2]
      BY <2>2, <2>3, <2>4, <2>5, UnresolvedInLog
    <3> QED BY <2>2, <2>3, <2>5, <3>1, CountsNext
  <2>10. \A n \in base + 1 .. Len(Append(log, parent)) :
            Append(log, parent)[n][1] \in Outcomes => Append(log, parent)[n][2] # child[2]
    <3> TAKE n \in base + 1 .. Len(Append(log, parent))
    <3>1. CASE n = Len(log) + 1
      <4>1. Append(log, parent)[n] = parent
        BY <2>3, <2>5, <3>1
      <4>2. active <= seq /\ active \in Nat /\ seq \in Nat
        BY <1>1 DEF IInv, StackInv, OnePlaceEach
      <4> QED BY <2>5, <4>1, <4>2
    <3>2. CASE n # Len(log) + 1
      <4>1. n \in 1 .. Len(log) /\ Append(log, parent)[n] = log[n]
        BY <2>3, <2>5, <2>8, <3>2
      <4>2. log[n][2] <= seq /\ seq \in Nat /\ log[n] \in Line
        BY <2>3, <4>1 DEF IInv, StackInv, LogInv
      <4>3. log[n][2] \in Nat
        BY <4>2 DEF Line, Ids
      <4> QED BY <2>5, <4>1, <4>2, <4>3
    <3> QED BY <3>1, <3>2
  <2>11. Counts(Append(Append(log, parent), child), base, Known')
    BY <2>3, <2>5, <2>6, <2>8, <2>9, <2>10, CountsNext
  <2> QED BY <2>1, <2>7, <2>11
<1> QED BY <1>2, <1>3

LEMMA BlankPivotCounts ==
    ASSUME BoundsAssumption, IInv, LogTells, LogCounts, BlankPivot
    PROVE  LogCounts'
<1> DEFINE line == <<"PIVOTED", active>>
<1>1. /\ active # 0 /\ active' = 0 /\ queued' = queued /\ UNCHANGED <<faults, base, suspect>>
      /\ log' = Wrote(file, "ok", line)[1]
      /\ outcome' = [outcome EXCEPT ![active] = "PIVOTED"]
  BY DEF BlankPivot
<1>2. /\ active \in Ids /\ outcome[active] = "unformed"
      /\ outcome \in [Ids -> Outcomes \cup {"unformed"}]
  BY <1>1, ActiveIsOpen
<1>3. line \in Line /\ line[1] # "FORM" /\ line[2] = active
  BY <1>2 DEF Line, Outcomes
<1>4. Known' = Known
  <2>1. InQueue' = InQueue
    BY <1>1 DEF InQueue
  <2>2. \A h \in Ids : outcome'[h] = IF h = active THEN "PIVOTED" ELSE outcome[h]
    BY <1>1, <1>2
  <2>3. \A h \in Ids : h # 0
    BY DEF Ids
  <2> QED BY <1>1, <1>2, <2>1, <2>2, <2>3 DEF Known
<1>5. Fault("ok") /\ "ok" \in Writes
  BY <1>1 DEF Fault, Writes
<1> HIDE DEF line
<1> QED BY <1>1, <1>2, <1>3, <1>4, <1>5, LineIsCounted

LEMMA UsageLimitCounts ==
    ASSUME BoundsAssumption, IInv, LogTells, LogCounts, UsageLimit
    PROVE  LogCounts'
<1>1. CASE active = 0
  <2>1. UNCHANGED <<active, queued, outcome, file, suspect, base>>
    BY <1>1 DEF UsageLimit, Finished
  <2> QED BY <2>1 DEF LogCounts, Known, InQueue, file
<1>2. CASE active # 0
  <2> DEFINE line == <<"ABANDONED", active>>
  <2>1. PICK w \in Writes :
          /\ log' = Wrote(file, w, line)[1]
          /\ w = "ok" => CloseFirst(1)
          /\ Fault(w) /\ base' = base /\ seq' = seq
    BY <1>2 DEF UsageLimit, Finished
  <2>2. active \in Ids /\ outcome[active] = "unformed"
    BY <1>2, ActiveIsOpen
  <2>3. line \in Line /\ line[1] # "FORM" /\ line[2] = active /\ "ABANDONED" \in Outcomes
    BY <2>2 DEF Line, Outcomes
  <2>4. w = "ok" => Known' = Known
    <3> SUFFICES ASSUME w = "ok" PROVE Known' = Known
      OBVIOUS
    <3>1. 1 \in 1 .. Len(OpenLine)
      BY <1>2, OpenLineIs DEF IInv, StackInv
    <3>2. 1 - 1 \in 0 .. Len(queued) /\ Left(1 - 1, "ABANDONED")
      BY <1>2, <2>1, <3>1, CloseFirstLeaves DEF IInv
    <3> QED BY <1>2, <2>3, <3>2, LeftKnows DEF IInv
  <2> HIDE DEF line
  <2> QED BY <2>1, <2>2, <2>3, <2>4, LineIsCounted
<1> QED BY <1>1, <1>2

\* The closing of the open hypotheses forms none.
LEMMA ClosingCounts ==
    ASSUME BoundsAssumption, IInv, active # 0, NEW exact,
           Tells(log, base, <<active, queued>>, outcome, exact), Counts(log, base, Known)
    PROVE  \A k \in 0 .. Len(OpenLine) : Counts(log \o ClosingLines(k), base, Known)
<1> DEFINE N == Len(OpenLine)
           Told == {k \in 0 .. N : Counts(log \o ClosingLines(k), base, Known)}
<1>1. N \in Nat /\ log \in Seq(Line) /\ base \in Nat
  BY OpenLineIs DEF IInv, LogInv, RunInv, StackInv
<1>2. 0 \in Told
  <2>1. ClosingLines(0) = <<>>
    BY DEF ClosingLines
  <2>2. log \o ClosingLines(0) = log
    BY <1>1, <2>1
  <2>3. Counts(log \o ClosingLines(0), base, Known)
    BY <2>2
  <2> QED BY <1>1, <2>3
<1>3. ASSUME NEW k \in 0 .. N, k \in Told, k < N PROVE k + 1 \in Told
  <2> DEFINE line == <<"ABANDONED", OpenLine[k + 1]>>
             lines == log \o ClosingLines(k)
  <2>1. /\ OpenLine[k + 1] \in Ids /\ outcome[OpenLine[k + 1]] = "unformed"
        /\ \A i \in 1 .. k : OpenLine[i] # OpenLine[k + 1]
    BY <1>3, HeldNext, LineIsOpen DEF IInv
  <2>2. lines \in Seq(Line) /\ log \o ClosingLines(k + 1) = Append(lines, line)
    BY <1>3, ClosingLine
  <2>3. line \in Line /\ line[1] # "FORM" /\ line[2] = OpenLine[k + 1]
    BY <2>1 DEF Line, Outcomes
  <2>4. ClosedUpTo(k)[OpenLine[k + 1]] = "unformed"
    <3>1. ~ \E i \in 1 .. k : OpenLine[k + 1] = OpenLine[i]
      BY <2>1
    <3> QED BY <2>1, <3>1 DEF ClosedUpTo
  <2>5. Explains(lines, base, Replayed(lines, base), ClosedUpTo(k)) /\ Counts(lines, base, Known)
    BY <1>3, ClosingExplained DEF Tells
  <2> HIDE DEF line, lines
  <2>6. base <= Len(lines)
    BY <2>5 DEF Explains
  <2>7. \A n \in base + 1 .. Len(lines) : lines[n][1] \in Outcomes => lines[n][2] # line[2]
    BY <1>1, <2>1, <2>2, <2>3, <2>4, <2>5, UnresolvedInLog
  <2>8. Counts(Append(lines, line), base, Known)
    BY <1>1, <2>2, <2>3, <2>5, <2>6, <2>7, CountsNext
  <2>9. k + 1 \in 0 .. N
    BY <1>1, <1>3
  <2> QED BY <2>2, <2>8, <2>9
<1>4. 0 .. N \subseteq Told
  <2> HIDE DEF N, Told
  <2> QED BY <1>1, <1>2, <1>3, IntervalInduction
<1> QED BY <1>4

LEMMA CompleteCounts ==
    ASSUME BoundsAssumption, IInv, LogTells, LogCounts, Complete
    PROVE  LogCounts'
<1> DEFINE n == Len(OpenLine)
<1>0. CASE active = 0
  <2>1. UNCHANGED <<active, queued, outcome, file, suspect, base>>
    BY <1>0 DEF Complete, Finished
  <2> QED BY <2>1 DEF LogCounts, Known, InQueue, file
<1> SUFFICES ASSUME active # 0
             PROVE  LogCounts'
  BY <1>0
<1>1. PICK k \in 0 .. n, w \in Writes :
        /\ w = "ok" <=> k = n
        /\ IF k = 0 THEN UNCHANGED <<active, queued, outcome>> ELSE CloseFirst(k)
        /\ w = "ok" => log' = Closing(k)[1]
        /\ Fault(w) /\ base' = base
  BY DEF Complete, Finished
<1>2. CASE w # "ok"
  BY <1>1, <1>2, FaultKeepsBounds DEF LogCounts
<1>3. CASE w = "ok"
  <2> SUFFICES ASSUME ~suspect' PROVE Counts(log', base', Known')
    BY DEF LogCounts
  <2>1. suspect' = suspect /\ seq' = seq
    BY <1>1, <1>3 DEF Fault, Complete
  <2>2. /\ ~torn /\ Tells(log, base, <<active, queued>>, outcome, ~childless)
        /\ Counts(log, base, Known)
    BY <2>1, Zenon DEF LogTells, LogCounts
  <2>3. torn = FALSE
    BY <2>2, Zenon DEF IInv, LogInv
  <2>4. CASE k = 0
    <3>1. Closing(k) = file
      BY <2>4 DEF Closing
    <3>2. log' = log
      BY <1>1, <1>3, <3>1 DEF file
    <3>3. UNCHANGED <<active, queued, outcome>>
      BY <1>1, <2>4
    <3>4. Known' = Known
      BY <3>3 DEF Known, InQueue
    <3> QED BY <1>1, <2>2, <3>2, <3>4
  <2>5. CASE k # 0
    <3>1. Closing(k) = <<log \o ClosingLines(k), FALSE>>
      BY <2>3, <2>5 DEF Closing
    <3>2. log' = log \o ClosingLines(k)
      BY <1>1, <1>3, <3>1
    <3>3. CloseFirst(k)
      BY <1>1, <2>5
    <3>4. n \in Nat
      BY OpenLineIs DEF IInv, StackInv
    <3>5. k \in 1 .. n
      BY <2>5, <3>4
    <3>6. k - 1 \in 0 .. Len(queued) /\ Left(k - 1, "ABANDONED")
      BY <2>1, <3>3, <3>5, CloseFirstLeaves DEF IInv
    <3>7. "ABANDONED" \in Outcomes
      BY DEF Outcomes
    <3>8. Known' = Known
      BY <3>5, <3>6, <3>7, LeftKnows DEF IInv
    <3> QED BY <1>1, <2>2, <3>2, <3>8, ClosingCounts
  <2> QED BY <2>4, <2>5
<1> QED BY <1>2, <1>3

LEMMA OthersCount ==
    ASSUME BoundsAssumption, IInv, LogCounts,
           Start \/ Die \/ Request \/ BlankForm \/ OtherCall \/ BlockedCall \/ UNCHANGED vars
    PROVE  LogCounts'
<1>1. CASE Start
  <2>1. /\ active' = 0 /\ queued' = <<>> /\ outcome' = [h \in Ids |-> "unformed"]
        /\ log' = log /\ base' = Len(log)
    BY <1>1 DEF Start, file
  <2>2. Len(log) \in Nat
    BY DEF IInv, LogInv
  <2>3. InQueue' = {}
    BY <2>1 DEF InQueue
  <2>4. Known' = {}
    BY <2>1, <2>3 DEF Known, Ids
  <2>5. Len(log) + 1 .. Len(log) = {}
    BY <2>2
  <2>6. Counts(log, Len(log), {})
    BY <2>5 DEF Counts
  <2> QED BY <2>1, <2>4, <2>6 DEF LogCounts
<1>2. CASE Die \/ Request \/ BlankForm \/ OtherCall \/ BlockedCall \/ UNCHANGED vars
  <2>1. UNCHANGED <<active, queued, outcome, log, base, suspect>>
    BY <1>2 DEF Die, Request, BlankForm, OtherCall, BlockedCall, Finished, vars, stack, file
  <2> QED BY <2>1 DEF LogCounts, Known, InQueue
<1> QED BY <1>1, <1>2

LEMMA StepCounts ==
    ASSUME BoundsAssumption, IInv, LogTells, LogCounts, [Next]_vars
    PROVE  LogCounts'
<1>1. CASE Start \/ Die \/ Request \/ BlankForm \/ OtherCall \/ BlockedCall \/ UNCHANGED vars
  BY <1>1, OthersCount
<1>2. CASE Form
  BY <1>2, FormCounts
<1>3. CASE Resolve("CONFIRMED") \/ Resolve("ABANDONED")
  BY <1>3, ResolveCounts
<1>4. CASE PivotRefused
  <2>1. PICK w \in Writes : w # "ok" /\ Fault(w)
    BY <1>4 DEF PivotRefused
  <2> QED BY <2>1, FaultKeepsBounds DEF LogCounts
<1>5. CASE Pivot
  BY <1>5, PivotCounts
<1>6. CASE Complete
  BY <1>6, CompleteCounts
<1>7. CASE UsageLimit
  BY <1>7, UsageLimitCounts
<1>8. CASE BlankPivot
  BY <1>8, BlankPivotCounts
<1> QED
  BY <1>1, <1>2, <1>3, <1>4, <1>5, <1>6, <1>7, <1>8 DEF Next, AgentStep

LEMMA InitCounts == ASSUME BoundsAssumption, Init PROVE LogCounts
<1>1. active = 0 /\ queued = <<>> /\ outcome = [h \in Ids |-> "unformed"] /\ log = <<>> /\ base = 0
  BY DEF Init
<1>2. InQueue = {} /\ Len(log) = 0
  BY <1>1 DEF InQueue
<1>3. Known = {}
  BY <1>1, <1>2 DEF Known, Ids
<1>4. 0 + 1 .. 0 = {}
  OBVIOUS
<1> QED BY <1>1, <1>2, <1>3, <1>4 DEF LogCounts, Counts

-----------------------------------------------------------------------------
(* The views of a run *)

\* The rows of agent.jsonl.
Row == {[type |-> "step"], [type |-> "checkpoint"]}
       \cup [type : {"finish"}, state : {"COMPLETED", "ERROR", "LIMIT"},
             snap : [open : Seq(Ids), outcome : [Ids -> Outcomes \cup {"unformed"}]]]

\* What the tail has gone through is what it has printed, a line that cannot
\* be read as 0, whether or not it could be read when it was cut.
TailInv == /\ raw \in Seq({"whole", "spoilt"})
           /\ seen \in 0 .. LineCount /\ printed \in Seq(Nat) /\ Len(printed) = seen
           /\ \A i \in 1 .. seen : printed[i] = IF i <= Len(raw) /\ raw[i] = "whole" THEN i ELSE 0
           /\ exit = "0" => seen = LineCount

ExitInv == /\ exit \in {"result", "0"} => ~running
           /\ exit = "0" => finish.state = "COMPLETED"

ScreenInv == /\ running => screen = Snapshot
             /\ running /\ active = 0 => left <= RequestLimit - requests + 1
             /\ running /\ active # 0 => left <= Remaining(active, steps) + 1

RowsInv == /\ rows \in Seq(Row) /\ rowFaults \in Nat
           /\ rowFaults = 0 => /\ ~rowTorn /\ requests <= StepRows(rows)
                               /\ runs <= 1 => StepRows(rows) = requests
           /\ told => /\ ~running /\ rows # <<>>
                      /\ rows[Len(rows)] = [type |-> "finish", state |-> finish.state,
                                            snap |-> Snapshot]

\* Before the second run no line has been spoilt by a cut one.
FirstRunInv == /\ runs = 0 => rows = <<>> /\ log = <<>> /\ ~running /\ ~torn
               /\ runs <= 1 => /\ base = 0 /\ \A i \in 1 .. Len(raw) : raw[i] = "whole"
                               /\ running => ~torn

ViewsInv == TailInv /\ ExitInv /\ ScreenInv /\ RowsInv /\ FirstRunInv

\* Every view step is a step of the stack, or none.
LEMMA ViewSteps == [ViewNext]_<<vars, views>> => [Next]_vars
  BY DEF ViewNext, ViewStart, ViewRequest, ViewCall, ViewFinish, Interrupted, Lost,
         Poll, Return, Next, AgentStep

\* What needs a run under way.
LEMMA RunningSteps ==
    /\ ViewRequest \/ ViewCall \/ ViewFinish \/ Interrupted \/ Lost \/ Poll => running
    /\ ViewFinish \/ Interrupted \/ Lost => running' = FALSE
<1>1. ViewRequest \/ ViewCall \/ Interrupted \/ Lost \/ Poll => running
  BY DEF ViewRequest, Request, ViewCall, Form, Resolve, PivotRefused, Pivot, BlankForm,
         BlankPivot, OtherCall, Calling, Interrupted, Lost, Die, Poll
<1>2. ViewFinish => running
  BY DEF ViewFinish, Complete, UsageLimit, BlockedCall, Calling
<1>3. ViewFinish \/ Interrupted \/ Lost => running' = FALSE
  BY DEF ViewFinish, Complete, UsageLimit, BlockedCall, Finished, Interrupted, Lost, Die
<1> QED BY <1>1, <1>2, <1>3

(* The tail *)

LEMMA Repeated ==
    ASSUME NEW k \in Int, NEW b, NEW s \in [1 .. k -> {b}]
    PROVE  /\ s \in Seq({b}) /\ \A i \in 1 .. Len(s) : s[i] = b
           /\ Len(s) \in Nat /\ (Len(s) > 0 <=> k > 0)
<1> DEFINE n == IF k > 0 THEN k ELSE 0
<1>1. n \in Nat /\ 1 .. n = 1 .. k /\ (n > 0 <=> k > 0)
  OBVIOUS
<1> HIDE DEF n
<1>2. s \in [1 .. n -> {b}]
  BY <1>1
<1>3. s \in Seq({b}) /\ Len(s) = n
  BY <1>1, <1>2
<1>4. \A i \in 1 .. n : s[i] = b
  BY <1>2
<1> QED BY <1>1, <1>3, <1>4

\* The lines of a step come behind the ones that were there, and the line that
\* was cut before it, if it comes to be one, cannot be read.
LEMMA LinesGrow ==
    ASSUME IInv, IInv', raw \in Seq({"whole", "spoilt"}), raw' = raw \o NewLines
    PROVE  /\ raw' \in Seq({"whole", "spoilt"}) /\ Len(raw) \in Nat /\ Len(raw') \in Nat
           /\ Len(raw) <= Len(raw') /\ \A i \in 1 .. Len(raw) : raw'[i] = raw[i]
           /\ torn => /\ Len(raw) < Len(raw') => raw'[Len(raw) + 1] = "spoilt"
                      /\ Len(raw) < Len(raw') \/ torn'
           /\ ~torn => \A i \in Len(raw) + 1 .. Len(raw') : raw'[i] = "whole"
<1> DEFINE whole == [i \in 1 .. Len(log') - Len(log) |-> "whole"]
           Kinds == {"whole", "spoilt"}
<1>1. Len(log') \in Nat /\ Len(log) \in Nat /\ Len(log') - Len(log) \in Int /\ Len(raw) \in Nat
  BY DEF IInv, LogInv
<1>2. /\ whole \in Seq(Kinds) /\ \A i \in 1 .. Len(whole) : whole[i] = "whole"
      /\ Len(whole) \in Nat /\ (Len(whole) > 0 <=> Len(log') - Len(log) > 0)
  <2>1. whole \in [1 .. Len(log') - Len(log) -> {"whole"}]
    OBVIOUS
  <2> HIDE DEF whole
  <2>2. /\ whole \in Seq({"whole"}) /\ \A i \in 1 .. Len(whole) : whole[i] = "whole"
        /\ Len(whole) \in Nat /\ (Len(whole) > 0 <=> Len(log') - Len(log) > 0)
    BY <1>1, <2>1, Repeated
  <2>3. whole \in Seq(Kinds)
    BY <2>2
  <2> QED BY <2>2, <2>3
<1> HIDE DEF whole
<1>4. Len(log') > Len(log) <=> Len(whole) > 0
  BY <1>1, <1>2
<1>5. CASE Merged
  <2>1. NewLines = <<"spoilt">> \o whole /\ torn
    BY <1>5 DEF NewLines, Merged, whole
  <2>2. /\ NewLines \in Seq(Kinds) /\ Len(NewLines) = Len(whole) + 1 /\ NewLines[1] = "spoilt"
    BY <1>2, <2>1
  <2> QED BY <1>1, <1>2, <2>1, <2>2
<1>6. CASE ~Merged
  <2>1. NewLines = whole
    <3>1. NewLines = <<>> \o whole
      BY <1>6 DEF NewLines, whole
    <3> QED BY <1>2, <3>1
  <2>2. torn => torn' /\ ~(Len(log') > Len(log))
    BY <1>6 DEF Merged
  <2>3. torn => Len(whole) = 0
    BY <1>2, <1>4, <2>2
  <2>4. /\ raw' \in Seq(Kinds) /\ Len(raw') = Len(raw) + Len(whole)
        /\ \A i \in 1 .. Len(raw) : raw'[i] = raw[i]
        /\ \A i \in Len(raw) + 1 .. Len(raw') : raw'[i] = "whole"
    BY <1>1, <1>2, <2>1
  <2> QED BY <1>1, <1>2, <2>2, <2>3, <2>4
<1> QED BY <1>5, <1>6

LEMMA LookReads ==
    ASSUME IInv, TailInv, Look, UNCHANGED <<raw, torn>>, exit' \in {"0", "1", exit}
    PROVE  TailInv'
<1> DEFINE more == [i \in 1 .. LineCount - seen |->
                       IF (seen + i) \in BadLines THEN 0 ELSE seen + i]
           Good(i) == i <= Len(raw) /\ raw[i] = "whole"
<1>1. /\ Len(raw) \in Nat /\ LineCount \in Nat /\ seen \in Nat /\ LineCount - seen \in Nat
      /\ printed \in Seq(Nat) /\ Len(printed) = seen
      /\ LineCount <= Len(raw) + 1 /\ Len(raw) <= LineCount
      /\ ~torn => LineCount = Len(raw)
  BY DEF TailInv, LineCount
<1>2. printed' = printed \o more /\ seen' = LineCount /\ LineCount' = LineCount /\ raw' = raw
  BY DEF Look, Seen, LineCount
<1>3. ASSUME NEW i \in 1 .. LineCount
      PROVE  i \in BadLines <=> ~Good(i)
  <2>1. raw \in Seq({"whole", "spoilt"})
    BY DEF TailInv
  <2>2. i \in 1 .. Len(raw) => (i \in BadLines <=> raw[i] = "spoilt")
    BY <1>1 DEF BadLines
  <2>3. i \in 1 .. Len(raw) => raw[i] \in {"whole", "spoilt"}
    BY <2>1
  <2>4. i \notin 1 .. Len(raw) => i = Len(raw) + 1 /\ torn
    BY <1>1
  <2>5. i \notin 1 .. Len(raw) => i \in BadLines /\ ~(i <= Len(raw))
    BY <1>1, <2>4 DEF BadLines
  <2>6. i <= Len(raw) <=> i \in 1 .. Len(raw)
    BY <1>1
  <2> QED BY <2>2, <2>3, <2>5, <2>6
<1>4. /\ more \in Seq(Nat) /\ Len(more) = LineCount - seen
      /\ \A i \in 1 .. LineCount - seen : more[i] = IF Good(seen + i) THEN seen + i ELSE 0
  <2>1. \A i \in 1 .. LineCount - seen : seen + i \in 1 .. LineCount /\ seen + i \in Nat
    BY <1>1
  <2>2. \A i \in 1 .. LineCount - seen : more[i] = IF Good(seen + i) THEN seen + i ELSE 0
    BY <1>3, <2>1
  <2>3. more \in [1 .. LineCount - seen -> Nat]
    BY <2>1
  <2> HIDE DEF more, Good
  <2>4. more \in Seq(Nat) /\ Len(more) = LineCount - seen
    BY <1>1, <2>3
  <2> QED BY <2>2, <2>4
<1> HIDE DEF more
<1>5. /\ printed' \in Seq(Nat) /\ Len(printed') = LineCount
      /\ \A i \in 1 .. seen : printed'[i] = printed[i]
      /\ \A i \in seen + 1 .. LineCount : printed'[i] = more[i - seen]
  <2>1. /\ printed \o more \in Seq(Nat) /\ Len(printed \o more) = Len(printed) + Len(more)
        /\ \A i \in 1 .. Len(printed) + Len(more) :
              (printed \o more)[i] = IF i <= Len(printed) THEN printed[i] ELSE more[i - Len(printed)]
    BY <1>1, <1>4
  <2>2. Len(printed) = seen /\ Len(printed) + Len(more) = LineCount
    BY <1>1, <1>4
  <2>3. /\ \A i \in 1 .. seen : i \in 1 .. LineCount /\ i <= seen
        /\ \A i \in seen + 1 .. LineCount : i \in 1 .. LineCount /\ ~(i <= seen)
    BY <1>1
  <2> QED BY <1>2, <2>1, <2>2, <2>3
<1>6. ASSUME NEW i \in 1 .. LineCount
      PROVE  printed'[i] = IF Good(i) THEN i ELSE 0
  <2>1. CASE i \in 1 .. seen
    BY <1>5, <2>1 DEF TailInv
  <2>2. CASE i \notin 1 .. seen
    <3>1. i \in seen + 1 .. LineCount /\ i - seen \in 1 .. LineCount - seen /\ seen + (i - seen) = i
      BY <1>1, <2>2
    <3>2. more[i - seen] = IF Good(i) THEN i ELSE 0
      BY <1>4, <3>1
    <3> QED BY <1>5, <3>1, <3>2
  <2> QED BY <2>1, <2>2
<1>7. /\ raw' \in Seq({"whole", "spoilt"}) /\ seen' \in 0 .. LineCount'
      /\ printed' \in Seq(Nat) /\ Len(printed') = seen' /\ seen' = LineCount'
  BY <1>1, <1>2, <1>5 DEF TailInv
<1>8. \A i \in 1 .. seen' : printed'[i] = IF i <= Len(raw') /\ raw'[i] = "whole" THEN i ELSE 0
  BY <1>2, <1>6
<1> QED BY <1>7, <1>8 DEF TailInv

LEMMA StepTail ==
    ASSUME IInv, IInv', TailInv, ExitInv, [ViewNext]_<<vars, views>>
    PROVE  TailInv'
<1>1. CASE ViewStart
  <2>1. /\ seen' = 0 /\ printed' = <<>> /\ raw' = raw /\ exit' = "none"
        /\ torn' = torn
    BY <1>1 DEF ViewStart, NewViews, Start, file
  <2>2. Len(raw) \in Nat
    BY DEF TailInv
  <2>3. LineCount' = LineCount /\ 0 \in 0 .. LineCount
    BY <2>1, <2>2 DEF LineCount
  <2>4. 1 .. 0 = {}
    OBVIOUS
  <2> QED BY <2>1, <2>3, <2>4 DEF TailInv
<1>2. CASE ViewRequest \/ Interrupted \/ Lost \/ UNCHANGED <<vars, views>>
  <2>1. UNCHANGED <<raw, seen, printed, torn>> /\ exit' \in {exit, "130", "1"}
    BY <1>2 DEF ViewRequest, Request, Interrupted, Lost, Die, file, tail, views, vars
  <2>2. LineCount' = LineCount
    BY <2>1 DEF LineCount
  <2> QED BY <2>1, <2>2 DEF TailInv
<1>3. CASE ViewCall \/ ViewFinish
  <2>1. /\ raw' = raw \o NewLines /\ UNCHANGED <<seen, printed>>
        /\ exit' \in {exit, "1", "result"}
    BY <1>3 DEF ViewCall, ViewFinish, tail
  <2>2. exit # "0"
    BY <1>3, RunningSteps DEF ExitInv
  <2>3. raw \in Seq({"whole", "spoilt"})
    BY DEF TailInv
  <2>4. /\ raw' \in Seq({"whole", "spoilt"}) /\ Len(raw) \in Nat /\ Len(raw') \in Nat
        /\ Len(raw) <= Len(raw') /\ \A i \in 1 .. Len(raw) : raw'[i] = raw[i]
        /\ torn => /\ Len(raw) < Len(raw') => raw'[Len(raw) + 1] = "spoilt"
                   /\ Len(raw) < Len(raw') \/ torn'
    BY <2>1, <2>3, LinesGrow
  <2>5. /\ LineCount \in Nat /\ LineCount' \in Nat /\ LineCount <= LineCount'
        /\ LineCount <= Len(raw) + 1 /\ (LineCount = Len(raw) + 1 => torn)
    BY <2>4 DEF LineCount
  <2>6. /\ seen' = seen /\ printed' = printed /\ seen \in 0 .. LineCount
        /\ printed \in Seq(Nat) /\ Len(printed) = seen
    BY <2>1 DEF TailInv
  <2>7. ASSUME NEW i \in 1 .. seen
        PROVE  printed[i] = IF i <= Len(raw') /\ raw'[i] = "whole" THEN i ELSE 0
    <3>1. printed[i] = IF i <= Len(raw) /\ raw[i] = "whole" THEN i ELSE 0
      BY DEF TailInv
    <3>2. CASE i <= Len(raw)
      <4>1. i \in 1 .. Len(raw) /\ i <= Len(raw')
        BY <2>4, <2>5, <2>6, <3>2
      <4> QED BY <2>4, <3>1, <4>1
    <3>3. CASE ~(i <= Len(raw))
      <4>1. i = Len(raw) + 1 /\ torn
        BY <2>4, <2>5, <2>6, <3>3
      <4>2. i <= Len(raw') => raw'[i] = "spoilt"
        BY <2>4, <4>1
      <4> QED BY <3>1, <3>3, <4>2
    <3> QED BY <3>2, <3>3
  <2>8. seen' \in 0 .. LineCount'
    BY <2>5, <2>6
  <2> QED BY <2>1, <2>2, <2>4, <2>6, <2>7, <2>8 DEF TailInv
<1>4. CASE Poll \/ Return
  <2>1. Look /\ UNCHANGED <<raw, torn>> /\ exit' \in {"0", "1", exit}
    BY <1>4 DEF Poll, Return, vars, file
  <2> QED BY <2>1, LookReads
<1> QED BY <1>1, <1>2, <1>3, <1>4 DEF ViewNext

LEMMA StepExit ==
    ASSUME ExitInv, [ViewNext]_<<vars, views>>
    PROVE  ExitInv'
<1>1. CASE ViewStart
  BY <1>1 DEF ViewStart, ExitInv
<1>2. CASE ViewRequest \/ ViewCall
  <2>1. running /\ exit' \in {exit, "1"}
    BY <1>2, RunningSteps DEF ViewRequest, ViewCall
  <2> QED BY <2>1 DEF ExitInv
<1>3. CASE ViewFinish \/ Interrupted \/ Lost
  <2>1. running' = FALSE /\ exit' \in {"130", "1", "result"}
    BY <1>3, RunningSteps DEF ViewFinish, Interrupted, Lost
  <2> QED BY <2>1 DEF ExitInv
<1>4. CASE Poll \/ UNCHANGED <<vars, views>>
  BY <1>4 DEF Poll, vars, views, agent, ExitInv
<1>5. CASE Return
  BY <1>5 DEF Return, vars, agent, ExitInv
<1> QED BY <1>1, <1>2, <1>3, <1>4, <1>5 DEF ViewNext

LEMMA TailPrintsOnce == ASSUME TailInv PROVE EventsStreamedOnce
<1> DEFINE lines == {i \in 1 .. Len(printed) : printed[i] # 0}
           whole == {i \in 1 .. Len(raw) : raw[i] = "whole" /\ i <= seen}
<1>1. /\ Len(raw) \in Nat /\ seen \in Nat /\ Len(printed) = seen
      /\ \A i \in 1 .. seen : printed[i] = IF i <= Len(raw) /\ raw[i] = "whole" THEN i ELSE 0
      /\ Len(raw) <= LineCount /\ (exit = "0" => seen = LineCount)
  BY DEF TailInv, LineCount
<1>2. lines = whole /\ \A i \in lines : printed[i] = i
  BY <1>1
<1>3. \A i, j \in lines : i < j => printed[i] < printed[j]
  BY <1>2
<1>4. {printed[i] : i \in lines} = whole
  BY <1>2
<1>5. exit = "0" => \A i \in 1 .. Len(raw) : raw[i] = "whole" => i <= seen
  BY <1>1
<1> QED BY <1>3, <1>4, <1>5 DEF EventsStreamedOnce

(* The first run *)

\* A run whose line was written whole goes on, and only such a run does.
LEMMA OnlyWholeGoesOn ==
    ASSUME IInv, ~torn, NEW w \in Writes, NEW line, CallEnds(w),
           torn' = Wrote(file, w, line)[2]
    PROVE  running' => ~torn'
<1>1. CASE w = "ok"
  <2>1. torn = FALSE
    BY Zenon DEF IInv, LogInv
  <2>2. Wrote(file, w, line) = <<Append(log, line), FALSE>>
    BY <1>1, <2>1, WroteOk DEF file
  <2>3. torn' = FALSE
    BY <2>2
  <2> QED BY <2>3
<1>2. CASE w # "ok"
  BY <1>2, Zenon DEF CallEnds, CallRaises
<1> QED BY <1>1, <1>2

LEMMA CallsGoOnWhole ==
    ASSUME BoundsAssumption, IInv, ~torn,
           \/ Form \/ Resolve("CONFIRMED") \/ Resolve("ABANDONED")
           \/ PivotRefused \/ Pivot \/ BlankForm \/ BlankPivot
    PROVE  running' => ~torn'
<1>1. CASE Form
  <2>1. PICK w \in Writes : /\ torn' = Wrote(file, w, <<"FORM", seq + 1>>)[2]
                            /\ CallEnds(w)
    BY <1>1 DEF Form
  <2> QED BY <2>1, OnlyWholeGoesOn
<1>2. ASSUME NEW o \in {"CONFIRMED", "ABANDONED"}, Resolve(o)
      PROVE  running' => ~torn'
  <2>1. PICK w \in Writes : /\ torn' = Wrote(file, w, <<o, active>>)[2]
                            /\ CallEnds(w)
    BY <1>2 DEF Resolve
  <2> QED BY <2>1, OnlyWholeGoesOn
<1>3. CASE PivotRefused
  <2>1. PICK w \in Writes \ {"ok"} : CallEnds(w)
    BY <1>3 DEF PivotRefused
  <2> QED BY <2>1, Zenon DEF CallEnds, CallRaises
<1>4. CASE Pivot
  <2> DEFINE first == Wrote(file, "ok", <<"PIVOTED", active>>)
             child == <<"FORM", seq + 1>>
  <2>1. PICK w \in Writes : torn' = Wrote(first, w, child)[2] /\ CallEnds(w)
    BY <1>4 DEF Pivot
  <2>2. torn = FALSE
    BY Zenon DEF IInv, LogInv
  <2> DEFINE lines == Append(log, <<"PIVOTED", active>>)
  <2>3. first = <<lines, FALSE>>
    BY <2>2, WroteOk DEF file
  <2> HIDE DEF first, lines, child
  <2>4. CASE w = "ok"
    <3>1. Wrote(first, w, child) = <<Append(lines, child), FALSE>>
      BY <2>3, <2>4, WroteOk
    <3>2. torn' = FALSE
      BY <2>1, <3>1
    <3> QED BY <3>2
  <2>5. CASE w # "ok"
    BY <2>1, <2>5, Zenon DEF CallEnds, CallRaises
  <2> QED BY <2>4, <2>5
<1>5. CASE BlankForm
  <2>1. torn' = torn
    BY <1>5 DEF BlankForm, file
  <2> QED BY <2>1
<1>6. CASE BlankPivot
  <2>1. torn = FALSE
    BY Zenon DEF IInv, LogInv
  <2>2. Wrote(file, "ok", <<"PIVOTED", active>>) = <<Append(log, <<"PIVOTED", active>>), FALSE>>
    BY <2>1, WroteOk DEF file
  <2>3. torn' = Wrote(file, "ok", <<"PIVOTED", active>>)[2]
    BY <1>6 DEF BlankPivot
  <2> DEFINE first == Wrote(file, "ok", <<"PIVOTED", active>>)
             lines == Append(log, <<"PIVOTED", active>>)
  <2>4. torn' = first[2] /\ first = <<lines, FALSE>>
    BY <2>2, <2>3
  <2> HIDE DEF first, lines
  <2>5. torn' = FALSE
    BY <2>4
  <2> QED BY <2>5
<1> QED BY <1>1, <1>2, <1>3, <1>4, <1>5, <1>6

LEMMA StepFirstRun ==
    ASSUME BoundsAssumption, IInv, IInv', TailInv, FirstRunInv, [ViewNext]_<<vars, views>>
    PROVE  FirstRunInv'
<1> DEFINE Whole == \A i \in 1 .. Len(raw) : raw[i] = "whole"
<1>1. runs \in Nat /\ Len(log) \in Nat /\ (log = <<>> => Len(log) = 0)
  BY DEF IInv, RunInv, LogInv, BoundsAssumption
<1>2. /\ runs = 0 => rows = <<>> /\ log = <<>> /\ ~running /\ ~torn
      /\ runs <= 1 => base = 0 /\ Whole
      /\ runs <= 1 /\ running => ~torn
  BY DEF FirstRunInv
<1>3. CASE ViewStart
  <2>1. /\ runs' = runs + 1 /\ base' = Len(log) /\ torn' = torn /\ UNCHANGED <<rows, raw>>
    BY <1>3 DEF ViewStart, Start, file, agentLog
  <2>2. runs' # 0 /\ (runs' <= 1 => runs = 0 /\ runs <= 1)
    BY <1>1, <2>1
  <2>3. runs' <= 1 => base' = 0 /\ Whole' /\ ~torn'
    BY <1>1, <1>2, <2>1, <2>2
  <2> QED BY <2>2, <2>3 DEF FirstRunInv
<1>4. CASE ViewRequest \/ Poll \/ Return \/ UNCHANGED <<vars, views>>
  <2>1. UNCHANGED <<runs, base, raw, torn, log, running>>
    BY <1>4 DEF ViewRequest, Request, Poll, Return, vars, views, agent, file
  <2>2. runs = 0 => rows' = rows
    BY <1>2, <1>4, RunningSteps DEF Return, views, agentLog
  <2> QED BY <1>2, <2>1, <2>2 DEF FirstRunInv
<1>5. CASE Interrupted \/ Lost
  <2>1. UNCHANGED <<runs, base, raw>> /\ running' = FALSE /\ running
    BY <1>5, RunningSteps DEF Interrupted, Lost, Die
  <2>2. runs' # 0
    BY <1>2, <2>1
  <2> QED BY <1>2, <2>1, <2>2 DEF FirstRunInv
<1>6. CASE ViewCall \/ ViewFinish
  <2>1. UNCHANGED <<runs, base>>
    BY <1>6 DEF ViewCall, ViewFinish, Form, Resolve, PivotRefused, Pivot, BlankForm, BlankPivot, OtherCall, CallEnds,
                Complete, UsageLimit, BlockedCall, Finished
  <2>2. running /\ raw' = raw \o NewLines
    BY <1>6, RunningSteps DEF ViewCall, ViewFinish
  <2>3. runs # 0 /\ runs' # 0
    BY <1>2, <2>1, <2>2
  <2>4. ASSUME runs <= 1
        PROVE  Whole'
    <3>1. ~torn /\ Whole
      BY <1>2, <2>2, <2>4
    <3>2. raw \in Seq({"whole", "spoilt"})
      BY DEF TailInv
    <3>3. /\ Len(raw) \in Nat /\ Len(raw') \in Nat /\ \A i \in 1 .. Len(raw) : raw'[i] = raw[i]
          /\ \A i \in Len(raw) + 1 .. Len(raw') : raw'[i] = "whole"
      BY <2>2, <3>1, <3>2, LinesGrow
    <3>4. ASSUME NEW i \in 1 .. Len(raw')
          PROVE  raw'[i] = "whole"
      <4>1. i \in 1 .. Len(raw) \/ i \in Len(raw) + 1 .. Len(raw')
        BY <3>3
      <4> QED BY <3>1, <3>3, <4>1
    <3> QED BY <3>4
  <2>5. ASSUME runs <= 1, running'
        PROVE  ~torn'
    <3>1. ~torn
      BY <1>2, <2>2, <2>5
    <3>2. ViewCall
      BY <1>6, <2>5, RunningSteps
    <3>3. CASE OtherCall
      BY <3>1, <3>3 DEF OtherCall, file
    <3>4. CASE ~OtherCall
      BY <2>5, <3>1, <3>2, <3>4, CallsGoOnWhole DEF ViewCall
    <3> QED BY <3>3, <3>4
  <2> HIDE DEF Whole
  <2>6. runs' <= 1 => base' = 0 /\ Whole' /\ (running' => ~torn')
    BY <1>2, <2>1, <2>4, <2>5
  <2> QED BY <2>3, <2>6 DEF FirstRunInv, Whole
<1> QED BY <1>3, <1>4, <1>5, <1>6 DEF ViewNext

(* The rows of agent.jsonl *)

LEMMA StepRowsCount ==
    ASSUME NEW rws \in Seq(Row)
    PROVE  /\ StepRows(rws) \in Nat
           /\ \A row \in Row : StepRows(Append(rws, row))
                               = StepRows(rws) + IF row.type = "step" THEN 1 ELSE 0
<1> DEFINE S == {i \in 1 .. Len(rws) : rws[i].type = "step"}
           N == Len(rws)
<1>1. N \in Nat
  OBVIOUS
<1>2. IsFiniteSet(S) /\ N + 1 \notin S
  <2>1. IsFiniteSet(1 .. N)
    BY <1>1, FS_Interval
  <2>2. S \subseteq 1 .. N
    OBVIOUS
  <2>3. IsFiniteSet(S)
    <3> HIDE DEF S
    <3> QED BY <2>1, <2>2, FS_Subset
  <2> QED BY <1>1, <2>2, <2>3
<1>3. StepRows(rws) = Cardinality(S)
  BY DEF StepRows
<1>4. ASSUME NEW row \in Row
      PROVE  StepRows(Append(rws, row)) = StepRows(rws) + IF row.type = "step" THEN 1 ELSE 0
  <2> DEFINE more == Append(rws, row)
             T == {i \in 1 .. Len(more) : more[i].type = "step"}
  <2>1. /\ Len(more) = N + 1 /\ more[N + 1] = row /\ \A i \in 1 .. N : more[i] = rws[i]
        /\ 1 .. N + 1 = (1 .. N) \cup {N + 1}
    BY <1>1
  <2> HIDE DEF more
  <2>2. T = IF row.type = "step" THEN S \cup {N + 1} ELSE S
    <3>1. \A i : i \in T <=> i \in S \/ (i = N + 1 /\ row.type = "step")
      BY <1>1, <2>1
    <3> HIDE DEF S, T, N
    <3> QED BY <3>1
  <2>3. StepRows(more) = Cardinality(T)
    BY DEF StepRows
  <2> HIDE DEF S, T
  <2>4. Cardinality(S \cup {N + 1}) = Cardinality(S) + 1
    BY <1>2, FS_AddElement
  <2>5. Cardinality(S) \in Nat
    BY <1>2, FS_CardinalityType
  <2> QED BY <1>3, <2>2, <2>3, <2>4, <2>5 DEF more
<1> HIDE DEF S
<1> QED BY <1>2, <1>3, <1>4, FS_CardinalityType

LEMMA AppendRowIs ==
    ASSUME rowFaults \in Nat, rowFaults = 0 => ~rowTorn, NEW row, AppendRow(row)
    PROVE  /\ rows' = rows \/ rows' = Append(rows, row)
           /\ rowFaults' \in Nat
           /\ rowFaults' = 0 => rowFaults = 0 /\ rows' = Append(rows, row) /\ ~rowTorn'
<1>1. PICK w \in Writes : /\ rows' = Wrote(agentLog, w, row)[1]
                          /\ rowTorn' = Wrote(agentLog, w, row)[2]
                          /\ RowFault(w)
  BY DEF AppendRow
<1>2. /\ w \in {"ok", "landed"} => Wrote(agentLog, w, row)
                                  = IF rowTorn THEN <<rows, FALSE>> ELSE <<Append(rows, row), FALSE>>
      /\ w = "nothing" => Wrote(agentLog, w, row) = agentLog
      /\ w = "cut" => Wrote(agentLog, w, row) = <<rows, TRUE>>
  BY DEF Wrote, agentLog
<1>3. w \in {"ok", "landed"} \/ w = "nothing" \/ w = "cut"
  BY DEF Writes
<1>4. rows' = rows \/ rows' = Append(rows, row)
  <2>1. CASE w \in {"ok", "landed"} /\ rowTorn
    <3>1. Wrote(agentLog, w, row) = <<rows, FALSE>>
      BY <1>2, <2>1
    <3> QED BY <1>1, <3>1
  <2>2. CASE w \in {"ok", "landed"} /\ ~rowTorn
    <3>1. Wrote(agentLog, w, row) = <<Append(rows, row), FALSE>>
      BY <1>2, <2>2
    <3> QED BY <1>1, <3>1
  <2>3. CASE w = "nothing"
    <3>1. Wrote(agentLog, w, row) = <<rows, rowTorn>>
      BY <1>2, <2>3 DEF agentLog
    <3> QED BY <1>1, <3>1
  <2>4. CASE w = "cut"
    <3>1. Wrote(agentLog, w, row) = <<rows, TRUE>>
      BY <1>2, <2>4
    <3> QED BY <1>1, <3>1
  <2> QED BY <1>3, <2>1, <2>2, <2>3, <2>4
<1>5. rowFaults' \in Nat /\ (rowFaults' = 0 => rowFaults = 0 /\ w = "ok")
  BY <1>1 DEF RowFault
<1>6. ASSUME rowFaults' = 0
      PROVE  rows' = Append(rows, row) /\ ~rowTorn'
  <2>1. w = "ok" /\ ~rowTorn
    BY <1>5, <1>6
  <2>2. Wrote(agentLog, w, row) = <<Append(rows, row), FALSE>>
    BY <1>2, <2>1
  <2> HIDE <1>2
  <2>3. rows' = Append(rows, row)
    BY <1>1, <2>2
  <2>4. rowTorn' = FALSE
    BY <1>1, <2>2
  <2> QED BY <2>3, <2>4
<1> QED BY <1>4, <1>5, <1>6

LEMMA SnapshotIs ==
    ASSUME BoundsAssumption, IInv
    PROVE  /\ Snapshot \in [open : Seq(Ids), outcome : [Ids -> Outcomes \cup {"unformed"}]]
           /\ Snapshot.open = OpenLine /\ Snapshot.outcome = outcome
<1>1. CASE active = 0
  BY <1>1, OpenLineIdle DEF IInv, StackInv, Snapshot
<1>2. CASE active # 0
  BY <1>2, OpenLineIs DEF IInv, StackInv, Snapshot
<1> QED BY <1>1, <1>2

LEMMA FinishRowIs ==
    ASSUME BoundsAssumption, IInv, IInv', ViewFinish
    PROVE  /\ AppendRow([type |-> "finish", state |-> finish'.state, snap |-> Snapshot'])
           /\ [type |-> "finish", state |-> finish'.state, snap |-> Snapshot'] \in Row
           /\ told' = (rows' # rows)
<1>1. finish'.open = OpenLine' /\ finish'.state \in {"COMPLETED", "ERROR", "LIMIT"}
  BY FinishSaysOpen DEF ViewFinish
<1>2. [open |-> finish'.open, outcome |-> outcome'] = Snapshot'
  BY <1>1 DEF Snapshot
<1>3. Snapshot' \in [open : Seq(Ids), outcome : [Ids -> Outcomes \cup {"unformed"}]]
  <2>1. /\ active' \in 0 .. MaxHypotheses /\ queued' \in Seq(Ids)
        /\ outcome' \in [Ids -> Outcomes \cup {"unformed"}]
    BY DEF IInv, StackInv
  <2>2. CASE active' = 0
    BY <2>1, <2>2 DEF Snapshot, OpenLine
  <2>3. CASE active' # 0
    <3>1. active' \in Ids
      BY <2>1, <2>3 DEF Ids
    <3>2. <<active'>> \o queued' \in Seq(Ids)
      BY <2>1, <3>1
    <3> QED BY <2>1, <2>3, <3>2 DEF Snapshot, OpenLine
  <2> QED BY <2>2, <2>3
<1>4. AppendRow([type |-> "finish", state |-> finish'.state, snap |-> Snapshot'])
      /\ told' = (rows' # rows)
  BY <1>2 DEF ViewFinish
<1> QED BY <1>1, <1>3, <1>4 DEF Row

LEMMA StepRowsInv ==
    ASSUME BoundsAssumption, IInv, IInv', RowsInv, FirstRunInv, [ViewNext]_<<vars, views>>
    PROVE  RowsInv'
<1>1. /\ rows \in Seq(Row) /\ rowFaults \in Nat /\ requests \in Nat /\ runs \in Nat
      /\ rowFaults = 0 => ~rowTorn
      /\ rowFaults = 0 => requests <= StepRows(rows)
      /\ rowFaults = 0 /\ runs <= 1 => StepRows(rows) = requests
      /\ running => ~told
  BY DEF RowsInv, IInv, RunInv, BoundsAssumption
<1>2. /\ StepRows(rows) \in Nat
      /\ \A row \in Row : StepRows(Append(rows, row))
                          = StepRows(rows) + IF row.type = "step" THEN 1 ELSE 0
  BY <1>1, StepRowsCount
<1>3. CASE ViewStart
  <2>1. /\ runs' = runs + 1 /\ requests' = 0 /\ told' = FALSE
        /\ UNCHANGED <<rows, rowTorn, rowFaults>>
    BY <1>3 DEF ViewStart, Start, agentLog
  <2>2. StepRows(rows') = StepRows(rows)
    BY <2>1
  <2>3. runs' <= 1 => StepRows(rows) = 0
    <3>1. runs' <= 1 => rows = <<>>
      BY <1>1, <2>1 DEF FirstRunInv
    <3>2. 1 .. Len(<<>>) = {}
      OBVIOUS
    <3>3. StepRows(<<>>) = 0
      BY <3>2, FS_EmptySet DEF StepRows
    <3> QED BY <3>1, <3>3
  <2> QED BY <1>1, <1>2, <2>1, <2>2, <2>3 DEF RowsInv
<1>4. CASE ViewRequest
  <2> DEFINE row == [type |-> "step"]
  <2>1. /\ AppendRow(row) /\ running /\ requests' = requests + 1 /\ UNCHANGED <<runs, told>>
    BY <1>4 DEF ViewRequest, Request, RequestMade
  <2>2. row \in Row /\ row.type = "step"
    BY DEF Row
  <2> HIDE DEF row
  <2>3. /\ rows' = rows \/ rows' = Append(rows, row)
        /\ rowFaults' \in Nat
        /\ rowFaults' = 0 => rowFaults = 0 /\ rows' = Append(rows, row) /\ ~rowTorn'
    BY <1>1, <2>1, AppendRowIs
  <2>4. rows' \in Seq(Row)
    BY <1>1, <2>2, <2>3
  <2>5. StepRows(Append(rows, row)) = StepRows(rows) + 1
    BY <1>2, <2>2
  <2>6. ~told'
    BY <1>1, <2>1
  <2>7. rowFaults' = 0 => /\ ~rowTorn' /\ requests' <= StepRows(rows')
                          /\ runs' <= 1 => StepRows(rows') = requests'
    <3>1. ASSUME rowFaults' = 0
          PROVE  /\ ~rowTorn' /\ rowFaults = 0 /\ StepRows(rows') = StepRows(rows) + 1
      BY <2>3, <2>5, <3>1
    <3>2. ASSUME rowFaults' = 0
          PROVE  /\ requests' <= StepRows(rows')
                 /\ runs' <= 1 => StepRows(rows') = requests'
      <4>1. rowFaults = 0 /\ StepRows(rows') = StepRows(rows) + 1
        BY <3>1, <3>2
      <4>2. /\ requests <= StepRows(rows) /\ (runs <= 1 => StepRows(rows) = requests)
            /\ requests' = requests + 1 /\ runs' = runs
        BY <1>1, <2>1, <4>1
      <4> QED BY <1>1, <1>2, <4>1, <4>2
    <3> QED BY <3>1, <3>2
  <2> QED BY <2>3, <2>4, <2>6, <2>7 DEF RowsInv
<1>5. CASE Interrupted
  <2> DEFINE row == [type |-> "checkpoint"]
  <2>1. AppendRow(row) /\ running /\ UNCHANGED <<requests, runs, told>>
    BY <1>5 DEF Interrupted, Die
  <2>2. row \in Row /\ row.type # "step"
    BY DEF Row
  <2> HIDE DEF row
  <2>3. /\ rows' = rows \/ rows' = Append(rows, row)
        /\ rowFaults' \in Nat
        /\ rowFaults' = 0 => rowFaults = 0 /\ rows' = Append(rows, row) /\ ~rowTorn'
    BY <1>1, <2>1, AppendRowIs
  <2>4. rows' \in Seq(Row)
    BY <1>1, <2>2, <2>3
  <2>5. StepRows(Append(rows, row)) = StepRows(rows)
    BY <1>2, <2>2
  <2>6. ~told'
    BY <1>1, <2>1
  <2> QED BY <1>1, <1>2, <2>1, <2>3, <2>4, <2>5, <2>6 DEF RowsInv
<1>6. CASE ViewFinish
  <2> DEFINE row == [type |-> "finish", state |-> finish'.state, snap |-> Snapshot']
  <2>1. /\ AppendRow(row) /\ row \in Row /\ told' = (rows' # rows)
    BY <1>6, FinishRowIs
  <2>2. running' = FALSE /\ UNCHANGED <<requests, runs>> /\ row.type # "step"
    BY <1>6 DEF ViewFinish, Complete, UsageLimit, BlockedCall, Finished
  <2> HIDE DEF row
  <2>3. /\ rows' = rows \/ rows' = Append(rows, row)
        /\ rowFaults' \in Nat
        /\ rowFaults' = 0 => rowFaults = 0 /\ rows' = Append(rows, row) /\ ~rowTorn'
    BY <1>1, <2>1, AppendRowIs
  <2>4. rows' \in Seq(Row)
    BY <1>1, <2>1, <2>3
  <2>5. StepRows(Append(rows, row)) = StepRows(rows)
    BY <1>2, <2>1, <2>2
  <2>6. told' => rows' = Append(rows, row)
    BY <2>1, <2>3
  <2>7. told' => rows' # <<>> /\ rows'[Len(rows')] = row
    BY <1>1, <2>1, <2>6
  <2>8. rowFaults' = 0 => /\ ~rowTorn' /\ requests' <= StepRows(rows')
                          /\ runs' <= 1 => StepRows(rows') = requests'
    BY <1>1, <1>2, <2>2, <2>3, <2>5
  <2> QED BY <2>2, <2>3, <2>4, <2>7, <2>8 DEF RowsInv, row
<1>7. CASE ViewCall \/ Lost
  <2>1. UNCHANGED <<rows, rowTorn, rowFaults, requests, runs, told>>
    BY <1>7 DEF ViewCall, Form, Resolve, PivotRefused, Pivot, BlankForm, BlankPivot, OtherCall,
                CallEnds, Lost, Die, NoRow, agentLog
  <2>2. ~told'
    BY <1>1, <1>7, <2>1, RunningSteps
  <2> QED BY <1>1, <1>2, <2>1, <2>2 DEF RowsInv
<1>8. CASE Poll \/ Return \/ UNCHANGED <<vars, views>>
  <2>1. UNCHANGED <<vars, rows, rowTorn, rowFaults, told>>
    BY <1>8 DEF Poll, Return, views, agentLog
  <2>2. UNCHANGED <<requests, runs, running, finish, active, queued, outcome>>
    BY <2>1 DEF vars, agent, stack
  <2>3. Snapshot' = Snapshot /\ OpenLine' = OpenLine
    BY <2>2 DEF Snapshot, OpenLine
  <2> QED BY <2>1, <2>2, <2>3 DEF RowsInv
<1> QED BY <1>3, <1>4, <1>5, <1>6, <1>7, <1>8 DEF ViewNext

(* The screen *)

LEMMA StepScreen ==
    ASSUME BoundsAssumption, IInv, IInv', RowsInv, RowsInv', ScreenInv,
           [ViewNext]_<<vars, views>>
    PROVE  ScreenInv'
<1>1. /\ requests \in Nat /\ requests' \in Nat /\ requests' <= RequestLimit /\ RequestLimit \in Nat
  BY DEF IInv, RunInv, BoundsAssumption
<1>2. CASE ViewStart
  <2>1. /\ screen' = NoSnapshot /\ left' = RequestLimit /\ requests' = 0
        /\ active' = 0 /\ queued' = <<>> /\ outcome' = [h \in Ids |-> "unformed"]
    BY <1>2 DEF ViewStart, Start, NewViews
  <2>2. OpenLine' = <<>>
    BY <2>1 DEF OpenLine
  <2>3. screen' = Snapshot'
    BY <2>1, <2>2 DEF Snapshot, NoSnapshot
  <2> QED BY <1>1, <2>1, <2>3 DEF ScreenInv
<1>3. CASE ViewRequest \/ ViewCall
  <2>1. Refresh
    BY <1>3 DEF ViewRequest, ViewCall
  <2>2. screen' = Snapshot'
    BY <2>1 DEF Refresh, Snapshot, OpenLine
  <2>3. left' = StepsLeft(active', steps, rows)
    BY <2>1 DEF Refresh
  <2>4. requests' = requests \/ requests' = requests + 1
    BY <1>3 DEF ViewRequest, Request, RequestMade, ViewCall, Form, Resolve, PivotRefused, Pivot,
                BlankForm, BlankPivot, OtherCall, CallEnds
  <2>5. ASSUME active' = 0
        PROVE  left' <= RequestLimit - requests' + 1
    <3>1. left' = Monus(RequestLimit, IF StepRows(rows) > requests THEN StepRows(rows)
                                      ELSE requests)
      BY <2>3, <2>5 DEF StepsLeft
    <3>2. StepRows(rows) \in Nat
      BY StepRowsCount DEF RowsInv
    <3> QED BY <1>1, <2>4, <3>1, <3>2 DEF Monus
  <2>6. ASSUME active' # 0
        PROVE  left' <= Remaining(active', steps') + 1
    <3>1. left' = Remaining(active', steps) /\ active' \in Ids
      BY <2>3, <2>6 DEF StepsLeft, IInv, StackInv, Ids
    <3>2. steps[active'] \in Nat /\ steps'[active'] \in Nat
          /\ (steps'[active'] = steps[active'] \/ steps'[active'] = steps[active'] + 1)
      <4>1. CASE ViewRequest
        <5>1. /\ active' = active
              /\ steps' = IF active = 0 THEN steps ELSE [steps EXCEPT ![active] = @ + 1]
          BY <4>1 DEF ViewRequest, Request, stack
        <5>2. steps \in [Ids -> 0 .. RequestLimit]
          BY DEF IInv, RunInv
        <5> QED BY <1>1, <3>1, <5>1, <5>2
      <4>2. CASE ViewCall
        <5>1. steps' = steps
          BY <4>2 DEF ViewCall, Form, Resolve, PivotRefused, Pivot, BlankForm, BlankPivot,
                      OtherCall, CallEnds
        <5>2. steps \in [Ids -> 0 .. RequestLimit]
          BY DEF IInv, RunInv
        <5> QED BY <1>1, <3>1, <5>1, <5>2
      <4> QED BY <1>3, <4>1, <4>2
    <3>3. StepBudget \in Nat
      BY ViewsAssumption
    <3> QED BY <3>1, <3>2, <3>3 DEF Remaining, Monus
  <2> QED BY <2>2, <2>5, <2>6 DEF ScreenInv
<1>4. CASE ViewFinish \/ Interrupted \/ Lost
  BY <1>4, RunningSteps DEF ScreenInv
<1>5. CASE Poll \/ Return \/ UNCHANGED <<vars, views>>
  <2>1. UNCHANGED <<vars, screen, left, rowFaults>>
    BY <1>5 DEF Poll, Return, views
  <2>2. UNCHANGED <<requests, running, active, queued, outcome, steps>>
    BY <2>1 DEF vars, agent, stack
  <2>3. Snapshot' = Snapshot
    BY <2>2 DEF Snapshot, OpenLine
  <2> QED BY <2>1, <2>2, <2>3 DEF ScreenInv, Remaining
<1> QED BY <1>2, <1>3, <1>4, <1>5 DEF ViewNext

(* What the readers make of it *)

\* The row at the end is the last of any kind it belongs to.
LEMMA LastEndIs ==
    ASSUME NEW n \in Nat, NEW ends \in SUBSET (1 .. n), n \in ends
    PROVE  LastEnd(ends) = n
<1>1. \A j \in ends : j \in Nat /\ j <= n
  OBVIOUS
<1>2. \A i \in ends : (\A j \in ends : j <= i) <=> i = n
  BY <1>1
<1>3. LastEnd(ends) = CHOOSE i \in ends : \A j \in ends : j <= i
  BY DEF LastEnd
<1>4. n \in ends /\ \A j \in ends : j <= n
  BY <1>1
<1>5. LastEnd(ends) \in ends /\ \A j \in ends : j <= LastEnd(ends)
  BY <1>3, <1>4
<1> QED BY <1>2, <1>5

LEMMA ToldIs ==
    ASSUME RowsInv, told
    PROVE  CaseStatus = finish.state /\ LastSnapshot = Snapshot
<1> DEFINE n == Len(rows)
           row == [type |-> "finish", state |-> finish.state, snap |-> Snapshot]
           ends == {i \in 1 .. Len(rows) : rows[i].type # "step"}
<1>1. rows \in Seq(Row) /\ rows # <<>> /\ rows[n] = row
  BY DEF RowsInv
<1>2. n \in Nat /\ n \in 1 .. n
  BY <1>1
<1>3. row.type = "finish" /\ row.state = finish.state /\ row.snap = Snapshot
  OBVIOUS
<1> HIDE DEF row
<1>4. n \in ends /\ n \in FinishRows /\ ends \in SUBSET (1 .. n) /\ FinishRows \in SUBSET (1 .. n)
  BY <1>1, <1>2, <1>3 DEF FinishRows
<1>5. CaseStatus = LET r == rows[LastEnd(ends)]
                   IN IF r.type = "finish" THEN r.state ELSE "ABORTED"
  BY <1>1, <1>4 DEF CaseStatus
<1>6. LastSnapshot = rows[LastEnd(FinishRows)].snap
  BY <1>4 DEF LastSnapshot
<1> HIDE DEF n, ends
<1>7. LastEnd(ends) = n /\ LastEnd(FinishRows) = n
  BY <1>2, <1>4, LastEndIs
<1> QED BY <1>1, <1>3, <1>5, <1>6, <1>7

\* What is open in a snapshot of the stack, or was resolved.
LEMMA SnapshotRows ==
    ASSUME BoundsAssumption, IInv
    PROVE  /\ HypRows(Snapshot, "ACTIVE") = {h \in Ids : h = active \/ h \in InQueue}
           /\ \A o \in Outcomes : HypRows(Snapshot, o) = {h \in Ids : outcome[h] = o}
<1>1. Snapshot.open = OpenLine /\ Snapshot.outcome = outcome
  BY SnapshotIs
<1>2. ASSUME NEW h \in Ids
      PROVE  Contains(OpenLine, h) <=> h = active \/ h \in InQueue
  <2>1. CASE active = 0
    <3>1. OpenLine = queued /\ h # active
      BY <2>1, OpenLineIdle DEF IInv, Ids
    <3> QED BY <3>1 DEF Contains, InQueue
  <2>2. CASE active # 0
    <3>1. /\ OpenLine \in Seq(Ids) /\ Len(OpenLine) = Len(queued) + 1 /\ Len(queued) \in Nat
          /\ OpenLine[1] = active
          /\ \A i \in 1 .. Len(queued) : OpenLine[i + 1] = queued[i]
      BY <2>2, OpenLineIs DEF IInv, StackInv
    <3>2. ASSUME NEW i \in 1 .. Len(OpenLine), OpenLine[i] = h
          PROVE  h = active \/ h \in InQueue
      <4>1. CASE i = 1
        BY <3>1, <3>2, <4>1
      <4>2. CASE i # 1
        <5>1. PICK m \in 1 .. Len(queued) : i = m + 1
          BY <3>1, <4>2
        <5> QED BY <3>1, <3>2, <5>1 DEF InQueue
      <4> QED BY <4>1, <4>2
    <3>3. h = active => \E i \in 1 .. Len(OpenLine) : OpenLine[i] = h
      BY <3>1
    <3>4. ASSUME NEW m \in 1 .. Len(queued), queued[m] = h
          PROVE  \E i \in 1 .. Len(OpenLine) : OpenLine[i] = h
      <4>1. m + 1 \in 1 .. Len(OpenLine) /\ OpenLine[m + 1] = h
        BY <3>1, <3>4
      <4> QED BY <4>1
    <3> QED BY <3>2, <3>3, <3>4 DEF Contains, InQueue
  <2> QED BY <2>1, <2>2
<1>3. HypRows(Snapshot, "ACTIVE") = {h \in Ids : Contains(OpenLine, h)}
  BY <1>1 DEF HypRows
<1>4. ASSUME NEW o \in Outcomes
      PROVE  HypRows(Snapshot, o) = {h \in Ids : outcome[h] = o}
  BY <1>1 DEF HypRows, Outcomes
<1> QED BY <1>2, <1>3, <1>4

\* The statuses of an empty snapshot, and only of an empty one, have no rows.
LEMMA EmptySnapshot ==
    ASSUME BoundsAssumption, IInv
    PROVE  /\ \A t \in Statuses : HypRows(NoSnapshot, t) = {}
           /\ (\A t \in Statuses : HypRows(Snapshot, t) = {}) => Snapshot = NoSnapshot
<1>1. ASSUME NEW t \in Statuses, NEW h \in HypRows(NoSnapshot, t)
      PROVE  FALSE
  <2>1. NoSnapshot.open = <<>> /\ NoSnapshot.outcome = [g \in Ids |-> "unformed"]
    BY DEF NoSnapshot
  <2>2. h \in Ids /\ IF t = "ACTIVE" THEN Contains(<<>>, h) ELSE "unformed" = t
    BY <1>1, <2>1 DEF HypRows
  <2>3. 1 .. Len(<<>>) = {}
    OBVIOUS
  <2>4. ~Contains(<<>>, h)
    BY <2>3 DEF Contains
  <2> QED BY <2>2, <2>4 DEF Statuses, Outcomes
<1>2. ASSUME \A t \in Statuses : HypRows(Snapshot, t) = {}
      PROVE  Snapshot = NoSnapshot
  <2>1. "ACTIVE" \in Statuses /\ Outcomes \subseteq Statuses
    BY DEF Statuses
  <2>2. \A h \in Ids : h # active
    BY <1>2, <2>1, SnapshotRows
  <2>3. active = 0
    BY <2>2 DEF IInv, StackInv, Ids, BoundsAssumption
  <2>4. OpenLine = <<>>
    <3>1. OpenLine = queued /\ queued \in Seq(Ids)
      BY <2>3, OpenLineIdle DEF IInv, StackInv
    <3>2. ASSUME queued # <<>> PROVE FALSE
      <4>1. 1 \in 1 .. Len(queued) /\ queued[1] \in Ids
        BY <3>1, <3>2
      <4>2. queued[1] \in InQueue
        BY <4>1 DEF InQueue
      <4> QED BY <1>2, <2>1, <4>1, <4>2, SnapshotRows
    <3> QED BY <3>1, <3>2
  <2>5. ASSUME NEW h \in Ids
        PROVE  outcome[h] = "unformed"
    <3>1. outcome[h] \in Outcomes \cup {"unformed"}
      BY DEF IInv, StackInv
    <3>2. outcome[h] \notin Outcomes
      BY <1>2, <2>1, SnapshotRows
    <3> QED BY <3>1, <3>2
  <2>6. outcome = [h \in Ids |-> "unformed"]
    BY <2>5 DEF IInv, StackInv
  <2> QED BY <2>4, <2>6 DEF Snapshot, NoSnapshot
<1> QED BY <1>1, <1>2

\* The last lines of a log that counts and explains the hypotheses.
LEMMA LastStatusIs ==
    ASSUME BoundsAssumption, IInv, LogTells, LogCounts, ~suspect, base = 0, NEW s \in Statuses
    PROVE  LastStatus(s) = HypRows(Snapshot, s)
<1> DEFINE N == Len(log)
<1>1. /\ \A h \in Ids, o \in Outcomes : outcome[h] = o <=> \E n \in 1 .. N : log[n] = <<o, h>>
      /\ \A h \in Ids : h \in Known <=> \E n \in 1 .. N : log[n] = <<"FORM", h>>
      /\ \A n, m \in 1 .. N : n < m /\ log[n][1] \in Outcomes => log[m][2] # log[n][2]
  <2>1. Explains(log, 0, Replayed(log, 0), outcome) /\ Counts(log, 0, Known)
    BY Zenon DEF LogTells, Tells, LogCounts
  <2>2. 0 + 1 = 1
    OBVIOUS
  <2>3. \A h \in Ids, o \in Outcomes : outcome[h] = o <=> \E n \in 1 .. N : log[n] = <<o, h>>
    BY <2>1, <2>2 DEF Explains
  <2> QED BY <2>1, <2>2, <2>3 DEF Counts
<1>2. /\ N \in Nat
      /\ \A n \in 1 .. N : /\ log[n] = <<log[n][1], log[n][2]>> /\ log[n][2] \in Ids
                           /\ log[n][1] \in Outcomes \/ log[n][1] = "FORM"
      /\ OneFormPerId
  <2>1. log \in Seq(Line) /\ OneFormPerId
    BY DEF IInv, LogInv
  <2>2. N \in Nat /\ \A n \in 1 .. N : log[n] \in Line
    BY <2>1
  <2> QED BY <2>1, <2>2 DEF Line
<1>3. /\ \A h \in Ids : h = active \/ h \in InQueue => outcome[h] = "unformed"
      /\ \A h \in Ids : outcome[h] \in Outcomes \cup {"unformed"}
      /\ "FORM" \notin Outcomes /\ "unformed" \notin Outcomes /\ "ACTIVE" \notin Outcomes
  BY DEF IInv, StackInv, OnePlaceEach, Ids, Outcomes
<1> HIDE DEF N
<1>4. CASE s = "ACTIVE"
  <2>1. LastStatus(s) = {h \in Ids : \E n \in 1 .. N : /\ log[n] = <<"FORM", h>>
                                                      /\ \A m \in n + 1 .. N : log[m][2] # h}
    BY <1>4 DEF LastStatus, N
  <2>2. ASSUME NEW h \in Ids, NEW n \in 1 .. N, log[n] = <<"FORM", h>>,
               \A m \in n + 1 .. N : log[m][2] # h
        PROVE  h = active \/ h \in InQueue
    <3>1. SUFFICES ASSUME outcome[h] \in Outcomes PROVE FALSE
      BY <1>1, <1>3, <2>2 DEF Known
    <3>2. PICK m \in 1 .. N : log[m] = <<outcome[h], h>>
      BY <1>1, <3>1
    <3>3. log[m][1] \in Outcomes /\ log[m][2] = h /\ log[n][1] = "FORM" /\ log[n][2] = h
      BY <2>2, <3>1, <3>2
    <3>4. m # n
      BY <1>3, <3>3
    <3>5. CASE m < n
      BY <1>1, <3>3, <3>5
    <3>6. CASE n < m
      BY <1>2, <2>2, <3>3, <3>6
    <3> QED BY <1>2, <3>4, <3>5, <3>6
  <2>3. ASSUME NEW h \in Ids, h = active \/ h \in InQueue
        PROVE  \E n \in 1 .. N : /\ log[n] = <<"FORM", h>>
                                 /\ \A m \in n + 1 .. N : log[m][2] # h
    <3>1. PICK n \in 1 .. N : log[n] = <<"FORM", h>>
      BY <1>1, <2>3 DEF Known
    <3>2. ASSUME NEW m \in n + 1 .. N, log[m][2] = h
          PROVE  FALSE
      <4>1. m \in 1 .. N /\ n < m
        BY <1>2
      <4>2. log[m] = <<log[m][1], h>> /\ log[n][1] = "FORM" /\ log[n][2] = h
        BY <1>2, <3>1, <3>2, <4>1
      <4>3. CASE log[m][1] = "FORM"
        <5>1. log[n][2] < log[m][2]
          BY <1>2, <4>1, <4>2, <4>3 DEF OneFormPerId, N
        <5>2. h \in Nat
          BY DEF Ids
        <5> QED BY <3>2, <4>2, <5>1, <5>2
      <4>4. CASE log[m][1] \in Outcomes
        BY <1>1, <1>3, <2>3, <4>1, <4>2, <4>4
      <4> QED BY <1>2, <4>1, <4>3, <4>4
    <3> QED BY <3>1, <3>2
  <2>4. LastStatus(s) = {h \in Ids : h = active \/ h \in InQueue}
    BY <2>1, <2>2, <2>3
  <2> QED BY <1>4, <2>4, SnapshotRows
<1>5. CASE s # "ACTIVE"
  <2>1. s \in Outcomes
    BY <1>5 DEF Statuses
  <2>2. LastStatus(s) = {h \in Ids : \E n \in 1 .. N : /\ log[n] = <<s, h>>
                                                      /\ \A m \in n + 1 .. N : log[m][2] # h}
    BY <1>5 DEF LastStatus, N
  <2>3. ASSUME NEW h \in Ids, NEW n \in 1 .. N, log[n] = <<s, h>>, NEW m \in n + 1 .. N
        PROVE  log[m][2] # h
    <3>1. m \in 1 .. N /\ n < m /\ log[n][1] \in Outcomes /\ log[n][2] = h
      BY <1>2, <2>1, <2>3
    <3> QED BY <1>1, <3>1
  <2>4. LastStatus(s) = {h \in Ids : \E n \in 1 .. N : log[n] = <<s, h>>}
    BY <2>2, <2>3
  <2>5. LastStatus(s) = {h \in Ids : outcome[h] = s}
    BY <1>1, <2>1, <2>4
  <2> QED BY <2>1, <2>5, SnapshotRows
<1> QED BY <1>4, <1>5

LEMMA ReadersAgree ==
    ASSUME BoundsAssumption, IInv, LogTells, LogCounts, ViewsInv
    PROVE  ViewsTellTheStack
<1>1. ExitInv /\ ScreenInv /\ RowsInv /\ FirstRunInv
  BY DEF ViewsInv
<1>2. runs \in Nat
  BY DEF IInv, RunInv
<1>3. /\ running => screen = Snapshot
      /\ running /\ active = 0 => left <= RequestLimit - requests + 1
      /\ running /\ active # 0 => left <= Remaining(active, steps) + 1
  BY <1>1 DEF ScreenInv
<1>4. runs = 1 /\ rowFaults = 0 => StepRows(rows) = requests
  <2>1. runs = 1 => runs <= 1
    BY <1>2
  <2> QED BY <1>1, <2>1 DEF RowsInv
<1>5. told => CaseStatus = finish.state
  BY <1>1, ToldIs
<1>6. ASSUME told, Snapshot # NoSnapshot
      PROVE  /\ \A s \in Statuses : Shown(s) = HypRows(Snapshot, s)
             /\ exit = "0" /\ ~suspect /\ ~childless => Shown("ACTIVE") = {}
  <2>1. LastSnapshot = Snapshot
    BY <1>1, <1>6, ToldIs
  <2>2. ~ \A t \in Statuses : HypRows(LastSnapshot, t) = {}
    BY <1>6, <2>1, EmptySnapshot
  <2>3. \A s : Shown(s) = HypRows(Snapshot, s)
    BY <2>1, <2>2 DEF Shown
  <2>4. ASSUME exit = "0", ~suspect, ~childless
        PROVE  Shown("ACTIVE") = {}
    <3>1. finish.state = "COMPLETED"
      BY <1>1, <2>4 DEF ExitInv
    <3>2. active = 0 /\ queued = <<>>
      <4>1. OpenLine = <<>>
        BY <2>4, <3>1 DEF IInv, RunInv, FinishClosesStack
      <4>2. active = 0
        <5>1. active # 0 => OpenLine[1] = active /\ Len(OpenLine) = Len(queued) + 1
                            /\ Len(queued) \in Nat
          BY OpenLineIs DEF IInv, StackInv
        <5>2. Len(<<>>) = 0
          OBVIOUS
        <5> QED BY <4>1, <5>1, <5>2
      <4> QED BY <4>1, <4>2, OpenLineIdle DEF IInv
    <3>3. 1 .. Len(<<>>) = {}
      OBVIOUS
    <3>4. InQueue = {}
      BY <3>2, <3>3 DEF InQueue
    <3>5. HypRows(Snapshot, "ACTIVE") = {}
      BY <3>2, <3>4, SnapshotRows DEF Ids
    <3> QED BY <2>3, <3>5
  <2> QED BY <2>3, <2>4
<1>7. ASSUME runs = 1, ~suspect, FinishRows = {}, NEW s \in Statuses
      PROVE  Shown(s) = HypRows(Snapshot, s)
  <2>1. base = 0
    BY <1>1, <1>7 DEF FirstRunInv
  <2>2. LastSnapshot = NoSnapshot
    BY <1>7 DEF LastSnapshot
  <2>3. Shown(s) = LastStatus(s)
    BY <2>2, EmptySnapshot DEF Shown
  <2> QED BY <1>7, <2>1, <2>3, LastStatusIs
<1>8. ASSUME ~(runs > 1)
      PROVE  ~ParseError
  <2>1. \A i \in 1 .. Len(raw) : raw[i] = "whole"
    BY <1>1, <1>2, <1>8 DEF FirstRunInv
  <2>2. {i \in 1 .. Len(raw) : raw[i] = "spoilt"} = {}
    BY <2>1
  <2>3. BadLines = IF torn THEN {LineCount} ELSE {}
    BY <2>2 DEF BadLines, LineCount
  <2> QED BY <2>3 DEF ParseError
<1> QED BY <1>3, <1>4, <1>5, <1>6, <1>7, <1>8 DEF ViewsTellTheStack

(* From the start on *)

LEMMA ViewsInit == ASSUME BoundsAssumption, ViewInit PROVE ViewsInv
<1>1. /\ rows = <<>> /\ rowTorn = FALSE /\ raw = <<>> /\ screen = NoSnapshot
      /\ seen = 0 /\ printed = <<>> /\ exit = "none" /\ rowFaults = 0 /\ told = FALSE
      /\ log = <<>> /\ torn = FALSE /\ running = FALSE /\ requests = 0 /\ runs = 0 /\ base = 0
  BY DEF ViewInit, Init
<1>2. Len(<<>>) = 0 /\ 1 .. 0 = {}
  OBVIOUS
<1>3. TailInv
  <2>1. LineCount = 0
    BY <1>1, <1>2 DEF LineCount
  <2>2. \A i \in 1 .. seen : printed[i] = IF i <= Len(raw) /\ raw[i] = "whole" THEN i ELSE 0
    BY <1>1, <1>2
  <2>3. <<>> \in Seq({"whole", "spoilt"}) /\ <<>> \in Seq(Nat)
    OBVIOUS
  <2> QED BY <1>1, <1>2, <2>1, <2>2, <2>3 DEF TailInv
<1>4. ExitInv /\ ScreenInv
  BY <1>1 DEF ExitInv, ScreenInv
<1>5. RowsInv
  <2>1. <<>> \in Seq(Row)
    OBVIOUS
  <2>2. StepRows(<<>>) = 0
    BY <1>2, FS_EmptySet DEF StepRows
  <2> QED BY <1>1, <2>1, <2>2 DEF RowsInv
<1>6. FirstRunInv
  BY <1>1, <1>2 DEF FirstRunInv
<1> QED BY <1>3, <1>4, <1>5, <1>6 DEF ViewsInv

LEMMA ViewsStep ==
    ASSUME BoundsAssumption, IInv, IInv', ViewsInv, [ViewNext]_<<vars, views>>
    PROVE  ViewsInv'
<1>1. TailInv /\ ExitInv /\ ScreenInv /\ RowsInv /\ FirstRunInv
  BY DEF ViewsInv
<1>2. TailInv' /\ ExitInv'
  BY <1>1, StepTail, StepExit
<1>3. RowsInv' /\ FirstRunInv'
  BY <1>1, StepRowsInv, StepFirstRun
<1>4. ScreenInv'
  BY <1>1, <1>3, StepScreen
<1> QED BY <1>2, <1>3, <1>4 DEF ViewsInv

\* The views only look on: the stack and its log are the same beside them.
LEMMA ViewsAreTrue == ViewSpec => [](IInv /\ LogTells /\ LogCounts /\ ViewsInv)
<1> DEFINE Inv == IInv /\ LogTells /\ LogCounts /\ ViewsInv
<1>1. ViewInit => Inv
  <2> SUFFICES ASSUME ViewInit PROVE Inv
    OBVIOUS
  <2>1. Init
    BY DEF ViewInit
  <2> QED BY <2>1, BoundsAssumption, InitInvariant, InitTells, InitCounts, ViewsInit
<1>2. Inv /\ [ViewNext]_<<vars, views>> => Inv'
  <2> SUFFICES ASSUME Inv, [ViewNext]_<<vars, views>> PROVE Inv'
    OBVIOUS
  <2>1. [Next]_vars
    BY ViewSteps
  <2>2. IInv'
    BY <2>1, BoundsAssumption, StepInvariant
  <2> QED BY <2>1, <2>2, BoundsAssumption, StepTells, StepCounts, ViewsStep
<1> QED BY <1>1, <1>2, PTL DEF ViewSpec

\* RunViews and stream_hypothesis_events: however the tail's looks fall between
\* the steps of the agent, and whatever was cut in the log, each readable line
\* is printed once and in order, and all of them before the run exits with 0.
THEOREM EventsArePrintedOnce == ViewSpec => []EventsStreamedOnce
<1>1. IInv /\ LogTells /\ LogCounts /\ ViewsInv => EventsStreamedOnce
  BY TailPrintsOnce DEF ViewsInv
<1> QED BY <1>1, ViewsAreTrue, PTL

\* RunViews, the status command and the live screen: each view agrees with the
\* stack as long as it can, for every number of runs, requests and faults.
THEOREM ViewsAreTruthful == ViewSpec => []ViewsTellTheStack
<1>1. IInv /\ LogTells /\ LogCounts /\ ViewsInv => ViewsTellTheStack
  BY BoundsAssumption, ReadersAgree
<1> QED BY <1>1, ViewsAreTrue, PTL
===============================================================================
