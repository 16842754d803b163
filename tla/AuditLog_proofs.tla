---------------------------- MODULE AuditLog_proofs ----------------------------
(***************************************************************************)
(* Proofs about AuditLog, for any number of streams, rows and restarts.     *)
(*                                                                         *)
(* First, without failed writes that leave bytes behind, and with no stream *)
(* shared by the two kinds of writer: ids are unique and every chain is     *)
(* whole.  Both hypotheses are needed: TLC refutes ChainIntact when a       *)
(* stream is shared (MCAuditLog_fork.cfg).                                  *)
(*                                                                         *)
(* Then, with every fault and every kind of sharing: the verifier finds the *)
(* files that are not chained and no others, a file it accepts is complete, *)
(* and what it reports once it reports from then on.                        *)
(***************************************************************************)
EXTENDS AuditLog, Induction, TLAPS

\* Every append either writes its whole line or leaves nothing.
NoFault == Fault = {}

\* No stream is written by both kinds of writer.
SeparateStreams == LoggerStream \cap ChainStream = {}

(* The inductive invariant *)

Whole(f) == \A i \in DOMAIN f : f[i].ok /\ f[i].nl
TailHash(f) == IF f = <<>> THEN NoHash ELSE f[Len(f)].hash

FilesWhole == \A s \in Stream : Whole(file[s])
HeadsCurrent == up => \A s \in LoggerStream : head[s] = TailHash(file[s])
CounterAhead == up => \A n \in IdsOnDisk : n <= seq
IdsBounded == IdsOnDisk \subseteq 0..MaxSeq
HeldUnwritten == held \cap IdsOnDisk = {}
HeldByLogger == ~up => held = {}

IInv ==
    /\ TypeOK
    /\ FilesWhole
    /\ ChainIntact
    /\ HeadsCurrent
    /\ CounterAhead
    /\ IdsBounded
    /\ HeldUnwritten
    /\ HeldByLogger
    /\ UniqueAuditIds

-----------------------------------------------------------------------------
(* Lemmas on files *)

\* In a file without junk the last readable hash is that of the last line.
LEMMA LastHashOfWhole ==
    ASSUME NEW f \in Seq(Line), Whole(f)
    PROVE  LastHash(f) = TailHash(f)
<1>1. CASE f = <<>>
  BY <1>1 DEF LastHash, TailHash, Parsed
<1>2. CASE f # <<>>
  <2>1. Parsed(f) = 1..Len(f) /\ Len(f) \in Nat \ {0}
    BY <1>2 DEF Parsed, Whole
  <2>2. Len(f) \in Parsed(f) /\ \A j \in Parsed(f) : j <= Len(f)
    BY <2>1
  <2>3. ASSUME NEW i \in Parsed(f), \A j \in Parsed(f) : j <= i
        PROVE  i = Len(f)
    BY <2>1, <2>2, <2>3
  <2>4. (CHOOSE i \in Parsed(f) : \A j \in Parsed(f) : j <= i) = Len(f)
    BY <2>2, <2>3
  <2> QED BY <1>2, <2>1, <2>2, <2>4 DEF LastHash, TailHash
<1> QED BY <1>1, <1>2

LEMMA TailHashType ==
    ASSUME NEW f \in Seq(Line)
    PROVE  TailHash(f) \in HashValue
<1>1. CASE f = <<>>
  BY <1>1 DEF TailHash, NoHash, HashValue
<1>2. CASE f # <<>>
  <2>1. Len(f) \in DOMAIN f /\ f[Len(f)] \in Line
    BY <1>2
  <2> QED BY <1>2, <2>1 DEF TailHash, Line
<1> QED BY <1>1, <1>2

LEMMA RowType ==
    ASSUME NEW id \in Nat, NEW p \in Nat, NEW prev \in HashValue
    PROVE  /\ Row(id, p, prev) \in Line
           /\ Row(id, p, prev).hash = Hash(prev, p)
           /\ Row(id, p, prev).prev = prev
           /\ Row(id, p, prev).payload = p
           /\ Row(id, p, prev).id = id
           /\ Row(id, p, prev).ok
           /\ Row(id, p, prev).nl
<1>1. Hash(prev, p) \in HashValue
  BY DEF Hash, HashValue
<1> QED BY <1>1 DEF Row, Line

\* g is f and one more line, with this id and payload, chained to f's tail.
Extends(g, f, id, p) ==
    /\ g \in Seq(Line)
    /\ Whole(g)
    /\ ChainOK(g)
    /\ TailHash(g) = Row(id, p, TailHash(f)).hash
    /\ Len(g) = Len(f) + 1
    /\ \A i \in 1..Len(f) : g[i] = f[i]
    /\ g[Len(g)].id = id

\* Appending to a whole file a row that carries the hash of its last line keeps
\* the file whole and chained, and adds the row's id.
LEMMA AppendRow ==
    ASSUME NEW f \in Seq(Line), Whole(f), ChainOK(f),
           NEW id \in Nat, NEW p \in Nat
    PROVE  Extends(AppendLine(f, Row(id, p, TailHash(f))), f, id, p)
<1> DEFINE g == AppendLine(f, Row(id, p, TailHash(f)))
<1> DEFINE r == Row(id, p, TailHash(f))
<1>1. /\ r \in Line /\ r.hash = Hash(r.prev, r.payload) /\ r.prev = TailHash(f)
      /\ r.id = id /\ r.ok /\ r.nl
  BY TailHashType, RowType
<1> HIDE DEF r
<1>2. g = Append(f, r)
  <2>1. f # <<>> => Len(f) \in DOMAIN f
    OBVIOUS
  <2> QED BY <2>1 DEF AppendLine, Whole, r
<1>3. /\ g \in Seq(Line) /\ Len(g) = Len(f) + 1 /\ DOMAIN g = 1..(Len(f) + 1)
      /\ g[Len(g)] = r /\ \A i \in 1..Len(f) : g[i] = f[i]
  BY <1>1, <1>2
<1>4. Whole(g)
  BY <1>1, <1>3 DEF Whole
<1>5. ASSUME NEW i \in DOMAIN g
      PROVE  /\ g[i].ok
             /\ g[i].hash = Hash(g[i].prev, g[i].payload)
             /\ g[i].prev = IF i = 1 THEN NoHash ELSE g[i - 1].hash
  <2>1. CASE i \in 1..Len(f)
    <3>1. g[i] = f[i] /\ i \in DOMAIN f /\ (i # 1 => g[i - 1] = f[i - 1])
      BY <1>3, <2>1
    <3> QED BY <3>1 DEF ChainOK
  <2>2. CASE i = Len(f) + 1
    <3>1. g[i] = r
      BY <1>3, <2>2
    <3>2. CASE f = <<>>
      BY <1>1, <2>2, <3>1, <3>2 DEF TailHash
    <3>3. CASE f # <<>>
      <4>1. i # 1 /\ i - 1 = Len(f) /\ g[i - 1] = f[Len(f)]
        BY <1>3, <2>2, <3>3
      <4> QED BY <1>1, <3>1, <3>3, <4>1 DEF TailHash
    <3> QED BY <3>2, <3>3
  <2> QED BY <1>3, <2>1, <2>2
<1>6. ChainOK(g)
  BY <1>5 DEF ChainOK
<1>7. TailHash(g) = r.hash
  BY <1>3 DEF TailHash
<1> QED BY <1>1, <1>3, <1>4, <1>6, <1>7 DEF r, Extends

\* What a successful append does to the trail, whoever makes it: the files stay
\* whole and chained, and the only new id on disk is the row's, so ids stay
\* unique when that id is none or is not on disk.
AppendsRow(s, id) ==
    file' = [file EXCEPT ![s] = AppendLine(@, Row(id, writes + 1, TailHash(file[s])))]

LEMMA AppendToTrail ==
    ASSUME TypeOK, FilesWhole, ChainIntact, UniqueAuditIds,
           NEW s \in Stream, NEW id \in Nat, id = 0 \/ id \notin IdsOnDisk,
           AppendsRow(s, id)
    PROVE  /\ file' \in [Stream -> Seq(Line)]
           /\ FilesWhole'
           /\ ChainIntact'
           /\ UniqueAuditIds'
           /\ IdsOnDisk' = IdsOnDisk \cup {id}
           /\ \A t \in Stream \ {s} : file'[t] = file[t]
           /\ TailHash(file'[s]) = Row(id, writes + 1, TailHash(file[s])).hash
<1> DEFINE g == file'[s]
           n == Len(file[s])
<1>1. /\ file \in [Stream -> Seq(Line)] /\ writes + 1 \in Nat
      /\ file[s] \in Seq(Line) /\ Whole(file[s]) /\ ChainOK(file[s])
      /\ g = AppendLine(file[s], Row(id, writes + 1, TailHash(file[s])))
  BY DEF TypeOK, FilesWhole, ChainIntact, AppendsRow
<1>2. /\ g \in Seq(Line) /\ Whole(g) /\ ChainOK(g)
      /\ TailHash(g) = Row(id, writes + 1, TailHash(file[s])).hash
      /\ Len(g) = n + 1 /\ \A i \in 1..n : g[i] = file[s][i]
      /\ g[Len(g)].id = id
  <2> DEFINE p == writes + 1
             f == file[s]
  <2>1. p \in Nat /\ f \in Seq(Line) /\ Whole(f) /\ ChainOK(f)
    BY <1>1
  <2> HIDE DEF p, f
  <2>2. Extends(AppendLine(f, Row(id, p, TailHash(f))), f, id, p)
    BY <2>1, AppendRow
  <2>3. Extends(g, f, id, p)
    BY <1>1, <2>2 DEF p, f
  <2> QED BY <2>3 DEF p, f, Extends
<1>3. /\ \A t \in Stream \ {s} : file'[t] = file[t]
      /\ file' \in [Stream -> Seq(Line)]
  BY <1>1, <1>2 DEF AppendsRow
<1>4. FilesWhole'
  BY <1>2, <1>3 DEF FilesWhole
<1>5. ChainIntact'
  BY <1>2, <1>3 DEF ChainIntact
<1>6. /\ Parsed(file[s]) = 1..n /\ n \in Nat
      /\ Parsed(g) = 1..(n + 1)
  BY <1>1, <1>2 DEF Parsed, Whole
<1>7. IdsIn(g) = IdsIn(file[s]) \cup {id}
  <2>1. ASSUME NEW m \in IdsIn(g) PROVE m \in IdsIn(file[s]) \cup {id}
    <3>1. PICK i \in 1..(n + 1) : m = g[i].id
      BY <1>6, <2>1 DEF IdsIn
    <3>2. i \in 1..n \/ i = n + 1
      BY <1>6
    <3> QED BY <1>2, <1>6, <3>1, <3>2 DEF IdsIn
  <2>2. ASSUME NEW m \in IdsIn(file[s]) PROVE m \in IdsIn(g)
    <3>1. PICK i \in 1..n : m = file[s][i].id
      BY <1>6, <2>2 DEF IdsIn
    <3>2. i \in 1..(n + 1) /\ g[i].id = m
      BY <1>2, <1>6, <3>1
    <3> QED BY <1>6, <3>2 DEF IdsIn
  <2>3. id \in IdsIn(g)
    BY <1>2, <1>6 DEF IdsIn
  <2> QED BY <2>1, <2>2, <2>3
<1>8. IdsOnDisk' = IdsOnDisk \cup {id}
  <2>1. \A t \in Stream : IdsIn(file'[t]) =
             IF t = s THEN IdsIn(file[s]) \cup {id} ELSE IdsIn(file[t])
    BY <1>3, <1>7
  <2>2. IdsOnDisk' = (UNION {IdsIn(file'[t]) : t \in Stream}) \cup {0}
    BY DEF IdsOnDisk
  <2> QED BY <2>1, <2>2 DEF IdsOnDisk
<1>9. UniqueAuditIds'
  <2>1. SUFFICES ASSUME NEW t \in Stream, NEW u \in Stream,
                        NEW i \in Parsed(file'[t]), NEW j \in Parsed(file'[u]),
                        file'[t][i].id = file'[u][j].id, file'[t][i].id # 0
                 PROVE  t = u /\ i = j
    BY DEF UniqueAuditIds
  <2> DEFINE Old(v, k) == v # s \/ k \in 1..n
  <2>2. ASSUME NEW v \in Stream, NEW k \in Parsed(file'[v]), Old(v, k)
        PROVE  k \in Parsed(file[v]) /\ file'[v][k] = file[v][k]
    BY <1>2, <1>3, <1>6, <2>2
  <2>3. ASSUME NEW v \in Stream, NEW k \in Parsed(file'[v]), ~Old(v, k)
        PROVE  v = s /\ k = n + 1 /\ file'[v][k].id = id
    BY <1>2, <1>6, <2>3
  <2>4. ASSUME NEW v \in Stream, NEW k \in Parsed(file'[v]), Old(v, k)
        PROVE  file'[v][k].id \in IdsOnDisk
    <3>1. file'[v][k].id \in IdsIn(file[v])
      BY <2>2, <2>4 DEF IdsIn
    <3> QED BY <3>1 DEF IdsOnDisk
  <2>5. CASE Old(t, i) /\ Old(u, j)
    BY <2>1, <2>2, <2>5 DEF UniqueAuditIds
  <2>6. CASE Old(t, i) /\ ~Old(u, j)
    BY <2>1, <2>3, <2>4, <2>6
  <2>7. CASE ~Old(t, i) /\ Old(u, j)
    BY <2>1, <2>3, <2>4, <2>7
  <2>8. CASE ~Old(t, i) /\ ~Old(u, j)
    BY <2>3, <2>8
  <2> QED BY <2>5, <2>6, <2>7, <2>8
<1> QED BY <1>2, <1>3, <1>4, <1>5, <1>8, <1>9

-----------------------------------------------------------------------------
(* The invariant is inductive *)

LEMMA InitInvariant == Init => IInv
<1> SUFFICES ASSUME Init PROVE IInv
  OBVIOUS
<1> USE AuditAssumption DEF Init
<1>1. IdsOnDisk = {0}
  <2>1. \A s \in Stream : IdsIn(file[s]) = {}
    BY DEF IdsIn, Parsed
  <2> QED BY <2>1 DEF IdsOnDisk
<1>2. \A s \in Stream : file[s] = <<>> /\ Parsed(file[s]) = {}
  BY DEF Parsed
<1>3. TypeOK
  <2>1. file \in [Stream -> Seq(Line)]
    OBVIOUS
  <2>2. head \in [Stream -> HashValue]
    BY DEF NoHash, HashValue
  <2>3. seq \in 0..MaxSeq /\ writes \in 0..MaxWrites /\ held \subseteq 1..seq
    OBVIOUS
  <2> QED BY <2>1, <2>2, <2>3 DEF TypeOK
<1>4. FilesWhole /\ ChainIntact /\ UniqueAuditIds
  BY <1>2 DEF FilesWhole, Whole, ChainIntact, ChainOK, UniqueAuditIds
<1> QED BY <1>1, <1>3, <1>4
        DEF IInv, HeadsCurrent, CounterAhead, IdsBounded, HeldUnwritten, HeldByLogger

\* A step that leaves the files alone keeps what is said of the files only.
LEMMA SameFiles ==
    ASSUME FilesWhole, ChainIntact, UniqueAuditIds, file' = file
    PROVE  FilesWhole' /\ ChainIntact' /\ UniqueAuditIds' /\ IdsOnDisk' = IdsOnDisk
BY DEF FilesWhole, ChainIntact, UniqueAuditIds, IdsOnDisk, IdsIn, Parsed

LEMMA StepInvariant ==
    ASSUME NoFault, SeparateStreams, IInv, [Next]_vars
    PROVE  IInv'
<1> USE AuditAssumption
<1>0. TypeOK /\ FilesWhole /\ ChainIntact /\ UniqueAuditIds
  BY DEF IInv
<1>1. CASE Open
  <2>1. file' = file /\ up' /\ held' = {} /\ writes' = writes
        /\ acked' = acked
    BY <1>1 DEF Open
  <2>2. seq' \in IdsOnDisk /\ \A n \in IdsOnDisk : n <= seq'
    BY <1>1 DEF Open, LargestId
  <2>3. \A s \in Stream : head'[s] = TailHash(file[s])
    BY <1>0, <1>1, LastHashOfWhole DEF Open, TypeOK, FilesWhole
  <2>4. head' \in [Stream -> HashValue]
    BY <1>0, <1>1, <2>3, TailHashType DEF Open, TypeOK
  <2>5. TypeOK'
    BY <1>0, <2>1, <2>2, <2>4 DEF TypeOK, IInv, IdsBounded, Acked
  <2> QED BY <1>0, <2>1, <2>2, <2>3, <2>5, SameFiles
          DEF IInv, HeadsCurrent, CounterAhead, IdsBounded, HeldUnwritten, HeldByLogger, Stream
<1>2. CASE Close
  <2>1. file' = file /\ up' = FALSE /\ held' = {} /\ UNCHANGED <<seq, head, writes, acked>>
    BY <1>2 DEF Close
  <2>2. TypeOK'
    BY <1>0, <2>1 DEF TypeOK, Acked
  <2> QED BY <1>0, <2>1, <2>2, SameFiles
          DEF IInv, HeadsCurrent, CounterAhead, IdsBounded, HeldUnwritten, HeldByLogger
<1>3. CASE NextAuditId
  <2>1. /\ file' = file /\ up /\ up' /\ seq < MaxSeq /\ seq' = seq + 1
        /\ held' = held \cup {seq + 1}
        /\ UNCHANGED <<head, writes, acked>>
    BY <1>3 DEF NextAuditId
  <2>2. TypeOK'
    BY <1>0, <2>1 DEF TypeOK, Acked
  <2>3. seq \in Nat /\ IdsOnDisk \subseteq Nat /\ \A n \in IdsOnDisk : n <= seq
    BY <1>0, <2>1 DEF IInv, TypeOK, CounterAhead, IdsBounded
  <2>4. HeldUnwritten' /\ CounterAhead'
    <3>1. IdsOnDisk' = IdsOnDisk /\ seq + 1 \notin IdsOnDisk /\ held \cap IdsOnDisk = {}
      BY <1>0, <2>1, <2>3, SameFiles DEF IInv, HeldUnwritten
    <3> QED BY <2>1, <2>3, <3>1 DEF HeldUnwritten, CounterAhead
  <2> QED BY <1>0, <2>1, <2>2, <2>4, SameFiles
          DEF IInv, HeadsCurrent, IdsBounded, HeldByLogger
<1>4. ASSUME NEW s \in LoggerStream, Emit(s) PROVE IInv'
  <2> s \in Stream
    BY DEF Stream
  <2>1. up /\ up' /\ seq < MaxSeq /\ seq' = seq + 1 /\ held' = held
    BY <1>4 DEF Emit
  <2>2. head[s] = TailHash(file[s]) /\ seq \in Nat /\ writes \in Nat
    BY <1>0, <2>1 DEF IInv, HeadsCurrent, TypeOK
  <2>3. EmitRow(s) = Row(seq + 1, writes + 1, TailHash(file[s]))
    BY <2>2 DEF EmitRow
  <2>4. seq + 1 \notin IdsOnDisk
    BY <2>1, <2>2 DEF IInv, CounterAhead
  <2>5. /\ file' \in [Stream -> Seq(Line)] /\ FilesWhole' /\ ChainIntact' /\ UniqueAuditIds'
        /\ IdsOnDisk' = IdsOnDisk \cup {seq + 1}
        /\ \A t \in Stream \ {s} : file'[t] = file[t]
        /\ TailHash(file'[s]) = EmitRow(s).hash
    <3>1. seq + 1 \in Nat /\ AppendsRow(s, seq + 1)
      BY <1>4, <2>2, <2>3 DEF Emit, AppendsRow
    <3>2. TailHash(file'[s]) = Row(seq + 1, writes + 1, TailHash(file[s])).hash
      BY <1>0, <2>4, <3>1, AppendToTrail
    <3> QED BY <1>0, <2>3, <2>4, <3>1, <3>2, AppendToTrail
  <2>6. EmitRow(s).hash \in HashValue /\ EmitRow(s).id \in Nat /\ EmitRow(s).payload \in Nat
    <3>1. TailHash(file[s]) \in HashValue
      BY <1>0, TailHashType DEF TypeOK
    <3> QED BY <2>2, <2>3, <3>1, RowType DEF Line
  <2>7. TypeOK'
    BY <1>0, <1>4, <2>1, <2>5, <2>6 DEF TypeOK, Emit, Ack, Acked
  <2>8. HeadsCurrent'
    <3>1. head' = [head EXCEPT ![s] = EmitRow(s).hash]
      BY <1>4 DEF Emit
    <3> QED BY <1>0, <2>1, <2>5, <3>1 DEF IInv, HeadsCurrent, TypeOK, Stream
  <2>9. CounterAhead' /\ IdsBounded' /\ HeldUnwritten' /\ HeldByLogger'
    <3>1. \A n \in IdsOnDisk : n \in Nat /\ n <= seq
      BY <2>1 DEF IInv, CounterAhead, IdsBounded
    <3>2. held \subseteq 1..seq
      BY <1>0 DEF TypeOK
    <3> QED BY <2>1, <2>2, <2>5, <3>1, <3>2
            DEF IInv, CounterAhead, IdsBounded, HeldUnwritten, HeldByLogger
  <2> QED BY <2>5, <2>7, <2>8, <2>9 DEF IInv
<1>5. ASSUME NEW s \in LoggerStream, EmitFails(s) PROVE IInv'
  <2> s \in Stream
    BY DEF Stream
  <2>1. file' = file
    BY <1>0, <1>5 DEF EmitFails, AfterFailure, NoFault, TypeOK
  <2>2. UNCHANGED <<up, seq, head, held, acked>> /\ writes < MaxWrites /\ writes' = writes + 1
    BY <1>5 DEF EmitFails
  <2>3. TypeOK'
    BY <1>0, <2>1, <2>2 DEF TypeOK, Acked
  <2> QED BY <1>0, <2>1, <2>2, <2>3, SameFiles
          DEF IInv, HeadsCurrent, CounterAhead, IdsBounded, HeldUnwritten, HeldByLogger
<1>6. ASSUME NEW s \in ChainStream, NEW id \in 0..MaxSeq, AppendChained(s, id) PROVE IInv'
  <2> s \in Stream /\ s \notin LoggerStream
    BY DEF Stream, SeparateStreams
  <2>1. /\ id \in held \cup {0} /\ held' = held \ {id} /\ writes < MaxWrites
        /\ UNCHANGED <<up, seq, head>>
    BY <1>6 DEF AppendChained
  <2>2. ChainRow(s, id) = Row(id, writes + 1, TailHash(file[s])) /\ writes \in Nat /\ id \in Nat
    BY <1>0, LastHashOfWhole DEF ChainRow, TypeOK, FilesWhole
  <2>3. id = 0 \/ id \notin IdsOnDisk
    BY <2>1 DEF IInv, HeldUnwritten
  <2>4. /\ file' \in [Stream -> Seq(Line)] /\ FilesWhole' /\ ChainIntact' /\ UniqueAuditIds'
        /\ IdsOnDisk' = IdsOnDisk \cup {id}
        /\ \A t \in Stream \ {s} : file'[t] = file[t]
    BY <1>0, <1>6, <2>2, <2>3, AppendToTrail DEF AppendChained, AppendsRow
  <2>5. ChainRow(s, id).id \in Nat /\ ChainRow(s, id).payload \in Nat
    BY <1>0, <2>2, RowType, TailHashType DEF TypeOK
  <2>6. TypeOK'
    BY <1>0, <1>6, <2>1, <2>4, <2>5 DEF TypeOK, AppendChained, Ack, Acked
  <2>7. HeadsCurrent'
    BY <2>1, <2>4 DEF IInv, HeadsCurrent, Stream
  <2>8. CounterAhead' /\ IdsBounded' /\ HeldUnwritten' /\ HeldByLogger'
    <3>1. 0 \in IdsOnDisk /\ held \subseteq 1..seq /\ seq \in Nat
      <4>1. 0 \in IdsOnDisk
        BY DEF IdsOnDisk
      <4> QED BY <1>0, <4>1 DEF TypeOK
    <3>2. id \in held => up /\ id <= seq
      BY <3>1 DEF IInv, HeldByLogger
    <3> QED BY <2>1, <2>2, <2>4, <3>1, <3>2
            DEF IInv, CounterAhead, IdsBounded, HeldUnwritten, HeldByLogger
  <2> QED BY <2>4, <2>6, <2>7, <2>8 DEF IInv
<1>7. ASSUME NEW s \in ChainStream, NEW id \in 0..MaxSeq, AppendChainedFails(s, id) PROVE IInv'
  <2> s \in Stream
    BY DEF Stream
  <2>1. file' = file
    BY <1>0, <1>7 DEF AppendChainedFails, AfterFailure, NoFault, TypeOK
  <2>2. /\ UNCHANGED <<up, seq, head, acked>> /\ held' = held \ {id}
        /\ writes < MaxWrites /\ writes' = writes + 1
    BY <1>7 DEF AppendChainedFails
  <2>3. TypeOK'
    BY <1>0, <2>1, <2>2 DEF TypeOK, Acked
  <2> QED BY <1>0, <2>1, <2>2, <2>3, SameFiles
          DEF IInv, HeadsCurrent, CounterAhead, IdsBounded, HeldUnwritten, HeldByLogger
<1>8. CASE UNCHANGED vars
  <2>1. file' = file /\ UNCHANGED <<up, seq, head, held, writes, acked>>
    BY <1>8 DEF vars
  <2>2. TypeOK'
    BY <1>0, <2>1 DEF TypeOK, Acked
  <2> QED BY <1>0, <2>1, <2>2, SameFiles
          DEF IInv, HeadsCurrent, CounterAhead, IdsBounded, HeldUnwritten, HeldByLogger
<1> QED BY <1>1, <1>2, <1>3, <1>4, <1>5, <1>6, <1>7, <1>8 DEF Next

-----------------------------------------------------------------------------
(* Theorems *)

\* The inductive invariant holds in every reachable state.
THEOREM InvariantHolds ==
    ASSUME NoFault, SeparateStreams
    PROVE  Spec => []IInv
<1>1. Init => IInv
  BY InitInvariant
<1>2. IInv /\ [Next]_vars => IInv'
  BY StepInvariant
<1> QED BY <1>1, <1>2, PTL DEF Spec

\* No two rows of the trail carry the same id: the counter of emit, the ids
\* reserved by next_audit_id and the restart scan never collide.
THEOREM AuditIdsAreUnique ==
    ASSUME NoFault, SeparateStreams
    PROVE  Spec => []UniqueAuditIds
<1>1. IInv => UniqueAuditIds
  BY DEF IInv
<1> QED BY <1>1, InvariantHolds, PTL

\* Every stream is one unbroken hash chain: the head an AuditLogger caches is
\* the hash on disk whenever it is used.
THEOREM ChainsAreIntact ==
    ASSUME NoFault, SeparateStreams
    PROVE  Spec => []ChainIntact
<1>1. IInv => ChainIntact
  BY DEF IInv
<1> QED BY <1>1, InvariantHolds, PTL

\* An emitted row's id is above every id on disk when it is written.
THEOREM EmittedIdsAreFresh ==
    ASSUME NoFault, SeparateStreams
    PROVE  Spec => EmitIsFresh
<1>1. IInv => \A s \in LoggerStream : Emit(s) => \A n \in IdsOnDisk : seq' > n
  <2> SUFFICES ASSUME IInv, NEW s \in LoggerStream, Emit(s), NEW n \in IdsOnDisk
               PROVE  seq' > n
    OBVIOUS
  <2>1. n <= seq /\ seq' = seq + 1 /\ n \in Nat /\ seq \in Nat
    BY DEF IInv, CounterAhead, IdsBounded, TypeOK, Emit
  <2> QED BY <2>1
<1>2. IInv /\ [Next]_vars =>
        [\A s \in LoggerStream : Emit(s) => \A n \in IdsOnDisk : seq' > n]_vars
  BY <1>1
<1> QED BY <1>2, InvariantHolds, PTL DEF Spec, EmitIsFresh

-----------------------------------------------------------------------------
(* The verifier, on any file whatever befell it *)

\* The hash carried by the walk follows the equation it is defined by.
LEMMA CarriedIs ==
    ASSUME NEW f \in Seq(Line)
    PROVE  /\ Carried(f) \in [0..Len(f) -> HashValue]
           /\ Carried(f)[0] = NoHash
           /\ \A i \in 1..Len(f) :
                 Carried(f)[i] = IF Good(f, i, Carried(f)[i - 1]) THEN f[i].hash
                                 ELSE Carried(f)[i - 1]
<1> DEFINE N == Len(f)
           step == [x \in (1..N) \X HashValue |->
                       IF Good(f, x[1], x[2]) THEN f[x[1]].hash ELSE x[2]]
           Walk(g) == g = [i \in 0..N |-> IF i = 0 THEN NoHash
                                         ELSE IF Good(f, i, g[i - 1]) THEN f[i].hash
                                         ELSE g[i - 1]]
<1>1. N \in Nat /\ NoHash \in HashValue
  BY DEF NoHash, HashValue
<1>2. \A i \in 1..N : f[i].hash \in HashValue
  <2>1. \A i \in 1..N : f[i] \in Line
    OBVIOUS
  <2> QED BY <2>1 DEF Line
<1>3. step \in [(1..N) \X HashValue -> HashValue]
  BY <1>2
<1>4. PICK g \in [0..N -> HashValue] : Iterates(g, N, NoHash, step)
  <2> HIDE DEF N, step
  <2> QED BY <1>1, <1>3, RecursionExists
<1>5. ASSUME NEW i \in 1..N
      PROVE  g[i] = IF Good(f, i, g[i - 1]) THEN f[i].hash ELSE g[i - 1]
  <2>1. i - 1 \in 0..N /\ <<i, g[i - 1]>> \in (1..N) \X HashValue
    BY <1>1
  <2>2. step[<<i, g[i - 1]>>] = IF Good(f, i, g[i - 1]) THEN f[i].hash ELSE g[i - 1]
    BY <2>1
  <2> HIDE DEF step
  <2> QED BY <1>4, <2>2 DEF Iterates
<1>6. Walk(g)
  BY <1>1, <1>4, <1>5 DEF Iterates
<1>7. Carried(f) = CHOOSE h : Walk(h)
  BY DEF Carried
<1>8. Walk(Carried(f))
  <2> HIDE DEF Walk
  <2> QED BY <1>6, <1>7
<1> DEFINE c == Carried(f)
<1>9. c[0] = NoHash /\ \A i \in 1..N : c[i] = IF Good(f, i, c[i - 1]) THEN f[i].hash ELSE c[i - 1]
  <2> HIDE DEF c
  <2>1. Walk(c)
    BY <1>8 DEF c
  <2> QED BY <1>1, <2>1
<1>10. c \in [0..N -> HashValue]
  <2> DEFINE Typed == {i \in 0..N : c[i] \in HashValue}
  <2> HIDE DEF c
  <2>1. 0 \in Typed
    BY <1>1, <1>9
  <2>2. ASSUME NEW i \in 0..N, i \in Typed, i < N PROVE i + 1 \in Typed
    <3>1. i + 1 \in 1..N /\ (i + 1) - 1 = i
      BY <1>1, <2>2
    <3> QED BY <1>2, <1>9, <2>2, <3>1
  <2>3. 0..N \subseteq Typed
    <3> HIDE DEF Typed, N
    <3> QED BY <1>1, <2>1, <2>2, IntervalInduction
  <2>4. Walk(c)
    BY <1>8 DEF c
  <2> QED BY <2>3, <2>4
<1> QED BY <1>9, <1>10

\* Behind a head of the file in which every row is accepted, the carried hash is
\* that of the last row.
LEMMA CarriedIsPrevious ==
    ASSUME NEW f \in Seq(Line), NEW m \in 0..Len(f),
           \A i \in 1..m : Good(f, i, Carried(f)[i - 1])
    PROVE  Carried(f)[m] = IF m = 0 THEN NoHash ELSE f[m].hash
BY CarriedIs

\* The walk and the line by line reading agree on every file.
LEMMA BreaksIffChain ==
    ASSUME NEW f \in Seq(Line)
    PROVE  Breaks(f) = {} <=> ChainOK(f)
<1> DEFINE c == Carried(f)
           prev(i) == IF i = 1 THEN NoHash ELSE f[i - 1].hash
<1>1. Len(f) \in Nat /\ DOMAIN f = 1..Len(f)
  OBVIOUS
<1>2. ASSUME Breaks(f) = {} PROVE ChainOK(f)
  <2>1. \A i \in 1..Len(f) : Good(f, i, c[i - 1])
    BY <1>1, <1>2 DEF Breaks
  <2>2. ASSUME NEW i \in 1..Len(f) PROVE c[i - 1] = prev(i)
    <3>1. i - 1 \in 0..Len(f) /\ \A j \in 1..i - 1 : Good(f, j, c[j - 1])
      BY <1>1, <2>1
    <3>2. c[i - 1] = IF i - 1 = 0 THEN NoHash ELSE f[i - 1].hash
      BY <3>1, CarriedIsPrevious
    <3> QED BY <1>1, <3>2
  <2> QED BY <1>1, <2>1, <2>2 DEF ChainOK, Good
<1>3. ASSUME ChainOK(f) PROVE Breaks(f) = {}
  <2> DEFINE Sound == {m \in 0..Len(f) : c[m] = IF m = 0 THEN NoHash ELSE f[m].hash}
  <2>1. ASSUME NEW m \in 0..Len(f), m \in Sound, m < Len(f)
        PROVE  Good(f, m + 1, c[m]) /\ m + 1 \in Sound
    <3>1. m + 1 \in 1..Len(f) /\ (m + 1) - 1 = m
      BY <1>1, <2>1
    <3>2. Good(f, m + 1, c[m])
      BY <1>1, <1>3, <2>1, <3>1 DEF ChainOK, Good
    <3>3. c[m + 1] = f[m + 1].hash
      BY <3>1, <3>2, CarriedIs
    <3> QED BY <3>1, <3>2, <3>3
  <2>2. 0 \in Sound
    BY <1>1, CarriedIs
  <2>3. 0..Len(f) \subseteq Sound
    <3> HIDE DEF Sound
    <3> QED BY <1>1, <2>1, <2>2, IntervalInduction
  <2>4. ASSUME NEW i \in 1..Len(f) PROVE Good(f, i, c[i - 1])
    <3>1. i - 1 \in 0..Len(f) /\ i - 1 < Len(f) /\ (i - 1) + 1 = i
      BY <1>1
    <3>2. i - 1 \in Sound
      BY <2>3, <3>1
    <3> HIDE DEF Sound, c
    <3> QED BY <2>1, <3>1, <3>2
  <2> QED BY <1>1, <2>4 DEF Breaks
<1> QED BY <1>2, <1>3

-----------------------------------------------------------------------------
(* Whatever fails: no hypothesis on the faults or on the streams *)

\* A line of f parses as nothing.
Damaged(f) == \E i \in DOMAIN f : ~f[i].ok

\* The acknowledged row a stands in f on a line of its own.
HasRow(f, a) ==
    \E i \in Parsed(f) : f[i].nl /\ f[i].payload = a.payload /\ f[i].id = a.id

\* The rows of f are of the first n appends, in their order.
InOrder(f, n) ==
    /\ \A i \in Parsed(f) : f[i].payload \in 1..n
    /\ \A i, j \in Parsed(f) : i < j => f[i].payload < f[j].payload

RowsInOrder == \A s \in Stream : InOrder(file[s], writes)
Survives(a) == HasRow(file[a.stream], a) \/ Damaged(file[a.stream])
AckedSurvive == \A a \in acked : Survives(a)

FaultInv == TypeOK /\ IdsBounded /\ RowsInOrder /\ AckedSurvive

\* A step that mends no file.
NoneMended == \A s \in Stream : ~ChainOK(file[s]) => ~ChainOK(file'[s])

\* What append n + 1, of a row with this id, makes of f at most, whether it
\* succeeds or fails: g is damaged if f was, has the rows of f unless it is
\* damaged, and is no chain if f was none.
Grown(g, f, n, id) ==
    /\ g \in Seq(Line)
    /\ InOrder(g, n + 1)
    /\ IdsIn(g) \subseteq IdsIn(f) \cup {id}
    /\ Damaged(f) => Damaged(g)
    /\ \A a \in Acked : HasRow(f, a) => HasRow(g, a) \/ Damaged(g)
    /\ ~ChainOK(f) => ~ChainOK(g)

LEMMA JunkType == ASSUME NEW b \in BOOLEAN PROVE Junk(b) \in Line /\ ~Junk(b).ok
BY DEF Junk, Line, NoHash, HashValue

LEMMA AppendGrows ==
    ASSUME NEW f \in Seq(Line), NEW n \in Nat, InOrder(f, n), NEW id,
           NEW line \in Line, line.ok => line.payload = n + 1 /\ line.id = id
    PROVE  /\ Grown(AppendLine(f, line), f, n, id)
           /\ line.ok /\ line.nl => HasRow(AppendLine(f, line), line)
                                    \/ Damaged(AppendLine(f, line))
<1> DEFINE g == AppendLine(f, line)
<1>0. Len(f) \in Nat /\ DOMAIN f = 1..Len(f) /\ \A i \in 1..Len(f) : f[i] \in Line
  OBVIOUS
<1>1. CASE f # <<>> /\ ~f[Len(f)].nl
  <2> DEFINE L == Len(f)
             junk == Junk(line.nl)
  <2>1. L \in 1..L /\ junk \in Line /\ ~junk.ok
    BY <1>0, <1>1, JunkType DEF Line
  <2>2. g = [f EXCEPT ![L] = junk]
    BY <1>1 DEF AppendLine
  <2>3. g \in Seq(Line) /\ DOMAIN g = 1..L /\ g[L] = junk /\ \A i \in 1..L : i # L => g[i] = f[i]
    BY <1>0, <2>1, <2>2
  <2> HIDE DEF g, junk
  <2>4. Damaged(g) /\ ~ChainOK(g)
    BY <2>1, <2>3 DEF Damaged, ChainOK
  <2>5. \A i \in Parsed(g) : i \in Parsed(f) /\ g[i] = f[i]
    BY <1>0, <2>1, <2>3 DEF Parsed
  <2>6. InOrder(g, n + 1)
    <3>1. \A i \in Parsed(g) : g[i].payload \in 1..n + 1
      BY <2>5 DEF InOrder
    <3>2. \A i, j \in Parsed(g) : i < j => g[i].payload < g[j].payload
      BY <2>5 DEF InOrder
    <3> QED BY <3>1, <3>2 DEF InOrder
  <2>7. IdsIn(g) \subseteq IdsIn(f) \cup {id}
    BY <2>5 DEF IdsIn
  <2> QED BY <2>3, <2>4, <2>6, <2>7 DEF Grown, g
<1>2. CASE ~(f # <<>> /\ ~f[Len(f)].nl)
  <2> DEFINE L == Len(f)
  <2>1. g = Append(f, line)
    BY <1>2 DEF AppendLine
  <2>2. /\ g \in Seq(Line) /\ DOMAIN g = 1..L + 1 /\ L + 1 \in DOMAIN g
        /\ g[L + 1] = line /\ \A i \in 1..L : g[i] = f[i]
    BY <1>0, <2>1
  <2> HIDE DEF g
  <2>3. /\ \A i \in Parsed(f) : i \in Parsed(g) /\ g[i] = f[i] /\ i \in 1..L
        /\ \A i \in Parsed(g) : (i \in Parsed(f) /\ g[i] = f[i]) \/ (i = L + 1 /\ line.ok)
    BY <1>0, <2>2 DEF Parsed
  <2>4. InOrder(g, n + 1)
    <3>1. \A i \in Parsed(g) : g[i].payload \in 1..n + 1
      BY <2>2, <2>3 DEF InOrder
    <3>2. ASSUME NEW i \in Parsed(g), NEW j \in Parsed(g), i < j
          PROVE  g[i].payload < g[j].payload
      <4>1. i \in 1..L + 1 /\ j \in 1..L + 1
        BY <2>2 DEF Parsed
      <4>2. i \in Parsed(f) /\ g[i] = f[i] /\ f[i].payload \in 1..n
        BY <1>0, <2>3, <3>2, <4>1 DEF InOrder
      <4>3. CASE j \in Parsed(f) /\ g[j] = f[j]
        BY <3>2, <4>2, <4>3 DEF InOrder
      <4>4. CASE j = L + 1 /\ line.ok
        BY <2>2, <4>2, <4>4
      <4> QED BY <2>3, <4>3, <4>4
    <3> QED BY <3>1, <3>2 DEF InOrder
  <2>5. IdsIn(g) \subseteq IdsIn(f) \cup {id}
    BY <2>2, <2>3 DEF IdsIn
  <2>6. Damaged(f) => Damaged(g)
    BY <1>0, <2>2 DEF Damaged
  <2>7. \A a \in Acked : HasRow(f, a) => HasRow(g, a)
    BY <2>3 DEF HasRow
  <2>8. ASSUME ~ChainOK(f) PROVE ~ChainOK(g)
    <3>1. PICK i \in 1..L : ~(/\ f[i].ok
                              /\ f[i].hash = Hash(f[i].prev, f[i].payload)
                              /\ f[i].prev = IF i = 1 THEN NoHash ELSE f[i - 1].hash)
      BY <1>0, <2>8 DEF ChainOK
    <3>2. i \in DOMAIN g /\ g[i] = f[i] /\ (i # 1 => g[i - 1] = f[i - 1])
      BY <1>0, <2>2
    <3> QED BY <3>1, <3>2 DEF ChainOK
  <2>9. line.ok /\ line.nl => HasRow(g, line)
    BY <2>2 DEF HasRow, Parsed
  <2> QED BY <2>2, <2>4, <2>5, <2>6, <2>7, <2>8, <2>9 DEF Grown, g
<1> QED BY <1>1, <1>2

\* A failed append leaves the file as it is or grown.
LEMMA FailureGrows ==
    ASSUME NEW f \in Seq(Line), NEW n \in Nat, InOrder(f, n),
           NEW r \in Line, r.ok, r.payload = n + 1,
           NEW g \in AfterFailure(f, r)
    PROVE  Grown(g, f, n, r.id)
<1>1. CASE g = f
  <2>1. InOrder(f, n + 1)
    BY DEF InOrder
  <2> QED BY <1>1, <2>1 DEF Grown
<1>2. CASE g = AppendLine(f, Junk(FALSE))
  BY <1>2, AppendGrows, JunkType
<1>3. CASE g = AppendLine(f, [r EXCEPT !.nl = FALSE])
  <2> DEFINE cut == [r EXCEPT !.nl = FALSE]
  <2>1. cut \in Line /\ cut.ok /\ cut.payload = n + 1 /\ cut.id = r.id
    BY DEF Line
  <2> HIDE DEF cut
  <2>2. Grown(AppendLine(f, cut), f, n, r.id)
    BY <2>1, AppendGrows
  <2> QED BY <1>3, <2>2 DEF cut
<1>4. CASE g = AppendLine(f, r)
  BY <1>4, AppendGrows
<1> QED BY <1>1, <1>2, <1>3, <1>4 DEF AfterFailure

\* What an append to one stream leaves of the trail.
LEMMA TrailGrows ==
    ASSUME TypeOK, RowsInOrder, NEW s \in Stream, NEW id \in Nat, NEW g,
           Grown(g, file[s], writes, id),
           file' = [file EXCEPT ![s] = g], writes' = writes + 1
    PROVE  /\ file' \in [Stream -> Seq(Line)]
           /\ RowsInOrder'
           /\ IdsOnDisk' \subseteq IdsOnDisk \cup {id}
           /\ \A a \in Acked : Survives(a) =>
                 HasRow(file'[a.stream], a) \/ Damaged(file'[a.stream])
           /\ NoneMended
<1>1. /\ file \in [Stream -> Seq(Line)] /\ writes \in Nat /\ g \in Seq(Line)
      /\ file'[s] = g /\ \A t \in Stream \ {s} : file'[t] = file[t]
      /\ file' \in [Stream -> Seq(Line)]
  BY DEF TypeOK, Grown
<1>2. RowsInOrder'
  <2>1. \A t \in Stream \ {s} : InOrder(file[t], writes + 1)
    BY <1>1 DEF RowsInOrder, InOrder
  <2>2. \A t \in Stream : InOrder(file'[t], writes + 1)
    BY <1>1, <2>1 DEF Grown
  <2> QED BY <2>2 DEF RowsInOrder
<1>3. IdsOnDisk' \subseteq IdsOnDisk \cup {id}
  <2>1. \A t \in Stream : IdsIn(file'[t]) \subseteq IdsIn(file[t]) \cup {id}
    BY <1>1 DEF Grown
  <2>2. IdsOnDisk' = (UNION {IdsIn(file'[t]) : t \in Stream}) \cup {0}
    BY DEF IdsOnDisk
  <2> QED BY <2>1, <2>2 DEF IdsOnDisk
<1>4. ASSUME NEW a \in Acked, Survives(a)
      PROVE  HasRow(file'[a.stream], a) \/ Damaged(file'[a.stream])
  BY <1>1, <1>4 DEF Survives, Grown, Acked
<1>5. NoneMended
  BY <1>1 DEF Grown, NoneMended
<1> QED BY <1>1, <1>2, <1>3, <1>4, <1>5

\* What every append that is tried makes of the invariant, given what it leaves
\* in the stream and which rows are acknowledged after it.
LEMMA AppendKeepsFaultInv ==
    ASSUME FaultInv, NEW s \in Stream, NEW id \in 0..MaxSeq, NEW g,
           Grown(g, file[s], writes, id), writes < MaxWrites,
           file' = [file EXCEPT ![s] = g], writes' = writes + 1,
           \A a \in acked' : \/ a \in acked
                             \/ a \in Acked /\ a.stream = s /\ (HasRow(g, a) \/ Damaged(g)),
           up' = up, seq' \in {seq, seq + 1}, seq' <= MaxSeq, held' \subseteq held,
           head' \in [Stream -> HashValue]
    PROVE  FaultInv' /\ NoneMended
<1> USE AuditAssumption
<1>1. TypeOK /\ RowsInOrder /\ AckedSurvive /\ IdsBounded /\ id \in Nat
  BY DEF FaultInv
<1>2. /\ file' \in [Stream -> Seq(Line)]
      /\ RowsInOrder'
      /\ IdsOnDisk' \subseteq IdsOnDisk \cup {id}
      /\ \A a \in Acked : Survives(a) => HasRow(file'[a.stream], a) \/ Damaged(file'[a.stream])
      /\ NoneMended
  BY <1>1, TrailGrows
<1>3. \A a \in acked' : a \in Acked
  BY <1>1 DEF TypeOK
<1>4. TypeOK'
  <2>1. seq \in Nat /\ seq' \in 0..MaxSeq /\ held' \subseteq 1..seq' /\ writes' \in 0..MaxWrites
    BY <1>1 DEF TypeOK
  <2> QED BY <1>1, <1>2, <1>3, <2>1 DEF TypeOK, Acked
<1>5. AckedSurvive'
  <2>1. ASSUME NEW a \in acked' PROVE HasRow(file'[a.stream], a) \/ Damaged(file'[a.stream])
    <3>1. CASE a \in acked
      BY <1>1, <1>2, <1>3, <3>1 DEF AckedSurvive
    <3>2. CASE a.stream = s /\ (HasRow(g, a) \/ Damaged(g))
      BY <1>1, <3>2 DEF TypeOK
    <3> QED BY <3>1, <3>2
  <2> QED BY <2>1 DEF AckedSurvive, Survives
<1>6. IdsBounded'
  BY <1>1, <1>2 DEF IdsBounded
<1> QED BY <1>2, <1>4, <1>5, <1>6 DEF FaultInv

LEMMA LastHashType ==
    ASSUME NEW f \in Seq(Line)
    PROVE  LastHash(f) \in HashValue
<1>1. CASE Parsed(f) = {}
  BY <1>1 DEF LastHash, NoHash, HashValue
<1>2. CASE Parsed(f) # {}
  <2> DEFINE Last(i) == \A j \in Parsed(f) : j <= i
  <2>1. Parsed(f) \in SUBSET (0..Len(f)) /\ Len(f) \in Nat
    BY DEF Parsed
  <2>2. \E i \in Parsed(f) : Last(i)
    BY <1>2, <2>1, LargestExists
  <2>3. LastHash(f) = f[CHOOSE i \in Parsed(f) : Last(i)].hash
    BY <1>2 DEF LastHash
  <2> HIDE DEF Last
  <2>4. PICK i \in Parsed(f) : LastHash(f) = f[i].hash
    BY <2>2, <2>3
  <2>5. f[i] \in Line
    BY DEF Parsed
  <2> QED BY <2>4, <2>5 DEF Line
<1> QED BY <1>1, <1>2

\* The rows the two writers are about to append.
LEMMA RowsToAppend ==
    ASSUME TypeOK, NEW s \in Stream
    PROVE  /\ seq < MaxSeq =>
                /\ EmitRow(s) \in Line /\ EmitRow(s).ok /\ EmitRow(s).nl
                /\ EmitRow(s).payload = writes + 1 /\ EmitRow(s).id = seq + 1
                /\ EmitRow(s).hash \in HashValue
           /\ \A id \in 0..MaxSeq :
                /\ ChainRow(s, id) \in Line /\ ChainRow(s, id).ok /\ ChainRow(s, id).nl
                /\ ChainRow(s, id).payload = writes + 1 /\ ChainRow(s, id).id = id
<1>1. seq + 1 \in Nat /\ writes + 1 \in Nat /\ head[s] \in HashValue /\ file[s] \in Seq(Line)
  BY AuditAssumption DEF TypeOK
<1>2. LastHash(file[s]) \in HashValue
  BY <1>1, LastHashType
<1>3. EmitRow(s) \in Line => EmitRow(s).hash \in HashValue
  BY DEF Line
<1> QED BY <1>1, <1>2, <1>3, RowType, AuditAssumption DEF EmitRow, ChainRow

LEMMA FaultStep == ASSUME FaultInv, [Next]_vars PROVE FaultInv' /\ NoneMended
<1> USE AuditAssumption
<1>1. TypeOK /\ IdsBounded /\ RowsInOrder /\ AckedSurvive
  BY DEF FaultInv
<1>2. ASSUME UNCHANGED <<file, writes, acked>>, TypeOK' PROVE FaultInv' /\ NoneMended
  BY <1>1, <1>2 DEF FaultInv, IdsBounded, IdsOnDisk, IdsIn, Parsed, RowsInOrder,
                    AckedSurvive, Survives, NoneMended
<1>3. CASE Open
  <2>1. /\ UNCHANGED <<file, writes, acked>> /\ up' = TRUE /\ held' = {}
        /\ seq' \in IdsOnDisk /\ head' = [s \in Stream |-> LastHash(file[s])]
    BY <1>3 DEF Open
  <2>2. head' \in [Stream -> HashValue]
    BY <1>1, <2>1, LastHashType DEF TypeOK
  <2>3. TypeOK'
    BY <1>1, <2>1, <2>2 DEF TypeOK, IdsBounded, Acked
  <2> QED BY <1>2, <2>1, <2>3
<1>4. CASE Close
  <2>1. TypeOK' /\ UNCHANGED <<file, writes, acked>>
    BY <1>1, <1>4 DEF Close, TypeOK, Acked
  <2> QED BY <1>2, <2>1
<1>5. CASE NextAuditId
  <2>1. TypeOK' /\ UNCHANGED <<file, writes, acked>>
    BY <1>1, <1>5 DEF NextAuditId, TypeOK, Acked
  <2> QED BY <1>2, <2>1
<1>6. ASSUME NEW s \in Stream, file[s] \in Seq(Line), writes \in Nat, seq \in Nat
      PROVE  InOrder(file[s], writes)
  BY <1>1 DEF RowsInOrder
<1>7. ASSUME NEW s \in LoggerStream, Emit(s) PROVE FaultInv' /\ NoneMended
  <2> DEFINE r == EmitRow(s)
             g == AppendLine(file[s], r)
  <2>0. s \in Stream /\ seq \in Nat /\ writes \in Nat /\ file[s] \in Seq(Line)
    BY <1>1 DEF Stream, TypeOK
  <2>1. /\ writes < MaxWrites /\ seq < MaxSeq /\ file' = [file EXCEPT ![s] = g]
        /\ seq' = seq + 1 /\ head' = [head EXCEPT ![s] = r.hash] /\ writes' = writes + 1
        /\ acked' = acked \cup {Ack(s, r)} /\ up' = up /\ held' = held
    BY <1>7, <1>1, <2>0 DEF Emit, TypeOK
  <2>2. /\ r \in Line /\ r.ok /\ r.nl /\ r.payload = writes + 1 /\ r.id = seq + 1
        /\ r.hash \in HashValue
    BY <1>1, <2>0, <2>1, RowsToAppend
  <2>3. Grown(g, file[s], writes, seq + 1) /\ (HasRow(g, r) \/ Damaged(g))
    <3> HIDE DEF r
    <3> QED BY <1>6, <2>0, <2>2, AppendGrows
  <2>4. /\ Ack(s, r) \in Acked /\ Ack(s, r).stream = s
        /\ Ack(s, r).payload = r.payload /\ Ack(s, r).id = r.id
    BY <2>0, <2>2 DEF Ack, Acked
  <2> HIDE DEF r, g
  <2>5. HasRow(g, Ack(s, r)) \/ Damaged(g)
    BY <2>3, <2>4 DEF HasRow
  <2>6. head' \in [Stream -> HashValue] /\ seq + 1 \in 0..MaxSeq
    BY <1>1, <2>0, <2>1, <2>2 DEF TypeOK
  <2>7. seq' \in {seq, seq + 1} /\ seq' <= MaxSeq /\ held' \subseteq held
    BY <2>1, <2>6
  <2>8. \A a \in acked' : \/ a \in acked
                          \/ a \in Acked /\ a.stream = s /\ (HasRow(g, a) \/ Damaged(g))
    BY <2>1, <2>4, <2>5
  <2> QED BY <2>0, <2>1, <2>3, <2>6, <2>7, <2>8, AppendKeepsFaultInv
<1>8. ASSUME NEW s \in LoggerStream, EmitFails(s) PROVE FaultInv' /\ NoneMended
  <2>0. s \in Stream /\ seq \in Nat /\ writes \in Nat /\ file[s] \in Seq(Line)
    BY <1>1 DEF Stream, TypeOK
  <2>1. PICK g \in AfterFailure(file[s], EmitRow(s)) : file' = [file EXCEPT ![s] = g]
    BY <1>8 DEF EmitFails
  <2>2. /\ writes < MaxWrites /\ seq < MaxSeq /\ writes' = writes + 1
        /\ UNCHANGED <<up, seq, head, held, acked>>
    BY <1>8 DEF EmitFails
  <2>3. Grown(g, file[s], writes, seq + 1)
    BY <1>1, <1>6, <2>0, <2>2, RowsToAppend, FailureGrows
  <2>4. seq + 1 \in 0..MaxSeq /\ head' \in [Stream -> HashValue] /\ seq <= MaxSeq
    BY <1>1, <2>0, <2>2 DEF TypeOK
  <2> QED BY <2>0, <2>1, <2>2, <2>3, <2>4, AppendKeepsFaultInv
<1>9. ASSUME NEW s \in ChainStream, NEW id \in 0..MaxSeq, AppendChained(s, id) PROVE FaultInv' /\ NoneMended
  <2> DEFINE r == ChainRow(s, id)
             g == AppendLine(file[s], r)
  <2>0. s \in Stream /\ seq \in Nat /\ writes \in Nat /\ file[s] \in Seq(Line) /\ seq <= MaxSeq
    BY <1>1 DEF Stream, TypeOK
  <2>1. /\ writes < MaxWrites /\ file' = [file EXCEPT ![s] = g]
        /\ seq' = seq /\ head' = head /\ writes' = writes + 1
        /\ acked' = acked \cup {Ack(s, r)} /\ up' = up /\ held' \subseteq held
    BY <1>9, <1>1, <2>0 DEF AppendChained, TypeOK
  <2>2. /\ r \in Line /\ r.ok /\ r.nl /\ r.payload = writes + 1 /\ r.id = id
    BY <1>1, <2>0, RowsToAppend
  <2>3. Grown(g, file[s], writes, id) /\ (HasRow(g, r) \/ Damaged(g))
    <3> HIDE DEF r
    <3> QED BY <1>6, <2>0, <2>2, AppendGrows
  <2>4. /\ Ack(s, r) \in Acked /\ Ack(s, r).stream = s
        /\ Ack(s, r).payload = r.payload /\ Ack(s, r).id = r.id
    BY <2>0, <2>2 DEF Ack, Acked
  <2> HIDE DEF r, g
  <2>5. HasRow(g, Ack(s, r)) \/ Damaged(g)
    BY <2>3, <2>4 DEF HasRow
  <2>6. head' \in [Stream -> HashValue]
    BY <1>1, <2>1 DEF TypeOK
  <2> QED BY <2>0, <2>1, <2>3, <2>4, <2>5, <2>6, AppendKeepsFaultInv
<1>10. ASSUME NEW s \in ChainStream, NEW id \in 0..MaxSeq, AppendChainedFails(s, id) PROVE FaultInv' /\ NoneMended
  <2>0. s \in Stream /\ seq \in Nat /\ writes \in Nat /\ file[s] \in Seq(Line) /\ seq <= MaxSeq
    BY <1>1 DEF Stream, TypeOK
  <2>1. PICK g \in AfterFailure(file[s], ChainRow(s, id)) : file' = [file EXCEPT ![s] = g]
    BY <1>10 DEF AppendChainedFails
  <2>2. /\ writes < MaxWrites /\ writes' = writes + 1 /\ held' \subseteq held
        /\ UNCHANGED <<up, seq, head, acked>>
    BY <1>10 DEF AppendChainedFails
  <2>3. Grown(g, file[s], writes, id)
    BY <1>1, <1>6, <2>0, RowsToAppend, FailureGrows
  <2>4. head' \in [Stream -> HashValue]
    BY <1>1, <2>2 DEF TypeOK
  <2> QED BY <2>0, <2>1, <2>2, <2>3, <2>4, AppendKeepsFaultInv
<1>11. CASE UNCHANGED vars
  <2>1. TypeOK' /\ UNCHANGED <<file, writes, acked>>
    BY <1>1, <1>11 DEF vars, TypeOK, Acked
  <2> QED BY <1>2, <2>1
<1> QED BY <1>3, <1>4, <1>5, <1>7, <1>8, <1>9, <1>10, <1>11 DEF Next

LEMMA FaultInit == ASSUME Init PROVE FaultInv
<1>1. TypeOK /\ IdsBounded
  BY InitInvariant DEF IInv
<1>2. RowsInOrder /\ AckedSurvive
  BY DEF Init, RowsInOrder, InOrder, Parsed, AckedSurvive
<1> QED BY <1>1, <1>2 DEF FaultInv

\* Whatever fails and whoever shares a stream, the invariant above holds.
THEOREM FaultInvariantHolds == Spec => []FaultInv
<1>1. FaultInv /\ [Next]_vars => FaultInv'
  BY FaultStep
<1> QED BY <1>1, FaultInit, PTL DEF Spec

\* Type correctness of the trail and of the logger's memory.
THEOREM TypeCorrect == Spec => []TypeOK
<1>1. FaultInv => TypeOK
  BY DEF FaultInv
<1> QED BY <1>1, FaultInvariantHolds, PTL

\* verify_chain_lines reports a break exactly for the files that are not chained
\* line by line, torn, merged and repeated lines included.
THEOREM VerifierIsExact == Spec => []VerifierAgrees
<1>1. FaultInv => VerifierAgrees
  BY BreaksIffChain DEF FaultInv, TypeOK, VerifierAgrees
<1> QED BY <1>1, FaultInvariantHolds, PTL

\* A stream verify_chain_lines finds nothing in has every row whose writer was
\* told it is down, and its rows in the order of their writes.
THEOREM VerifiedIsComplete == Spec => []VerifiedMeansComplete
<1>1. ASSUME FaultInv PROVE VerifiedMeansComplete
  <2>1. SUFFICES ASSUME NEW s \in Stream, Breaks(file[s]) = {}
                 PROVE  /\ \A a \in acked : a.stream = s =>
                             \E i \in Parsed(file[s]) :
                                file[s][i].payload = a.payload /\ file[s][i].id = a.id
                        /\ \A i, j \in DOMAIN file[s] :
                              i < j => file[s][i].payload < file[s][j].payload
    BY DEF VerifiedMeansComplete
  <2>2. \A i \in DOMAIN file[s] : file[s][i].ok
    BY <2>1 DEF Breaks, Good
  <2>3. ~Damaged(file[s]) /\ Parsed(file[s]) = DOMAIN file[s]
    BY <2>2 DEF Damaged, Parsed
  <2>4. InOrder(file[s], writes) /\ \A a \in acked : Survives(a)
    BY <1>1 DEF FaultInv, RowsInOrder, AckedSurvive
  <2>5. \A a \in acked : a.stream = s => HasRow(file[s], a)
    BY <2>3, <2>4 DEF Survives
  <2> QED BY <2>3, <2>4, <2>5 DEF HasRow, InOrder
<1> QED BY <1>1, FaultInvariantHolds, PTL

\* Once verify_chain_lines reports a stream, no later write, failed or not,
\* makes it verify again.
THEOREM BreaksArePermanent == Spec => BreakIsPermanent
<1> DEFINE Permanent == \A s \in Stream : Breaks(file[s]) # {} => Breaks(file[s])' # {}
<1>1. ASSUME FaultInv, [Next]_vars PROVE Permanent
  <2>1. FaultInv' /\ NoneMended
    BY <1>1, FaultStep
  <2>2. \A s \in Stream : file[s] \in Seq(Line) /\ file'[s] \in Seq(Line)
    BY <1>1, <2>1 DEF FaultInv, TypeOK
  <2>3. ASSUME NEW s \in Stream, Breaks(file[s]) # {} PROVE Breaks(file'[s]) # {}
    BY <2>1, <2>2, <2>3, BreaksIffChain DEF NoneMended
  <2>4. \A s \in Stream : Breaks(file[s])' = Breaks(file'[s])
    OBVIOUS
  <2> QED BY <2>3, <2>4
<1>2. FaultInv /\ [Next]_vars => [Permanent]_vars
  BY <1>1
<1>3. [][Permanent]_vars => BreakIsPermanent
  BY PTL DEF BreakIsPermanent
<1> QED BY <1>2, <1>3, FaultInvariantHolds, PTL DEF Spec

================================================================================
