-------------------------- MODULE FindingsStore_proofs --------------------------
(***************************************************************************)
(* Proofs about FindingsStore and, at the end, about CaseReport, for any   *)
(* number of review processes and any bounds, under one hypothesis,        *)
(* NoOverlap: nobody else writes between the read and the write of a       *)
(* routing.  The code does not see to that (findings_lost), so it is what  *)
(* the examiner has to.                                                    *)
(***************************************************************************)
EXTENDS CaseReport, FiniteSetTheorems, SequenceTheorems, Induction, TLAPS

NoOverlap == Overlap = FALSE

(* The inductive invariant *)

\* FindingsResolve of a copy of findings.json.
Resolves(st) ==
    \A f \in st.fnd :
        /\ f.oid \in st.obs
        /\ [oid |-> f.oid, iid |-> f.iid] \in st.interps
        /\ \A g \in st.fnd : (f.fid = g.fid \/ f.oid = g.oid) => f = g

Holding == approver.pc \in {"copied", "sealed"}

\* What reviewer r will write is findings.json as it is, with verdicts applied
\* whose rejections are in the archive.
UpToDate(r) ==
    \E v \in Verdicts : /\ review[r].out = Remaining(store, v)
                        /\ \A f \in Rejected(store, v) : SealOf(f) \in archived

WindowInv ==
    \A r \in Reviewer : review[r].pc = "routed" =>
        /\ UpToDate(r) /\ ~Holding
        /\ \A s \in Reviewer : review[s].pc = "routed" => s = r

\* approve's copy is findings.json as it is, while it holds the lock.
HoldInv == Holding => approver.copy = store /\ Located(store, approver.fid) # {}

\* What is APPROVED, or about to be, has a seal in a ledger that can be read.
SealInv ==
    Legible(ledger) => \A f \in store.fnd :
        f.status = "APPROVED" \/ (approver.pc = "sealed" /\ f.fid = approver.fid)
            => SealOf(f) \in Sealed

IInv == TypeOK /\ Resolves(store) /\ WindowInv /\ HoldInv /\ SealInv /\ SealedIsAccountedFor

-----------------------------------------------------------------------------
(* Numbers *)

LEMMA Bounds ==
    MaxObs \in Nat /\ MaxInterp \in Nat /\ MaxFinding \in Nat /\ MaxLedger \in Nat
  BY FindingsAssumption DEF FindingsAssumption

\* Largest is 0 for none, else the largest.
LEMMA LargestIs ==
    ASSUME NEW N \in Nat, NEW S \in SUBSET (1 .. N)
    PROVE  /\ Largest(S) \in 0 .. N
           /\ \A n \in S : n <= Largest(S)
           /\ S # {} => Largest(S) \in S
<1>1. CASE S = {}
  BY <1>1 DEF Largest
<1>2. CASE S # {}
  <2>1. \E m \in S : \A n \in S : n <= m
    <3>1. S \in SUBSET (0 .. N)
      OBVIOUS
    <3> QED BY <1>2, <3>1, LargestExists
  <2> DEFINE Top(m) == \A n \in S : n <= m
  <2>2. \E m \in S : Top(m)
    BY <2>1
  <2>3. Largest(S) = CHOOSE m \in S : Top(m)
    BY <1>2 DEF Largest
  <2> HIDE DEF Top
  <2>4. Largest(S) \in S /\ Top(Largest(S))
    BY <2>2, <2>3, Zenon
  <2>5. \A n \in S : n <= Largest(S)
    BY <2>4 DEF Top
  <2>6. Largest(S) \in 1 .. N
    BY <2>4
  <2> QED BY <2>4, <2>5, <2>6
<1> QED BY <1>1, <1>2

\* In the ranks of a set, two elements have different ones, and none has 0.
LEMMA RanksDiffer ==
    ASSUME NEW N \in Nat, NEW S \in SUBSET (1 .. N), NEW a \in S, NEW b \in S
    PROVE  /\ Cardinality({p \in S : p <= a}) \in Nat \ {0}
           /\ Cardinality({p \in S : p <= a}) = Cardinality({p \in S : p <= b}) => a = b
<1> DEFINE Upto(x) == {p \in S : p <= x}
<1>1. IsFiniteSet(S)
  <2>1. IsFiniteSet(1 .. N)
    BY FS_Interval
  <2> QED BY <2>1, FS_Subset
<1>2. ASSUME NEW x \in S
      PROVE  IsFiniteSet(Upto(x)) /\ Cardinality(Upto(x)) \in Nat /\ x \in Upto(x)
  <2>1. Upto(x) \in SUBSET S /\ x \in Upto(x)
    OBVIOUS
  <2>2. IsFiniteSet(Upto(x))
    BY <1>1, <2>1, FS_Subset
  <2> HIDE DEF Upto
  <2> QED BY <2>1, <2>2, FS_CardinalityType
<1>3. ASSUME NEW x \in S, NEW y \in S, x < y
      PROVE  Upto(x) \in SUBSET Upto(y) /\ Upto(x) # Upto(y)
  <2>1. x \in Nat /\ y \in Nat /\ S \subseteq Nat
    OBVIOUS
  <2>2. y \in Upto(y) /\ y \notin Upto(x) /\ \A p \in Upto(x) : p \in Upto(y)
    BY <1>3, <2>1
  <2> HIDE DEF Upto
  <2> QED BY <2>2
<1> HIDE DEF Upto
<1>4. \A x \in S : Cardinality(Upto(x)) \in Nat \ {0}
  BY <1>2, FS_EmptySet
<1>5. \A x, y \in S : x < y => Cardinality(Upto(x)) # Cardinality(Upto(y))
  <2> SUFFICES ASSUME NEW x \in S, NEW y \in S, x < y
               PROVE  Cardinality(Upto(x)) # Cardinality(Upto(y))
    OBVIOUS
  <2> QED BY <1>2, <1>3, FS_Subset
<1>6. Cardinality(Upto(a)) = Cardinality(Upto(b)) => a = b
  <2>1. a < b \/ b < a \/ a = b
    OBVIOUS
  <2> QED BY <1>5, <2>1
<1> QED BY <1>4, <1>6 DEF Upto
-----------------------------------------------------------------------------
(* Copies of findings.json *)

\* A copy in which every claim was there before, and once, resolves as before.
LEMMA SameClaims ==
    ASSUME NEW st \in Store, Resolves(st), NEW st2 \in Store,
           st.obs \subseteq st2.obs, st.interps \subseteq st2.interps,
           \A g \in st2.fnd : \E f \in st.fnd : SealOf(f) = SealOf(g),
           \A g, h \in st2.fnd : SealOf(g) = SealOf(h) => g = h
    PROVE  Resolves(st2)
<1> SUFFICES ASSUME NEW g \in st2.fnd
             PROVE  /\ g.oid \in st2.obs
                    /\ [oid |-> g.oid, iid |-> g.iid] \in st2.interps
                    /\ \A h \in st2.fnd : (g.fid = h.fid \/ g.oid = h.oid) => g = h
  BY DEF Resolves
<1>1. PICK f \in st.fnd : SealOf(f) = SealOf(g)
  OBVIOUS
<1>2. f.fid = g.fid /\ f.oid = g.oid /\ f.iid = g.iid
  BY <1>1 DEF SealOf
<1>3. g.oid \in st2.obs /\ [oid |-> g.oid, iid |-> g.iid] \in st2.interps
  BY <1>2 DEF Resolves
<1>4. ASSUME NEW h \in st2.fnd, g.fid = h.fid \/ g.oid = h.oid
      PROVE  g = h
  <2>1. PICK k \in st.fnd : SealOf(k) = SealOf(h)
    OBVIOUS
  <2>2. k.fid = h.fid /\ k.oid = h.oid
    BY <2>1 DEF SealOf
  <2>3. f = k
    BY <1>2, <1>4, <2>2 DEF Resolves
  <2> QED BY <1>1, <2>1, <2>3
<1> QED BY <1>3, <1>4

\* What a writer that found st may leave: what was recorded and edited is there,
\* a finding that is gone is archived, and no status is ahead of the approval.
Follows(st, st2) ==
    /\ st2 \in Store /\ Resolves(st2)
    /\ st.obs \subseteq st2.obs /\ st.interps \subseteq st2.interps
    /\ \A f \in st.fnd, g \in st2.fnd : f.fid = g.fid /\ f.edited => g.edited
    /\ \A f \in st.fnd : SealOf(f) \in archived \/ \E g \in st2.fnd : SealOf(g) = SealOf(f)
    /\ \A g \in st2.fnd : g.status = "APPROVED" =>
          \E f \in st.fnd : /\ SealOf(f) = SealOf(g)
                            /\ f.status = "APPROVED" \/ (approver.pc = "sealed" /\ f.fid = approver.fid)

\* A finding f gives way to g, which makes the same claim.
LEMMA ReplaceFollows ==
    ASSUME NEW st \in Store, Resolves(st), NEW f \in st.fnd, NEW g \in Finding,
           SealOf(g) = SealOf(f), f.edited => g.edited,
           g.status = "APPROVED" =>
              f.status = "APPROVED" \/ (approver.pc = "sealed" /\ f.fid = approver.fid)
    PROVE  Follows(st, Replace(st, f, g))
<1> DEFINE st2 == Replace(st, f, g)
<1>1. /\ st2 \in Store /\ st2.obs = st.obs /\ st2.interps = st.interps
      /\ st2.fnd = (st.fnd \ {f}) \cup {g}
  BY DEF Replace, Store
<1> HIDE DEF st2
<1>2. \A h, k \in st.fnd : SealOf(h) = SealOf(k) => h = k
  BY DEF Resolves, SealOf
<1>3. \A h \in st2.fnd : \E k \in st.fnd : SealOf(k) = SealOf(h)
  BY <1>1
<1>4. \A h, k \in st2.fnd : SealOf(h) = SealOf(k) => h = k
  BY <1>1, <1>2
<1>5. Resolves(st2)
  BY <1>1, <1>3, <1>4, SameClaims
<1>6. \A h \in st.fnd, k \in st2.fnd : h.fid = k.fid /\ h.edited => k.edited
  <2>1. g.fid = f.fid
    BY DEF SealOf
  <2>2. \A h, k \in st.fnd : h.fid = k.fid => h = k
    BY DEF Resolves
  <2> QED BY <1>1, <2>1, <2>2
<1>7. \A h \in st.fnd : \E k \in st2.fnd : SealOf(k) = SealOf(h)
  BY <1>1
<1>8. \A k \in st2.fnd : k.status = "APPROVED" =>
          \E h \in st.fnd : /\ SealOf(h) = SealOf(k)
                            /\ h.status = "APPROVED" \/ (approver.pc = "sealed" /\ h.fid = approver.fid)
  BY <1>1
<1>9. Follows(st, st2)
  BY <1>1, <1>5, <1>6, <1>7, <1>8 DEF Follows
<1> QED BY <1>9 DEF st2

LEMMA MarkedIs ==
    ASSUME NEW f \in Finding, NEW v \in Verdicts
    PROVE  /\ Marked(f, v) \in Finding /\ SealOf(Marked(f, v)) = SealOf(f)
           /\ Marked(f, v).status = f.status /\ Marked(f, v).edited = f.edited
           /\ Marked(f, v).fid = f.fid
<1> DEFINE seen == f.seen \/ v[f.fid] = "KEEP"
<1>1. Marked(f, v) = [f EXCEPT !.seen = seen]
  BY DEF Marked
<1>2. seen \in BOOLEAN
  BY Zenon
<1> HIDE DEF seen
<1> QED BY <1>1, <1>2 DEF Finding, SealOf

\* A routing drops what it rejects and marks the rest.
LEMMA RemainingIs ==
    ASSUME NEW st \in Store, NEW v \in Verdicts
    PROVE  /\ Remaining(st, v) \in Store
           /\ Remaining(st, v).obs = st.obs /\ Remaining(st, v).interps = st.interps
           /\ Remaining(st, v).fnd = {Marked(f, v) : f \in st.fnd \ Rejected(st, v)}
<1> DEFINE kept == {Marked(f, v) : f \in st.fnd \ Rejected(st, v)}
<1>1. st.fnd \subseteq Finding
  BY DEF Store
<1>2. kept \in SUBSET Finding
  BY <1>1, MarkedIs
<1>3. Remaining(st, v) = [st EXCEPT !.fnd = kept]
  BY DEF Remaining
<1> HIDE DEF kept
<1>4. /\ Remaining(st, v) \in Store /\ Remaining(st, v).obs = st.obs
      /\ Remaining(st, v).interps = st.interps /\ Remaining(st, v).fnd = kept
  BY <1>2, <1>3 DEF Store
<1> QED BY <1>4 DEF kept

LEMMA RemainingFollows ==
    ASSUME NEW st \in Store, Resolves(st), NEW v \in Verdicts,
           \A f \in Rejected(st, v) : SealOf(f) \in archived
    PROVE  Follows(st, Remaining(st, v))
<1> DEFINE st2 == Remaining(st, v)
<1>1. /\ st2 \in Store /\ st2.obs = st.obs /\ st2.interps = st.interps
      /\ st2.fnd = {Marked(f, v) : f \in st.fnd \ Rejected(st, v)}
  BY RemainingIs
<1> HIDE DEF st2
<1>2. \A f \in st.fnd : /\ SealOf(Marked(f, v)) = SealOf(f)
                        /\ Marked(f, v).status = f.status /\ Marked(f, v).edited = f.edited
                        /\ Marked(f, v).fid = f.fid
  BY MarkedIs DEF Store
<1>3. \A h, k \in st.fnd : SealOf(h) = SealOf(k) \/ h.fid = k.fid => h = k
  BY DEF Resolves, SealOf
<1>4. \A g \in st2.fnd : \E f \in st.fnd : g = Marked(f, v)
  BY <1>1
<1>5. \A g, h \in st2.fnd : SealOf(g) = SealOf(h) => g = h
  <2> TAKE g, h \in st2.fnd
  <2>1. PICK f \in st.fnd : g = Marked(f, v)
    BY <1>4
  <2>2. PICK k \in st.fnd : h = Marked(k, v)
    BY <1>4
  <2> QED BY <1>2, <1>3, <2>1, <2>2
<1>6. Resolves(st2)
  <2>1. \A g \in st2.fnd : \E f \in st.fnd : SealOf(f) = SealOf(g)
    BY <1>2, <1>4
  <2> QED BY <1>1, <1>5, <2>1, SameClaims
<1>7. \A f \in st.fnd, g \in st2.fnd : f.fid = g.fid /\ f.edited => g.edited
  <2> TAKE f \in st.fnd, g \in st2.fnd
  <2>1. PICK k \in st.fnd : g = Marked(k, v)
    BY <1>4
  <2>2. f.fid = g.fid => f = k
    BY <1>2, <1>3, <2>1
  <2> QED BY <1>2, <2>1, <2>2
<1>8. \A f \in st.fnd : SealOf(f) \in archived \/ \E g \in st2.fnd : SealOf(g) = SealOf(f)
  BY <1>1, <1>2
<1>9. \A g \in st2.fnd : g.status = "APPROVED" =>
          \E f \in st.fnd : SealOf(f) = SealOf(g) /\ f.status = "APPROVED"
  BY <1>2, <1>4
<1>10. Follows(st, st2)
  BY <1>1, <1>6, <1>7, <1>8, <1>9 DEF Follows
<1> QED BY <1>10 DEF st2

\* materialize_findings numbers on from the largest finding, in the order of the
\* observations, and gives each its latest interpretation.
LEMMA DraftsAre ==
    ASSUME NEW st \in Store, \A f \in Drafts(st) : f.fid <= MaxFinding
    PROVE  /\ Drafts(st) \subseteq Finding
           /\ \A d \in Drafts(st) :
                 /\ d.oid \in Uncovered(st) /\ d.status = "DRAFT"
                 /\ [oid |-> d.oid, iid |-> d.iid] \in st.interps
                 /\ \A f \in st.fnd : f.fid < d.fid
           /\ \A d, e \in Drafts(st) : (d.fid = e.fid \/ d.oid = e.oid) => d = e
<1> DEFINE fids == {f.fid : f \in st.fnd}
           rank(o) == Cardinality({p \in Uncovered(st) : p <= o})
           draft(o) == [fid |-> Largest(fids) + rank(o), oid |-> o, iid |-> Largest(InterpIds(st, o)),
                        status |-> "DRAFT", seen |-> FALSE, edited |-> FALSE]
<1>1. Drafts(st) = {draft(o) : o \in Uncovered(st)}
  BY DEF Drafts
<1>2. Uncovered(st) \in SUBSET (1 .. MaxObs)
  BY DEF Uncovered, Store
<1>3. fids \in SUBSET (1 .. MaxFinding)
  BY DEF Store, Finding
<1>4. Largest(fids) \in Nat /\ \A n \in fids : n <= Largest(fids)
  <2> HIDE DEF fids
  <2> QED BY <1>3, LargestIs, Bounds
<1>5. \A o, p \in Uncovered(st) : rank(o) \in Nat \ {0} /\ (rank(o) = rank(p) => o = p)
  BY <1>2, RanksDiffer, Bounds
<1>6. ASSUME NEW o \in Uncovered(st)
      PROVE  /\ Largest(InterpIds(st, o)) \in 1 .. MaxInterp
             /\ [oid |-> o, iid |-> Largest(InterpIds(st, o))] \in st.interps
  <2>1. InterpIds(st, o) \in SUBSET (1 .. MaxInterp) /\ InterpIds(st, o) # {}
    BY DEF Uncovered, InterpIds, Store, Interpretation
  <2>2. Largest(InterpIds(st, o)) \in InterpIds(st, o)
    BY <2>1, LargestIs, Bounds
  <2>3. PICK j \in st.interps : j.oid = o /\ j.iid = Largest(InterpIds(st, o))
    BY <2>2 DEF InterpIds
  <2>4. j = [oid |-> j.oid, iid |-> j.iid]
    BY DEF Store, Interpretation
  <2> QED BY <2>1, <2>2, <2>3, <2>4
<1>7. \A f \in st.fnd : f.fid \in Nat /\ f.fid <= Largest(fids)
  BY <1>3, <1>4 DEF Store, Finding
<1> HIDE DEF fids, rank
<1>8. ASSUME NEW o \in Uncovered(st)
      PROVE  /\ draft(o) \in Finding
             /\ [oid |-> draft(o).oid, iid |-> draft(o).iid] \in st.interps
             /\ \A f \in st.fnd : f.fid < draft(o).fid
  <2>1. draft(o).fid <= MaxFinding
    BY <1>1
  <2>2. draft(o).fid \in 1 .. MaxFinding /\ \A f \in st.fnd : f.fid < draft(o).fid
    BY <1>4, <1>5, <1>7, <2>1, Bounds
  <2>3. o \in 1 .. MaxObs
    BY <1>2
  <2> QED BY <1>6, <2>2, <2>3 DEF Finding
<1>9. \A o, p \in Uncovered(st) : draft(o).fid = draft(p).fid => o = p
  BY <1>4, <1>5
<1>10. Drafts(st) \subseteq Finding
  BY <1>1, <1>8
<1>11. \A d \in Drafts(st) :
         /\ d.oid \in Uncovered(st) /\ d.status = "DRAFT"
         /\ [oid |-> d.oid, iid |-> d.iid] \in st.interps
         /\ \A f \in st.fnd : f.fid < d.fid
  BY <1>1, <1>8
<1>12. \A d, e \in Drafts(st) : (d.fid = e.fid \/ d.oid = e.oid) => d = e
  <2> TAKE d, e \in Drafts(st)
  <2>1. PICK o \in Uncovered(st) : d = draft(o)
    BY <1>1
  <2>2. PICK p \in Uncovered(st) : e = draft(p)
    BY <1>1
  <2>3. d.oid = o /\ e.oid = p
    BY <2>1, <2>2
  <2>4. d.fid = e.fid => o = p
    BY <1>9, <2>1, <2>2
  <2> QED BY <2>1, <2>2, <2>3, <2>4
<1> QED BY <1>10, <1>11, <1>12

-----------------------------------------------------------------------------
(* The writers of findings.json *)

LEMMA RecordFollows ==
    ASSUME TypeOK, Resolves(store),
           NEW obs \in SUBSET (1 .. MaxObs), NEW interps \in SUBSET Interpretation,
           store' = [store EXCEPT !.obs = @ \cup obs, !.interps = @ \cup interps]
    PROVE  Follows(store, store')
<1>1. /\ store' \in Store /\ store'.fnd = store.fnd
      /\ store.obs \subseteq store'.obs /\ store.interps \subseteq store'.interps
  BY DEF TypeOK, Store
<1>2. Resolves(store')
  BY <1>1 DEF Resolves
<1> QED BY <1>1, <1>2 DEF Follows, Resolves

LEMMA ObservationFollows ==
    ASSUME TypeOK, Resolves(store), RecordObservation
    PROVE  Follows(store, store')
<1>1. store.obs \cup {f.oid : f \in store.fnd} \in SUBSET (1 .. MaxObs)
  BY DEF TypeOK, Store, Finding
<1>2. NextObservation(store) \in 1 .. MaxObs
  <2>1. Largest(store.obs \cup {f.oid : f \in store.fnd}) \in 0 .. MaxObs
    BY <1>1, LargestIs, Bounds
  <2> QED BY <2>1, Bounds DEF RecordObservation, NextObservation
<1>3. store' = [store EXCEPT !.obs = @ \cup {NextObservation(store)}, !.interps = @ \cup {}]
  BY DEF RecordObservation, TypeOK, Store
<1>4. {NextObservation(store)} \in SUBSET (1 .. MaxObs) /\ {} \in SUBSET Interpretation
  BY <1>2
<1> HIDE DEF NextObservation
<1> QED BY <1>3, <1>4, RecordFollows

LEMMA InterpretationFollows ==
    ASSUME TypeOK, Resolves(store), NEW o \in 1 .. MaxObs, RecordInterpretation(o)
    PROVE  Follows(store, store')
<1>1. {i.iid : i \in store.interps} \in SUBSET (1 .. MaxInterp)
  BY DEF TypeOK, Store, Interpretation
<1>2. NextInterpretation(store) \in 1 .. MaxInterp
  <2>1. Largest({i.iid : i \in store.interps}) \in 0 .. MaxInterp
    BY <1>1, LargestIs, Bounds
  <2> QED BY <2>1, Bounds DEF RecordInterpretation, NextInterpretation
<1>3. {[oid |-> o, iid |-> NextInterpretation(store)]} \in SUBSET Interpretation
  BY <1>2 DEF Interpretation
<1>4. store' = [store EXCEPT !.obs = @ \cup {},
                             !.interps = @ \cup {[oid |-> o, iid |-> NextInterpretation(store)]}]
  BY DEF RecordInterpretation, TypeOK, Store
<1> QED BY <1>3, <1>4, RecordFollows

LEMMA MaterializeFollows ==
    ASSUME TypeOK, Resolves(store), NEW r \in Reviewer, Materialize(r)
    PROVE  Follows(store, store')
<1>1. /\ Drafts(store) \subseteq Finding
      /\ \A d \in Drafts(store) :
            /\ d.oid \in Uncovered(store) /\ d.status = "DRAFT"
            /\ [oid |-> d.oid, iid |-> d.iid] \in store.interps
            /\ \A f \in store.fnd : f.fid < d.fid
      /\ \A d, e \in Drafts(store) : (d.fid = e.fid \/ d.oid = e.oid) => d = e
  BY DraftsAre DEF Materialize, TypeOK
<1>2. /\ store' \in Store /\ store'.obs = store.obs /\ store'.interps = store.interps
      /\ store'.fnd = store.fnd \cup Drafts(store)
  BY <1>1 DEF Materialize, TypeOK, Store
<1>3. \A d \in Drafts(store) : /\ d.oid \in store.obs
                               /\ \A f \in store.fnd : f.fid # d.fid /\ f.oid # d.oid
  <2>1. store.fnd \cup Drafts(store) \subseteq Finding
    BY <1>1 DEF TypeOK, Store
  <2>2. \A f \in Finding : f.fid \in Nat
    BY DEF Finding
  <2>3. \A d \in Drafts(store) : d.oid \in store.obs /\ \A f \in store.fnd : f.oid # d.oid
    BY <1>1 DEF Uncovered
  <2>4. ASSUME NEW d \in Drafts(store), NEW f \in store.fnd
        PROVE  f.fid # d.fid
    <3>1. f.fid \in Nat /\ d.fid \in Nat /\ f.fid < d.fid
      BY <1>1, <2>1, <2>2
    <3> QED BY <3>1
  <2> QED BY <2>3, <2>4
<1>4. Resolves(store')
  BY <1>1, <1>2, <1>3 DEF Resolves
<1>5. \A f \in store.fnd, g \in store'.fnd : f.fid = g.fid /\ f.edited => g.edited
  BY <1>2, <1>3 DEF Resolves
<1>6. \A g \in store'.fnd : g.status = "APPROVED" => g \in store.fnd
  BY <1>1, <1>2
<1> QED BY <1>2, <1>4, <1>5, <1>6 DEF Follows

LEMMA RejectFollows ==
    ASSUME TypeOK, Resolves(store), NEW f \in store.fnd, Reject(f)
    PROVE  Follows(store, store')
<1> DEFINE g == [f EXCEPT !.status = "REJECTED"]
<1>1. f \in Finding
  BY DEF TypeOK, Store
<1>2. g \in Finding /\ SealOf(g) = SealOf(f) /\ g.edited = f.edited /\ g.status = "REJECTED"
  BY <1>1 DEF Finding, SealOf
<1>3. store \in Store /\ store' = Replace(store, f, g)
  BY DEF TypeOK, Reject
<1> HIDE DEF g
<1> QED BY <1>2, <1>3, ReplaceFollows

LEMMA ModifyFollows ==
    ASSUME TypeOK, Resolves(store), NEW f \in store.fnd, Modify(f)
    PROVE  Follows(store, store')
<1> DEFINE g == [f EXCEPT !.edited = TRUE]
<1>1. f \in Finding
  BY DEF TypeOK, Store
<1>2. g \in Finding /\ SealOf(g) = SealOf(f) /\ g.edited = TRUE /\ g.status = f.status
  BY <1>1 DEF Finding, SealOf
<1>3. store \in Store /\ store' = Replace(store, f, g)
  BY DEF TypeOK, Modify
<1> HIDE DEF g
<1> QED BY <1>2, <1>3, ReplaceFollows

LEMMA RoutedFollows ==
    ASSUME IInv, NEW r \in Reviewer, WriteRouted(r)
    PROVE  Follows(store, store')
<1>1. UpToDate(r) /\ store' = review[r].out
  BY DEF IInv, WindowInv, WriteRouted
<1>2. PICK v \in Verdicts : /\ review[r].out = Remaining(store, v)
                            /\ \A f \in Rejected(store, v) : SealOf(f) \in archived
  BY <1>1 DEF UpToDate
<1> QED BY <1>1, <1>2, RemainingFollows DEF IInv, TypeOK

LEMMA FlipFollows ==
    ASSUME IInv, Flip
    PROVE  Follows(store, store')
<1>1. approver.pc = "sealed" /\ approver.copy = store
  BY DEF Flip, IInv, HoldInv, Holding
<1>2. PICK f \in Located(store, approver.fid) :
         store' = Replace(store, f, [f EXCEPT !.status = "APPROVED"])
  BY <1>1 DEF Flip
<1> DEFINE g == [f EXCEPT !.status = "APPROVED"]
<1>3. f \in store.fnd /\ f \in Finding /\ f.fid = approver.fid
  BY DEF Located, IInv, TypeOK, Store
<1>4. g \in Finding /\ SealOf(g) = SealOf(f) /\ g.edited = f.edited
  BY <1>3 DEF Finding, SealOf
<1>5. store \in Store /\ Resolves(store) /\ store' = Replace(store, f, g)
  BY <1>2 DEF IInv, TypeOK
<1> HIDE DEF g
<1> QED BY <1>1, <1>3, <1>4, <1>5, ReplaceFollows

\* Whoever writes findings.json, and whatever an approval or a review has done so far.
LEMMA StoreFollows ==
    ASSUME IInv, [Next]_vars
    PROVE  store' = store \/ Follows(store, store')
<1> USE DEF IInv
<1>1. CASE RecordObservation
  BY <1>1, ObservationFollows
<1>2. ASSUME NEW o \in 1 .. MaxObs, RecordInterpretation(o)
      PROVE  Follows(store, store')
  BY <1>2, InterpretationFollows
<1>3. ASSUME NEW r \in Reviewer, Materialize(r)
      PROVE  Follows(store, store')
  BY <1>3, MaterializeFollows
<1>4. ASSUME NEW r \in Reviewer, WriteRouted(r)
      PROVE  Follows(store, store')
  BY <1>4, RoutedFollows
<1>5. ASSUME NEW f \in store.fnd, Reject(f) \/ Modify(f)
      PROVE  Follows(store, store')
  BY <1>5, RejectFollows, ModifyFollows
<1>6. CASE Flip
  BY <1>6, FlipFollows
<1>7. CASE ServerStart \/ ServerStop \/ LockAndRead \/ AppendToLedger \/ AppendCut \/ ApproveEnds
           \/ UNCHANGED vars
  BY <1>7 DEF ServerStart, ServerStop, LockAndRead, AppendToLedger, AppendCut, ApproveEnds, vars
<1>8. ASSUME NEW r \in Reviewer, \/ MaterializeFails(r) \/ AskCritic(r) \/ ReviewEnds(r)
                                 \/ \E v \in Verdicts : Route(r, v)
      PROVE  store' = store
  BY <1>8 DEF MaterializeFails, AskCritic, Route, ReviewEnds
<1>9. ASSUME NEW f \in store.fnd, ShowFinding(f)
      PROVE  store' = store
  BY <1>9 DEF ShowFinding
<1> QED BY <1>1, <1>2, <1>3, <1>4, <1>5, <1>6, <1>7, <1>8, <1>9 DEF Next, OtherSteps

-----------------------------------------------------------------------------
(* The ledger *)

Lines(led) == {led[k] : k \in DOMAIN led}

\* What can be read after a line was written could be read before, and a cut line
\* takes nothing away but the one behind it.
LEMMA WithLineIs ==
    ASSUME NEW led \in Seq(Seal \cup {Cut, Merged}), NEW line \in Seal \cup {Cut}
    PROVE  /\ WithLine(led, line) \in Seq(Seal \cup {Cut, Merged})
           /\ Legible(WithLine(led, line)) => Legible(led) /\ Lines(WithLine(led, line)) = Lines(led) \cup {line}
           /\ Lines(WithLine(led, line)) \subseteq Lines(led) \cup {line, Cut, Merged}
           /\ Lines(led) \subseteq Lines(WithLine(led, line)) \cup {Cut}
<1> DEFINE n == Len(led)
<1>1. n \in Nat /\ DOMAIN led = 1 .. n
  OBVIOUS
<1>2. CASE led = <<>> \/ led[n] # Cut
  <2>1. WithLine(led, line) = Append(led, line)
    BY <1>2 DEF WithLine
  <2> DEFINE longer == Append(led, line)
  <2>2. /\ longer \in Seq(Seal \cup {Cut, Merged}) /\ DOMAIN longer = 1 .. n + 1
        /\ longer[n + 1] = line /\ \A k \in 1 .. n : longer[k] = led[k]
    BY AppendProperties
  <2> HIDE DEF longer
  <2>3. Lines(longer) = Lines(led) \cup {line}
    BY <1>1, <2>2 DEF Lines
  <2>4. Legible(longer) => Legible(led)
    BY <1>1, <2>2 DEF Legible
  <2> QED BY <2>1, <2>2, <2>3, <2>4 DEF longer
<1>3. CASE ~(led = <<>> \/ led[n] # Cut)
  <2> DEFINE last == IF line = Cut THEN Cut ELSE Merged
             other == [led EXCEPT ![n] = last]
  <2>1. WithLine(led, line) = other
    BY <1>3 DEF WithLine
  <2>2. n \in DOMAIN led /\ led[n] = Cut /\ n # 0
    BY <1>1, <1>3
  <2>3. /\ other \in Seq(Seal \cup {Cut, Merged}) /\ DOMAIN other = DOMAIN led
        /\ other[n] = last /\ \A k \in DOMAIN led : k # n => other[k] = led[k]
    <3>1. last \in Seal \cup {Cut, Merged}
      OBVIOUS
    <3> HIDE DEF last
    <3> QED BY <2>2, <3>1, ExceptSeq
  <2> HIDE DEF other
  <2>4. ~Legible(other)
    BY <2>2, <2>3 DEF Legible
  <2>5. Lines(other) \subseteq Lines(led) \cup {line, Cut, Merged}
    BY <2>3 DEF Lines
  <2>6. Lines(led) \subseteq Lines(other) \cup {Cut}
    BY <2>2, <2>3 DEF Lines
  <2> QED BY <2>1, <2>3, <2>4, <2>5, <2>6 DEF other
<1> QED BY <1>2, <1>3

-----------------------------------------------------------------------------
(* The invariant *)

ReviewState == [pc : {"idle", "listed", "thinking", "routed"}, out : Store]

\* Seals of findings.json as it was are seals of it as it is.
LEMMA SealsFollow ==
    ASSUME IInv, Follows(store, store'), ledger' = ledger, archived \subseteq archived',
           approver'.pc # "sealed"
    PROVE  SealInv' /\ SealedIsAccountedFor'
<1>1. Sealed' = Sealed /\ (Legible(ledger))' = Legible(ledger)
  BY DEF Sealed, Legible
<1>2. SealInv'
  <2> SUFFICES ASSUME Legible(ledger), NEW g \in store'.fnd, g.status = "APPROVED"
               PROVE  SealOf(g) \in Sealed
    BY <1>1 DEF SealInv
  <2>1. PICK f \in store.fnd : /\ SealOf(f) = SealOf(g)
                               /\ f.status = "APPROVED" \/ (approver.pc = "sealed" /\ f.fid = approver.fid)
    BY DEF Follows
  <2> QED BY <2>1 DEF IInv, SealInv
<1>3. SealedIsAccountedFor'
  <2> SUFFICES ASSUME NEW e \in Sealed
               PROVE  e \in archived' \/ \E g \in store'.fnd : SealOf(g) = e
    BY <1>1 DEF SealedIsAccountedFor
  <2>1. CASE e \in archived
    BY <2>1
  <2>2. CASE \E f \in store.fnd : SealOf(f) = e
    BY <2>2 DEF Follows
  <2> QED BY <2>1, <2>2 DEF IInv, SealedIsAccountedFor
<1> QED BY <1>2, <1>3

\* The same when findings.json stays as it is.
LEMMA SealsStay ==
    ASSUME IInv, store' = store, ledger' = ledger, archived \subseteq archived',
           approver'.pc = "sealed" => approver.pc = "sealed" /\ approver'.fid = approver.fid
    PROVE  SealInv' /\ SealedIsAccountedFor'
<1>1. Sealed' = Sealed /\ (Legible(ledger))' = Legible(ledger)
  BY DEF Sealed, Legible
<1>2. SealInv'
  BY <1>1 DEF IInv, SealInv
<1>3. SealedIsAccountedFor'
  BY <1>1 DEF IInv, SealedIsAccountedFor
<1> QED BY <1>2, <1>3

\* A write under .findings.lock finds no routing under way.
LEMMA LockedWrite ==
    ASSUME NoOverlap, IInv, MayWrite, Follows(store, store'),
           UNCHANGED <<archived, ledger, auditLock, approver>>,
           review' \in [Reviewer -> ReviewState],
           \A r \in Reviewer : review'[r].pc = "routed" => review[r].pc = "routed"
    PROVE  IInv'
<1>1. ~Holding /\ \A r \in Reviewer : review[r].pc # "routed"
  BY DEF NoOverlap, MayWrite, LockFree, NoWindow, Holding
<1>2. TypeOK'
  BY DEF IInv, TypeOK, Follows, ReviewState
<1>3. WindowInv' /\ HoldInv'
  BY <1>1 DEF WindowInv, HoldInv, Holding
<1>4. SealInv' /\ SealedIsAccountedFor'
  BY <1>1, SealsFollow DEF Holding
<1> QED BY <1>2, <1>3, <1>4 DEF IInv, Follows

LEMMA ServerKeeps ==
    ASSUME NoOverlap, IInv,
           ServerStart \/ ServerStop \/ RecordObservation \/ \E o \in 1 .. MaxObs : RecordInterpretation(o)
    PROVE  IInv'
<1>1. CASE ServerStart \/ ServerStop
  <2>1. UNCHANGED <<store, archived, ledger, approver, review>>
    BY <1>1 DEF ServerStart, ServerStop
  <2>2. TypeOK'
    BY <1>1, <2>1 DEF IInv, TypeOK, ServerStart, ServerStop
  <2>3. Resolves(store)' /\ WindowInv' /\ HoldInv'
    BY <2>1 DEF IInv, Resolves, WindowInv, UpToDate, HoldInv, Holding
  <2> QED BY <2>1, <2>2, <2>3, SealsStay DEF IInv
<1>2. ASSUME RecordObservation \/ \E o \in 1 .. MaxObs : RecordInterpretation(o)
      PROVE  IInv'
  <2>1. Follows(store, store')
    BY <1>2, ObservationFollows, InterpretationFollows DEF IInv
  <2>2. MayWrite /\ UNCHANGED <<archived, ledger, auditLock, approver, review>>
    BY <1>2 DEF RecordObservation, RecordInterpretation
  <2> QED BY <2>1, <2>2, LockedWrite DEF IInv, TypeOK, ReviewState
<1> QED BY <1>1, <1>2

LEMMA ReviewKeeps ==
    ASSUME NoOverlap, IInv, NEW r \in Reviewer,
           Materialize(r) \/ MaterializeFails(r) \/ AskCritic(r) \/ ReviewEnds(r)
    PROVE  IInv'
<1>1. review' \in [Reviewer -> ReviewState] /\ \A s \in Reviewer :
         review'[s].pc = "routed" => review[s].pc = "routed" /\ review'[s] = review[s]
  <2>1. EmptyStore \in Store
    BY DEF EmptyStore, Store
  <2>2. review \in [Reviewer -> ReviewState]
    BY DEF IInv, TypeOK, ReviewState
  <2>3. /\ NotReviewing \in ReviewState /\ NotReviewing.pc # "routed"
        /\ [review[r] EXCEPT !.pc = "listed"] \in ReviewState
        /\ [review[r] EXCEPT !.pc = "thinking"] \in ReviewState
        /\ [review[r] EXCEPT !.pc = "listed"].pc # "routed"
        /\ [review[r] EXCEPT !.pc = "thinking"].pc # "routed"
    BY <2>1, <2>2 DEF NotReviewing, ReviewState
  <2>4. PICK to \in ReviewState : to.pc # "routed" /\ review' = [review EXCEPT ![r] = to]
    <3>1. \/ review' = [review EXCEPT ![r] = [review[r] EXCEPT !.pc = "listed"]]
          \/ review' = [review EXCEPT ![r] = [review[r] EXCEPT !.pc = "thinking"]]
          \/ review' = [review EXCEPT ![r] = NotReviewing]
      BY DEF Materialize, MaterializeFails, AskCritic, ReviewEnds
    <3> QED BY <2>3, <3>1
  <2> QED BY <2>2, <2>4
<1>2. CASE Materialize(r)
  <2>1. Follows(store, store')
    BY <1>2, MaterializeFollows DEF IInv
  <2>2. MayWrite /\ UNCHANGED <<archived, ledger, auditLock, approver>>
    BY <1>2 DEF Materialize
  <2> QED BY <1>1, <2>1, <2>2, LockedWrite
<1>3. CASE MaterializeFails(r) \/ AskCritic(r) \/ ReviewEnds(r)
  <2>1. UNCHANGED <<store, archived, ledger, auditLock, approver>>
    BY <1>3 DEF MaterializeFails, AskCritic, ReviewEnds
  <2>2. TypeOK'
    BY <1>1, <2>1 DEF IInv, TypeOK, ReviewState
  <2>3. Resolves(store)' /\ WindowInv' /\ HoldInv'
    BY <1>1, <2>1 DEF IInv, Resolves, WindowInv, UpToDate, HoldInv, Holding
  <2> QED BY <2>1, <2>2, <2>3, SealsStay DEF IInv
<1> QED BY <1>2, <1>3

\* The copy a routing will write is made when nobody else is about to write.
LEMMA RouteKeeps ==
    ASSUME NoOverlap, IInv, NEW r \in Reviewer, NEW v \in Verdicts, Route(r, v)
    PROVE  IInv'
<1> DEFINE to == [pc |-> "routed", out |-> Remaining(store, v)]
<1>1. /\ UNCHANGED <<store, ledger, auditLock, approver>> /\ review' = [review EXCEPT ![r] = to]
      /\ archived' = archived \cup {SealOf(f) : f \in Rejected(store, v)} /\ MayWrite
  BY DEF Route, NoOverlap
<1>2. ~Holding /\ \A s \in Reviewer : review[s].pc # "routed"
  BY <1>1 DEF NoOverlap, MayWrite, LockFree, NoWindow, Holding
<1>3. to \in ReviewState
  BY RemainingIs DEF IInv, TypeOK, ReviewState
<1>4. archived' \subseteq Seal
  <2>1. Rejected(store, v) \subseteq Finding /\ \A f \in Finding : SealOf(f) \in Seal
    BY DEF IInv, TypeOK, Store, Finding, Seal, SealOf, Rejected
  <2> QED BY <1>1, <2>1 DEF IInv, TypeOK
<1>5. /\ review' \in [Reviewer -> ReviewState] /\ review'[r] = to
      /\ \A s \in Reviewer : s # r => review'[s] = review[s]
  <2>1. review \in [Reviewer -> ReviewState]
    BY DEF IInv, TypeOK, ReviewState
  <2> HIDE DEF to
  <2> QED BY <1>1, <1>3, <2>1
<1>6. TypeOK'
  BY <1>1, <1>4, <1>5 DEF IInv, TypeOK, ReviewState
<1>7. UpToDate(r)'
  <2>1. Remaining(store, v)' = Remaining(store, v) /\ Rejected(store, v)' = Rejected(store, v)
    BY <1>1 DEF Remaining, Rejected
  <2>2. \A f \in Rejected(store, v) : SealOf(f) \in archived'
    BY <1>1
  <2> QED BY <1>5, <2>1, <2>2 DEF UpToDate
<1>8. WindowInv' /\ HoldInv' /\ Resolves(store)'
  BY <1>1, <1>2, <1>5, <1>7 DEF WindowInv, HoldInv, Holding, Resolves, IInv
<1> QED BY <1>1, <1>6, <1>8, SealsStay DEF IInv

LEMMA WriteRoutedKeeps ==
    ASSUME IInv, NEW r \in Reviewer, WriteRouted(r)
    PROVE  IInv'
<1>1. Follows(store, store')
  BY RoutedFollows
<1>2. /\ UNCHANGED <<archived, ledger, auditLock, approver>> /\ review[r].pc = "routed"
      /\ review' = [review EXCEPT ![r] = NotReviewing]
  BY DEF WriteRouted
<1>3. ~Holding /\ \A s \in Reviewer : review'[s].pc # "routed"
  BY <1>2 DEF IInv, TypeOK, WindowInv, NotReviewing
<1>4. TypeOK'
  <2>1. NotReviewing \in ReviewState
    BY DEF NotReviewing, ReviewState, EmptyStore, Store
  <2>2. review' \in [Reviewer -> ReviewState]
    BY <1>2, <2>1 DEF IInv, TypeOK, ReviewState
  <2> QED BY <1>1, <1>2, <2>2 DEF IInv, TypeOK, ReviewState, Follows
<1>5. WindowInv' /\ HoldInv'
  BY <1>2, <1>3 DEF WindowInv, HoldInv, Holding
<1>6. SealInv' /\ SealedIsAccountedFor'
  BY <1>1, <1>2, <1>3, SealsFollow DEF Holding
<1> QED BY <1>1, <1>4, <1>5, <1>6 DEF IInv, Follows

LEMMA ShowKeeps ==
    ASSUME IInv, NEW f \in store.fnd, ShowFinding(f)
    PROVE  IInv'
<1>1. /\ UNCHANGED <<store, archived, ledger, auditLock, review>>
      /\ approver.pc = "idle" /\ approver' = [Idle EXCEPT !.pc = "shown", !.fid = f.fid]
  BY DEF ShowFinding
<1>2. EmptyStore \in Store /\ f.fid \in 0 .. MaxFinding
  BY Bounds DEF EmptyStore, Store, IInv, TypeOK, Finding
<1>3. approver' = [pc |-> "shown", fid |-> f.fid, copy |-> EmptyStore]
  BY <1>1 DEF Idle
<1>4. TypeOK'
  <2>1. approver' \in [pc : {"idle", "shown", "copied", "sealed"}, fid : 0 .. MaxFinding, copy : Store]
    BY <1>2, <1>3
  <2>2. approver.pc \notin {"copied", "sealed"} /\ approver'.pc \notin {"copied", "sealed"}
    BY <1>1, <1>3
  <2> QED BY <1>1, <2>1, <2>2 DEF IInv, TypeOK
<1>5. Resolves(store)' /\ WindowInv' /\ HoldInv'
  BY <1>1, <1>3 DEF IInv, Resolves, WindowInv, UpToDate, HoldInv, Holding
<1> QED BY <1>1, <1>3, <1>4, <1>5, SealsStay DEF IInv

\* approve takes the lock when no routing is under way, and its copy is current.
LEMMA LockKeeps ==
    ASSUME NoOverlap, IInv, LockAndRead
    PROVE  IInv'
<1>1. /\ UNCHANGED <<store, archived, ledger, review>> /\ approver.pc = "shown"
      /\ auditLock' = "approve" /\ approver' = [approver EXCEPT !.pc = "copied", !.copy = store]
      /\ MayWrite /\ Approvable(store, approver.fid) # {}
  BY DEF LockAndRead
<1>2. /\ approver' \in [pc : {"idle", "shown", "copied", "sealed"}, fid : 0 .. MaxFinding, copy : Store]
      /\ approver'.pc = "copied" /\ approver'.copy = store /\ approver'.fid = approver.fid
  BY <1>1 DEF IInv, TypeOK
<1>3. TypeOK'
  BY <1>1, <1>2 DEF IInv, TypeOK
<1>4. \A r \in Reviewer : review[r].pc # "routed"
  BY <1>1 DEF NoOverlap, MayWrite, NoWindow
<1>5. Located(store, approver.fid) # {}
  BY <1>1 DEF Approvable
<1>6. Resolves(store)' /\ WindowInv' /\ HoldInv'
  BY <1>1, <1>2, <1>4, <1>5 DEF IInv, Resolves, WindowInv, HoldInv, Holding, Located
<1> QED BY <1>1, <1>2, <1>3, <1>6, SealsStay DEF IInv

\* The seal is of the finding as findings.json has it.
LEMMA AppendKeeps ==
    ASSUME IInv, AppendToLedger
    PROVE  IInv'
<1>1. /\ UNCHANGED <<store, archived, auditLock, review>> /\ approver.pc = "copied"
      /\ approver' = [approver EXCEPT !.pc = "sealed"] /\ approver.copy = store
  BY DEF AppendToLedger, IInv, HoldInv, Holding
<1>2. PICK f \in Located(store, approver.fid) : ledger' = WithLine(ledger, SealOf(f))
  BY <1>1 DEF AppendToLedger
<1>3. f \in store.fnd /\ f \in Finding /\ f.fid = approver.fid /\ SealOf(f) \in Seal
  BY DEF Located, IInv, TypeOK, Store, Finding, Seal, SealOf
<1>4. SealOf(f) \notin {Cut, Merged}
  BY <1>3 DEF Seal, Cut, Merged
<1>5. /\ ledger' \in Seq(Seal \cup {Cut, Merged})
      /\ (Legible(ledger))' => Legible(ledger) /\ Lines(ledger') = Lines(ledger) \cup {SealOf(f)}
      /\ Lines(ledger') \subseteq Lines(ledger) \cup {SealOf(f), Cut, Merged}
  <2>1. ledger \in Seq(Seal \cup {Cut, Merged})
    BY DEF IInv, TypeOK
  <2>2. (Legible(ledger))' = Legible(WithLine(ledger, SealOf(f)))
    BY <1>2 DEF Legible
  <2> QED BY <1>2, <1>3, <2>1, <2>2, WithLineIs
<1>6. Sealed = Lines(ledger) \ {Cut, Merged} /\ Sealed' = Lines(ledger') \ {Cut, Merged}
  BY DEF Sealed, Lines
<1>7. /\ approver' \in [pc : {"idle", "shown", "copied", "sealed"}, fid : 0 .. MaxFinding, copy : Store]
      /\ approver'.pc = "sealed" /\ approver'.copy = store /\ approver'.fid = approver.fid
  BY <1>1 DEF IInv, TypeOK
<1>8. TypeOK'
  BY <1>1, <1>5, <1>7 DEF IInv, TypeOK
<1>9. Resolves(store)' /\ WindowInv' /\ HoldInv'
  BY <1>1, <1>7 DEF IInv, Resolves, WindowInv, UpToDate, HoldInv, Holding, Located
<1>10. SealInv'
  <2> SUFFICES ASSUME (Legible(ledger))', NEW g \in store.fnd,
                      g.status = "APPROVED" \/ g.fid = approver.fid
               PROVE  SealOf(g) \in Sealed'
    BY <1>1, <1>7 DEF SealInv
  <2>1. Legible(ledger) /\ Sealed' = Sealed \cup {SealOf(f)}
    BY <1>4, <1>5, <1>6
  <2>2. CASE g.status = "APPROVED"
    BY <2>1, <2>2 DEF IInv, SealInv
  <2>3. CASE g.fid = approver.fid
    BY <1>3, <2>1, <2>3 DEF IInv, Resolves
  <2> QED BY <2>2, <2>3
<1>11. SealedIsAccountedFor'
  BY <1>1, <1>3, <1>5, <1>6 DEF IInv, SealedIsAccountedFor
<1> QED BY <1>8, <1>9, <1>10, <1>11 DEF IInv

LEMMA IdleIs == Idle \in [pc : {"idle", "shown", "copied", "sealed"}, fid : 0 .. MaxFinding, copy : Store]
                /\ Idle.pc = "idle"
  BY Bounds DEF Idle, EmptyStore, Store

\* A cut line leaves a ledger that cannot be read.
LEMMA CutKeeps ==
    ASSUME IInv, AppendCut
    PROVE  IInv'
<1>1. /\ UNCHANGED <<store, archived, review>> /\ ledger' = WithLine(ledger, Cut)
      /\ approver.pc = "copied" /\ approver' = Idle /\ auditLock' = "free"
  BY DEF AppendCut
<1>2. /\ ledger' \in Seq(Seal \cup {Cut, Merged})
      /\ (Legible(ledger))' => Lines(ledger') = Lines(ledger) \cup {Cut}
      /\ Lines(ledger') \subseteq Lines(ledger) \cup {Cut, Merged}
  <2>1. ledger \in Seq(Seal \cup {Cut, Merged})
    BY DEF IInv, TypeOK
  <2>2. (Legible(ledger))' = Legible(WithLine(ledger, Cut))
    BY <1>1 DEF Legible
  <2> QED BY <1>1, <2>1, <2>2, WithLineIs
<1>3. ~(Legible(ledger))'
  BY <1>2 DEF Legible, Lines
<1>4. TypeOK'
  BY <1>1, <1>2, IdleIs DEF IInv, TypeOK
<1>5. Resolves(store)' /\ WindowInv' /\ HoldInv'
  BY <1>1, IdleIs DEF IInv, Resolves, WindowInv, UpToDate, HoldInv, Holding
<1>6. SealInv'
  BY <1>3 DEF SealInv
<1>7. SealedIsAccountedFor'
  <2>1. Sealed = Lines(ledger) \ {Cut, Merged} /\ Sealed' = Lines(ledger') \ {Cut, Merged}
    BY DEF Sealed, Lines
  <2> QED BY <1>1, <1>2, <2>1 DEF IInv, SealedIsAccountedFor
<1> QED BY <1>4, <1>5, <1>6, <1>7 DEF IInv

LEMMA FlipKeeps ==
    ASSUME IInv, Flip
    PROVE  IInv'
<1>1. Follows(store, store')
  BY FlipFollows
<1>2. /\ UNCHANGED <<archived, ledger, review>> /\ approver.pc = "sealed"
      /\ approver' = Idle /\ auditLock' = "free"
  BY DEF Flip
<1>3. \A r \in Reviewer : review[r].pc # "routed"
  BY <1>2 DEF IInv, WindowInv, Holding
<1>4. TypeOK'
  BY <1>1, <1>2, IdleIs DEF IInv, TypeOK, Follows
<1>5. WindowInv' /\ HoldInv'
  BY <1>2, <1>3, IdleIs DEF WindowInv, HoldInv, Holding
<1> QED BY <1>1, <1>2, <1>4, <1>5, IdleIs, SealsFollow DEF IInv, Follows

LEMMA EndKeeps ==
    ASSUME IInv, ApproveEnds
    PROVE  IInv'
<1>1. /\ UNCHANGED <<store, archived, ledger, review>> /\ approver' = Idle
      /\ auditLock' = IF auditLock = "approve" THEN "free" ELSE auditLock
  BY DEF ApproveEnds
<1>2. TypeOK'
  BY <1>1, IdleIs DEF IInv, TypeOK
<1>3. Resolves(store)' /\ WindowInv' /\ HoldInv'
  BY <1>1, IdleIs DEF IInv, Resolves, WindowInv, UpToDate, HoldInv, Holding
<1> QED BY <1>1, <1>2, <1>3, IdleIs, SealsStay DEF IInv

-----------------------------------------------------------------------------
(* Theorems *)

LEMMA InitHolds == Init => IInv
<1> SUFFICES ASSUME Init PROVE IInv
  OBVIOUS
<1>1. EmptyStore \in Store /\ EmptyStore.fnd = {}
  BY DEF EmptyStore, Store
<1>2. /\ store = EmptyStore /\ archived = {} /\ ledger = <<>> /\ auditLock = "free"
      /\ approver = Idle /\ review = [r \in Reviewer |-> NotReviewing]
  BY DEF Init
<1>3. TypeOK
  <2>1. NotReviewing \in ReviewState
    BY <1>1 DEF NotReviewing, ReviewState
  <2>2. ledger \in Seq(Seal \cup {Cut, Merged})
    BY <1>2
  <2> QED BY <1>1, <1>2, <2>1, <2>2, IdleIs DEF TypeOK, ReviewState
<1>4. Resolves(store) /\ WindowInv /\ HoldInv
  BY <1>1, <1>2, IdleIs DEF Resolves, WindowInv, HoldInv, Holding, NotReviewing
<1>5. SealInv /\ SealedIsAccountedFor
  <2>1. Sealed = {}
    BY <1>2 DEF Sealed
  <2> QED BY <1>1, <1>2, <2>1 DEF SealInv, SealedIsAccountedFor
<1> QED BY <1>3, <1>4, <1>5 DEF IInv

LEMMA StepHolds == NoOverlap /\ IInv /\ [Next]_vars => IInv'
<1> SUFFICES ASSUME NoOverlap, IInv, [Next]_vars PROVE IInv'
  OBVIOUS
<1>1. CASE ServerStart \/ ServerStop \/ RecordObservation \/ \E o \in 1 .. MaxObs : RecordInterpretation(o)
  BY <1>1, ServerKeeps
<1>2. ASSUME NEW r \in Reviewer, Materialize(r) \/ MaterializeFails(r) \/ AskCritic(r) \/ ReviewEnds(r)
      PROVE  IInv'
  BY <1>2, ReviewKeeps
<1>3. ASSUME NEW r \in Reviewer, NEW v \in Verdicts, Route(r, v)
      PROVE  IInv'
  BY <1>3, RouteKeeps
<1>4. ASSUME NEW r \in Reviewer, WriteRouted(r)
      PROVE  IInv'
  BY <1>4, WriteRoutedKeeps
<1>5. ASSUME NEW f \in store.fnd, Reject(f) \/ Modify(f)
      PROVE  IInv'
  <2>1. Follows(store, store')
    BY <1>5, RejectFollows, ModifyFollows DEF IInv
  <2>2. MayWrite /\ UNCHANGED <<archived, ledger, auditLock, approver, review>>
    BY <1>5 DEF Reject, Modify
  <2> QED BY <2>1, <2>2, LockedWrite DEF IInv, TypeOK, ReviewState
<1>6. ASSUME NEW f \in store.fnd, ShowFinding(f)
      PROVE  IInv'
  BY <1>6, ShowKeeps
<1>7. CASE LockAndRead
  BY <1>7, LockKeeps
<1>8. CASE AppendToLedger
  BY <1>8, AppendKeeps
<1>9. CASE AppendCut
  BY <1>9, CutKeeps
<1>10. CASE Flip
  BY <1>10, FlipKeeps
<1>11. CASE ApproveEnds
  BY <1>11, EndKeeps
<1>12. CASE UNCHANGED vars
  <2>1. TypeOK'
    BY <1>12 DEF vars, IInv, TypeOK
  <2>2. Resolves(store)' /\ WindowInv' /\ HoldInv'
    BY <1>12 DEF vars, IInv, Resolves, WindowInv, UpToDate, HoldInv, Holding
  <2> QED BY <1>12, <2>1, <2>2, SealsStay DEF vars, IInv
<1> QED BY <1>1, <1>2, <1>3, <1>4, <1>5, <1>6, <1>7, <1>8, <1>9, <1>10, <1>11, <1>12
        DEF Next, OtherSteps

LEMMA InvariantHolds == ASSUME NoOverlap PROVE Spec => []IInv
<1>1. Init => IInv
  BY InitHolds
<1>2. IInv /\ [Next]_vars => IInv'
  BY StepHolds
<1> QED BY <1>1, <1>2, PTL DEF Spec

\* Types, and that approve holds audit/.lock exactly while it holds the findings lock.
THEOREM TypeCorrect == ASSUME NoOverlap PROVE Spec => []TypeOK
<1>1. IInv => TypeOK
  BY DEF IInv
<1> QED BY <1>1, InvariantHolds, PTL

\* _approval_store.py: ids name one finding, an observation has one at most, and
\* what a finding refers to is in the file.
THEOREM FindingsAlwaysResolve == ASSUME NoOverlap PROVE Spec => []FindingsResolve
<1>1. IInv => FindingsResolve
  BY DEF IInv, Resolves, FindingsResolve
<1> QED BY <1>1, InvariantHolds, PTL

\* approval.py: verify accepts the seal of whatever is APPROVED, while the ledger
\* can be read at all.
THEOREM ApprovalsAreSealed == ASSUME NoOverlap PROVE Spec => []ApprovedIsSealed
<1>1. IInv => ApprovedIsSealed
  <2> SUFFICES ASSUME IInv, Legible(ledger), NEW f \in store.fnd, f.status = "APPROVED"
               PROVE  \E e \in Sealed : e.fid = f.fid /\ Outcome(store, e) = "VERIFIED"
    BY DEF ApprovedIsSealed
  <2>1. SealOf(f) \in Sealed
    BY DEF IInv, SealInv
  <2>2. SealOf(f).fid = f.fid /\ f \in Located(store, f.fid)
    BY DEF SealOf, Located
  <2>3. f.oid \in store.obs /\ \E i \in store.interps : i.iid = f.iid
    BY DEF IInv, Resolves
  <2>4. Outcome(store, SealOf(f)) = "VERIFIED"
    BY <2>2, <2>3 DEF Outcome
  <2> QED BY <2>1, <2>2, <2>4
<1> QED BY <1>1, InvariantHolds, PTL

\* critic_handler.py, approval.py: a sealed claim is a finding of the case or, when
\* the critic took it away, of the archive.
THEOREM SealsAreAccountedFor == ASSUME NoOverlap PROVE Spec => []SealedIsAccountedFor
<1>1. IInv => SealedIsAccountedFor
  BY DEF IInv
<1> QED BY <1>1, InvariantHolds, PTL

\* Every writer of findings.json keeps what the agent recorded and the examiner
\* edited, in whatever order they come.
THEOREM RecordsAreKept == ASSUME NoOverlap PROVE Spec => NothingRecordedIsLost
<1> DEFINE Keeps == /\ store.obs \subseteq store'.obs
                    /\ store.interps \subseteq store'.interps
                    /\ \A f \in store.fnd, g \in store'.fnd : (f.fid = g.fid /\ f.edited) => g.edited
<1>1. IInv /\ [Next]_vars => [Keeps]_vars
  <2> SUFFICES ASSUME IInv, [Next]_vars PROVE Keeps
    OBVIOUS
  <2>1. CASE store' = store
    BY <2>1 DEF IInv, Resolves
  <2>2. CASE Follows(store, store')
    BY <2>2 DEF Follows
  <2> QED BY <2>1, <2>2, StoreFollows
<1> QED BY <1>1, InvariantHolds, PTL DEF Spec, NothingRecordedIsLost

\* critic_handler.py: a finding leaves findings.json only when the archive has it.
THEOREM RemovalsAreArchived == ASSUME NoOverlap PROVE Spec => RemovedIsArchived
<1> DEFINE Archives == \A f \in store.fnd : (\A g \in store'.fnd : SealOf(g) # SealOf(f)) =>
                          SealOf(f) \in archived
<1>1. IInv /\ [Next]_vars => [Archives]_vars
  <2> SUFFICES ASSUME IInv, [Next]_vars PROVE Archives
    OBVIOUS
  <2>1. CASE store' = store
    BY <2>1
  <2>2. CASE Follows(store, store')
    BY <2>2 DEF Follows
  <2> QED BY <2>1, <2>2, StoreFollows
<1> QED BY <1>1, InvariantHolds, PTL DEF Spec, RemovedIsArchived

-----------------------------------------------------------------------------
(***************************************************************************)
(* CaseReport, under the same hypothesis: what the report adds leaves the   *)
(* findings' store to its specification, and the report is vouched for.     *)
(***************************************************************************)

\* A report presents claims with a reading, sealed while the ledger can be read.
Vouched(r) == r.approved \subseteq Seal /\ (Legible(ledger) => r.approved \subseteq Sealed)

\* So does the one on disk, and the one that will be written.
ReportInv == Vouched(report) /\ Vouched(drawing.copy)

CaseIInv == IInv /\ ReportInv

-----------------------------------------------------------------------------
\* A step of the case is one of the store, or leaves the store alone.
LEMMA CaseStep == [CaseNext]_caseVars => [Next]_vars
<1> SUFFICES ASSUME [CaseNext]_caseVars PROVE [Next]_vars
  OBVIOUS
<1>1. CASE OtherSteps \/ Show \/ FlipAndDraw
  BY <1>1 DEF Next, Show, FlipAndDraw
<1>2. CASE DrawReport \/ WriteReport \/ DrawFails \/ Export
  BY <1>2 DEF DrawReport, WriteReport, DrawFails, Export
<1>3. CASE UNCHANGED caseVars
  BY <1>3 DEF caseVars
<1> QED BY <1>1, <1>2, <1>3 DEF CaseNext

\* A ledger that can be read after a step could be read before, and keeps its seals.
LEMMA SealsGrow ==
    ASSUME IInv, [Next]_vars
    PROVE  (Legible(ledger))' => Legible(ledger) /\ Sealed \subseteq Sealed'
<1>1. Sealed = Lines(ledger) \ {Cut, Merged} /\ Sealed' = Lines(ledger') \ {Cut, Merged}
  BY DEF Sealed, Lines
<1>2. ASSUME ledger' = ledger
      PROVE  (Legible(ledger))' => Legible(ledger) /\ Sealed \subseteq Sealed'
  BY <1>2 DEF Legible, Sealed
<1>3. ASSUME NEW line \in Seal \cup {Cut}, ledger' = WithLine(ledger, line)
      PROVE  (Legible(ledger))' => Legible(ledger) /\ Sealed \subseteq Sealed'
  <2>1. ledger \in Seq(Seal \cup {Cut, Merged})
    BY DEF IInv, TypeOK
  <2>2. (Legible(ledger))' = Legible(WithLine(ledger, line))
    BY <1>3 DEF Legible
  <2>3. Lines(ledger) \subseteq Lines(ledger') \cup {Cut}
    BY <1>3, <2>1, WithLineIs
  <2> QED BY <1>1, <2>1, <2>2, <2>3, WithLineIs
<1>4. CASE AppendToLedger
  <2>1. PICK f \in Located(store, approver.fid) : ledger' = WithLine(ledger, SealOf(f))
    BY <1>4 DEF AppendToLedger, IInv, HoldInv, Holding
  <2>2. SealOf(f) \in Seal
    BY DEF Located, IInv, TypeOK, Store, Finding, Seal, SealOf
  <2> QED BY <1>3, <2>1, <2>2
<1>5. CASE AppendCut
  BY <1>3, <1>5 DEF AppendCut
<1>6. CASE UNCHANGED vars \/ Flip \/ ServerStart \/ ServerStop \/ RecordObservation \/ LockAndRead \/ ApproveEnds
  BY <1>2, <1>6 DEF vars, Flip, ServerStart, ServerStop, RecordObservation, LockAndRead, ApproveEnds
<1>7. ASSUME NEW o \in 1 .. MaxObs, RecordInterpretation(o)
      PROVE  ledger' = ledger
  BY <1>7 DEF RecordInterpretation
<1>8. ASSUME NEW r \in Reviewer, \/ Materialize(r) \/ MaterializeFails(r) \/ AskCritic(r)
                                 \/ WriteRouted(r) \/ ReviewEnds(r)
                                 \/ \E v \in Verdicts : Route(r, v)
      PROVE  ledger' = ledger
  BY <1>8 DEF Materialize, MaterializeFails, AskCritic, WriteRouted, ReviewEnds, Route
<1>9. ASSUME NEW f \in store.fnd, Reject(f) \/ Modify(f) \/ ShowFinding(f)
      PROVE  ledger' = ledger
  BY <1>9 DEF Reject, Modify, ShowFinding
<1> QED BY <1>2, <1>4, <1>5, <1>6, <1>7, <1>8, <1>9 DEF Next, OtherSteps

LEMMA VouchedStays ==
    ASSUME IInv, [Next]_vars, NEW r, Vouched(r)
    PROVE  r.approved \subseteq Seal /\ ((Legible(ledger))' => r.approved \subseteq Sealed')
  BY SealsGrow DEF Vouched

\* What is drawn from findings.json is the claims of its approved findings.
LEMMA ComposeIs ==
    ASSUME IInv
    PROVE  /\ Compose(store).approved = {SealOf(f) : f \in Approved(store)}
           /\ Vouched(Compose(store))
<1>1. \A f \in Approved(store) : f \in store.fnd /\ f \in Finding /\ f.status = "APPROVED"
  BY DEF Approved, IInv, TypeOK, Store
<1>2. \A f \in Approved(store) : Reading(store, f.oid, f.iid) = f.iid
  BY <1>1 DEF Reading, IInv, Resolves
<1>3. \A f \in Approved(store) : [SealOf(f) EXCEPT !.iid = Reading(store, f.oid, f.iid)] = SealOf(f)
  BY <1>2 DEF SealOf
<1>4. Compose(store).approved = {SealOf(f) : f \in Approved(store)}
  BY <1>3 DEF Compose
<1>5. \A f \in Approved(store) : SealOf(f) \in Seal
  BY <1>1 DEF Finding, Seal, SealOf
<1>6. Legible(ledger) => \A f \in Approved(store) : SealOf(f) \in Sealed
  BY <1>1 DEF IInv, SealInv
<1> QED BY <1>4, <1>5, <1>6 DEF Vouched

LEMMA ReportKept ==
    ASSUME CaseIInv, [CaseNext]_caseVars, [Next]_vars
    PROVE  ReportInv'
<1>1. Vouched(report) /\ Vouched(drawing.copy) /\ Vouched(Compose(store)) /\ Vouched(Frontmatter)
  BY ComposeIs DEF CaseIInv, ReportInv, Vouched, Frontmatter
<1>2. report' \in {report, drawing.copy, Compose(store)}
  BY DEF CaseNext, Show, FlipAndDraw, DrawReport, WriteReport, DrawFails, Export, caseVars
<1>3. drawing'.copy \in {drawing.copy, Compose(store), Frontmatter}
  <2>1. \/ drawing' = drawing \/ drawing' = NotDrawing \/ drawing' = [NotDrawing EXCEPT !.pc = "due"]
        \/ drawing' = [pc |-> "drawn", copy |-> Compose(store)]
    BY DEF CaseNext, Show, FlipAndDraw, DrawReport, WriteReport, DrawFails, Export, caseVars
  <2> QED BY <2>1 DEF NotDrawing
<1>4. \A r \in {report, drawing.copy, Compose(store), Frontmatter} :
         r.approved \subseteq Seal /\ ((Legible(ledger))' => r.approved \subseteq Sealed')
  BY <1>1, VouchedStays DEF CaseIInv
<1>5. /\ report'.approved \subseteq Seal /\ ((Legible(ledger))' => report'.approved \subseteq Sealed')
      /\ drawing'.copy.approved \subseteq Seal
      /\ ((Legible(ledger))' => drawing'.copy.approved \subseteq Sealed')
  BY <1>2, <1>3, <1>4
<1> QED BY <1>5 DEF ReportInv, Vouched

LEMMA CaseInvariantHolds == ASSUME NoOverlap PROVE CaseSpec => []CaseIInv
<1>1. CaseInit => CaseIInv
  <2> SUFFICES ASSUME CaseInit PROVE CaseIInv
    OBVIOUS
  <2>1. IInv
    BY InitHolds DEF CaseInit
  <2>2. report = Frontmatter /\ drawing.copy = Frontmatter
    BY DEF CaseInit, NotDrawing
  <2> QED BY <2>1, <2>2 DEF CaseIInv, ReportInv, Vouched, Frontmatter
<1>2. CaseIInv /\ [CaseNext]_caseVars => CaseIInv'
  <2> SUFFICES ASSUME CaseIInv, [CaseNext]_caseVars PROVE CaseIInv'
    OBVIOUS
  <2>1. [Next]_vars
    BY CaseStep
  <2>2. IInv'
    BY <2>1, StepHolds DEF CaseIInv
  <2> QED BY <2>1, <2>2, ReportKept DEF CaseIInv
<1> QED BY <1>1, <1>2, PTL DEF CaseSpec

-----------------------------------------------------------------------------
(* Theorems *)

\* With the report beside it, the store behaves as FindingsStore says: what is
\* proved of Spec holds of a case.
THEOREM CaseKeepsStore == CaseSpec => Spec
<1>1. CaseInit => Init
  BY DEF CaseInit
<1> QED BY <1>1, CaseStep, PTL DEF CaseSpec, Spec

\* A verify that passes has found every sealed claim as a finding of the case.
LEMMA VerifyPassed ==
    ASSUME IInv, Legible(ledger), VerifyExit(store, ledger, FALSE) = 0
    PROVE  Sealed \subseteq {SealOf(f) : f \in store.fnd}
<1>1. CASE ledger = <<>>
  BY <1>1 DEF Sealed
<1>2. CASE ledger # <<>>
  <2>1. \A row \in ForwardRows(store, ledger) \cup ReverseRows(store, ledger) : row.outcome = "VERIFIED"
    BY <1>2 DEF VerifyExit
  <2>2. ASSUME NEW k \in DOMAIN ledger
        PROVE  \E f \in store.fnd : SealOf(f) = ledger[k]
    <3>1. [line |-> k, fid |-> ledger[k].fid, outcome |-> Outcome(store, ledger[k])]
             \in ForwardRows(store, ledger)
      BY DEF ForwardRows
    <3>2. Outcome(store, ledger[k]) = "VERIFIED"
      BY <2>1, <3>1
    <3>3. \E f \in Located(store, ledger[k].fid) : SealOf(f) = ledger[k]
      BY <3>2 DEF Outcome
    <3> QED BY <3>3 DEF Located
  <2> QED BY <2>2 DEF Sealed
<1> QED BY <1>1, <1>2

\* compose_findings, verify.run: nothing is presented as approved that was not
\* sealed as it stands there, and a verify that passes vouches for all of it.
THEOREM ReportsAreVouchedFor == ASSUME NoOverlap PROVE CaseSpec => []ReportIsVouchedFor
<1>1. CaseIInv => ReportIsVouchedFor
  <2> SUFFICES ASSUME CaseIInv PROVE ReportIsVouchedFor
    OBVIOUS
  <2> USE DEF CaseIInv
  <2>1. Compose(store).approved = {SealOf(f) : f \in Approved(store)}
    BY ComposeIs
  <2>2. {c.oid : c \in Compose(store).approved} = {f.oid : f \in Approved(store)}
    <3>1. \A f : SealOf(f).oid = f.oid
      BY DEF SealOf
    <3>2. \A c \in Compose(store).approved : \E f \in Approved(store) : c.oid = f.oid
      BY <2>1, <3>1
    <3>3. \A f \in Approved(store) : \E c \in Compose(store).approved : c.oid = f.oid
      BY <2>1, <3>1
    <3> QED BY <3>2, <3>3
  <2>3. {c.oid : c \in Unreviewed(store)} = store.obs \ {f.oid : f \in Approved(store)}
    <3> DEFINE rest == store.obs \ {f.oid : f \in Approved(store)}
    <3>1. Unreviewed(store) = {[oid |-> o, iid |-> FirstReading(store, o)] : o \in rest}
      BY DEF Unreviewed
    <3> HIDE DEF rest
    <3>2. \A c \in Unreviewed(store) : c.oid \in rest
      BY <3>1
    <3>3. ASSUME NEW o \in rest
          PROVE  \E c \in Unreviewed(store) : c.oid = o
      <4>1. [oid |-> o, iid |-> FirstReading(store, o)] \in Unreviewed(store)
        BY <3>1
      <4>2. [oid |-> o, iid |-> FirstReading(store, o)].oid = o
        OBVIOUS
      <4> QED BY <4>1, <4>2
    <3>4. {c.oid : c \in Unreviewed(store)} = rest
      BY <3>2, <3>3
    <3> QED BY <3>4 DEF rest
  <2>4. {f.oid : f \in Approved(store)} \subseteq store.obs
    BY DEF Approved, IInv, Resolves
  <2>5. {c.oid : c \in Compose(store).approved \cup Unreviewed(store)}
           = {c.oid : c \in Compose(store).approved} \cup {c.oid : c \in Unreviewed(store)}
    OBVIOUS
  <2>6. Summary(report) = report.approved
    <3>1. \A c \in report.approved : c.iid # 0
      BY DEF ReportInv, Vouched, Seal
    <3> QED BY <3>1 DEF Summary
  <2>7. Legible(ledger) => report.approved \subseteq Sealed
    BY DEF ReportInv, Vouched
  <2>8. ASSUME VerifyExit(store, ledger, FALSE) = 0
        PROVE  report.approved \cup {SealOf(f) : f \in Approved(store)}
                 \subseteq Sealed \cap {SealOf(f) : f \in store.fnd}
    <3>1. Legible(ledger)
      BY <2>8 DEF VerifyExit
    <3>2. {SealOf(f) : f \in Approved(store)} \subseteq Sealed
      BY <3>1 DEF Approved, IInv, SealInv
    <3>3. Sealed \subseteq {SealOf(f) : f \in store.fnd}
      BY <2>8, <3>1, VerifyPassed
    <3> QED BY <2>7, <3>1, <3>2, <3>3
  <2> QED BY <2>2, <2>3, <2>4, <2>5, <2>6, <2>7, <2>8 DEF ReportIsVouchedFor
<1> QED BY <1>1, CaseInvariantHolds, PTL
=============================================================================
