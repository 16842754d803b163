----------------------------- MODULE FindingsStore -----------------------------
(***************************************************************************)
(* The findings of one case: findings.json, findings.archived.json and the *)
(* signed ledger, and the processes that change them.                      *)
(*                                                                         *)
(*   - the tool server records observations and interpretations;           *)
(*   - `review` turns them into DRAFT findings (materialize_findings), has *)
(*     a critic model judge them and routes its verdicts                   *)
(*     (handle_critic_verdicts), and lets the examiner reject or edit;     *)
(*   - `approve` shows a finding, seals it in the ledger and flips it to   *)
(*     APPROVED.                                                           *)
(*                                                                         *)
(* All of them rewrite findings.json as a whole.  All but the routing of   *)
(* verdicts do so under the flock .findings.lock, so their read and write  *)
(* are one action here; approve, which writes the ledger in between, takes *)
(* several, and so does the routing, which takes no lock at all.           *)
(*                                                                         *)
(* Abstractions.  findings.json is three sets of records; rows are listed  *)
(* in the order of their ids, as the code appends them.  The text of an    *)
(* observation or interpretation never changes, so its id stands for it    *)
(* and a ledger entry seals the pair of ids.  Passwords, salts and         *)
(* permissions are taken to be in order.                                   *)
(***************************************************************************)
EXTENDS Naturals, FiniteSets, Sequences

CONSTANTS
    Reviewer,       \* processes that may run `review` at the same time
    Overlap,        \* may other writers act between a routing's read and write?
    LedgerCuts,     \* may a ledger append be cut, by a kill or a full disk?
    MaxObs,         \* bound: observation ids
    MaxInterp,      \* bound: interpretation ids
    MaxFinding,     \* bound: finding ids
    MaxLedger       \* bound: ledger entries

ASSUME FindingsAssumption ==
    /\ {Overlap, LedgerCuts} \subseteq BOOLEAN
    /\ {MaxObs, MaxInterp, MaxFinding, MaxLedger} \subseteq Nat

VARIABLES
    store,      \* findings.json
    archived,   \* findings.archived.json: the claims [fid, oid, iid] moved there
    ledger,     \* the signed ledger: sequence of lines
    auditLock,  \* who holds audit/.lock: "free", "server" or "approve"
    approver,   \* the approve command: program counter, finding and read copy
    review      \* [Reviewer -> program counter and the store it will write]

vars == <<store, archived, ledger, auditLock, approver, review>>

-----------------------------------------------------------------------------
(* The three files *)

Interpretation == [oid : 1..MaxObs, iid : 1..MaxInterp]
Finding == [fid : 1..MaxFinding, oid : 1..MaxObs, iid : 1..MaxInterp,
            status : {"DRAFT", "APPROVED", "REJECTED"},
            seen : BOOLEAN,     \* has a critic_status, AGREED or CHALLENGED
            edited : BOOLEAN]   \* has edited_observation or edited_interpretation
Store == [obs : SUBSET (1..MaxObs), interps : SUBSET Interpretation,
          fnd : SUBSET Finding]
Seal == [fid : 1..MaxFinding, oid : 1..MaxObs, iid : 1..MaxInterp]

\* A line of the ledger that is cut has no end yet: the next one is merged with
\* it and neither can be read.
Cut == [fid |-> 0, oid |-> 0, iid |-> 0]
Merged == [fid |-> 0, oid |-> 0, iid |-> 1]
WithLine(led, line) ==
    IF led = <<>> \/ led[Len(led)] # Cut THEN Append(led, line)
    ELSE [led EXCEPT ![Len(led)] = IF line = Cut THEN Cut ELSE Merged]

\* read_all refuses a ledger with a line that it cannot read.
Legible(led) == \A k \in DOMAIN led : led[k] \notin {Cut, Merged}

EmptyStore == [obs |-> {}, interps |-> {}, fnd |-> {}]

SealOf(f) == [fid |-> f.fid, oid |-> f.oid, iid |-> f.iid]

\* The largest number of a set, 0 for none: the allocators of O-, I- and F-ids.
Largest(S) == IF S = {} THEN 0 ELSE CHOOSE m \in S : \A n \in S : n <= m

InterpIds(st, o) == {i.iid : i \in {j \in st.interps : j.oid = o}}

\* The finding row with id fid, as a set with at most one element.
Located(st, fid) == {f \in st.fnd : f.fid = fid}

\* st with finding f replaced by g.
Replace(st, f, g) == [st EXCEPT !.fnd = (@ \ {f}) \cup {g}]

NextObservation(st) == 1 + Largest(st.obs \cup {f.oid : f \in st.fnd})
NextInterpretation(st) == 1 + Largest({i.iid : i \in st.interps})

\* Mutant: every interpreted observation becomes a finding, covered or not.
InterpretedObservations(st) == {o \in st.obs : InterpIds(st, o) # {}}

\* Observations that can become findings: interpreted and not yet covered.
Uncovered(st) ==
    {o \in st.obs : InterpIds(st, o) # {} /\ \A f \in st.fnd : f.oid # o}

\* The new DRAFT findings, numbered in file order after the largest id there is.
Drafts(st) ==
    LET last == Largest({f.fid : f \in st.fnd})
    IN  {[fid |-> last + Cardinality({p \in Uncovered(st) : p <= o}),
          oid |-> o, iid |-> Largest(InterpIds(st, o)),
          status |-> "DRAFT", seen |-> FALSE, edited |-> FALSE]
            : o \in Uncovered(st)}

-----------------------------------------------------------------------------
(* Who may write *)

Idle == [pc |-> "idle", fid |-> 0, copy |-> EmptyStore]
NotReviewing == [pc |-> "idle", out |-> EmptyStore]

\* .findings.lock is free: approve is the only one to hold it across actions.
LockFree == approver.pc \notin {"copied", "sealed"}

\* No routing is between its read and its write, or it does not matter.
NoWindow == Overlap \/ \A r \in Reviewer : review[r].pc # "routed"

MayWrite == LockFree /\ NoWindow

-----------------------------------------------------------------------------
(* The tool server *)

Init ==
    /\ store = EmptyStore
    /\ archived = {}
    /\ ledger = <<>>
    /\ auditLock = "free"
    /\ approver = Idle
    /\ review = [r \in Reviewer |-> NotReviewing]

ServerStart ==
    /\ auditLock = "free"
    /\ auditLock' = "server"
    /\ UNCHANGED <<store, archived, ledger, approver, review>>

ServerStop ==
    /\ auditLock = "server"
    /\ auditLock' = "free"
    /\ UNCHANGED <<store, archived, ledger, approver, review>>

\* record_observation past its gates: the next O-id and its row.
RecordObservation ==
    /\ auditLock = "server" /\ MayWrite
    /\ NextObservation(store) <= MaxObs
    /\ store' = [store EXCEPT !.obs = @ \cup {NextObservation(store)}]
    /\ UNCHANGED <<archived, ledger, auditLock, approver, review>>

\* record_interpretation past its gates, under an observation that is there.
RecordInterpretation(o) ==
    /\ auditLock = "server" /\ MayWrite
    /\ o \in store.obs
    /\ NextInterpretation(store) <= MaxInterp
    /\ store' = [store EXCEPT !.interps =
                    @ \cup {[oid |-> o, iid |-> NextInterpretation(store)]}]
    /\ UNCHANGED <<archived, ledger, auditLock, approver, review>>

-----------------------------------------------------------------------------
(* The review command *)

\* Mutant: a later interpretation of a covered observation replaces the one
\* its finding was made from.
MaterializeLatest(r) ==
    /\ review[r].pc = "idle" /\ MayWrite
    /\ \A f \in Drafts(store) : f.fid <= MaxFinding
    /\ store' = [store EXCEPT !.fnd =
                    {[f EXCEPT !.iid = Largest(InterpIds(store, f.oid))] : f \in @}
                       \cup Drafts(store)]
    /\ review' = [review EXCEPT ![r].pc = "listed"]
    /\ UNCHANGED <<archived, ledger, auditLock, approver>>

\* run -> materialize_findings.
Materialize(r) ==
    /\ review[r].pc = "idle" /\ MayWrite
    /\ \A f \in Drafts(store) : f.fid <= MaxFinding
    /\ store' = [store EXCEPT !.fnd = @ \cup Drafts(store)]
    /\ review' = [review EXCEPT ![r].pc = "listed"]
    /\ UNCHANGED <<archived, ledger, auditLock, approver>>

\* materialize_findings raised before it wrote: the pass goes on without it.
MaterializeFails(r) ==
    /\ review[r].pc = "idle"
    /\ review' = [review EXCEPT ![r].pc = "listed"]
    /\ UNCHANGED <<store, archived, ledger, auditLock, approver>>

\* _run_critic_pass up to the model call: an unlocked read; without a DRAFT
\* finding the critic has not seen there is nothing to ask.
AskCritic(r) ==
    /\ review[r].pc = "listed"
    /\ \E f \in store.fnd : f.status = "DRAFT" /\ ~f.seen
    /\ review' = [review EXCEPT ![r].pc = "thinking"]
    /\ UNCHANGED <<store, archived, ledger, auditLock, approver>>

\* What routing makes of a copy st of findings.json, for verdicts v: the
\* rejected rows go, the others are marked in place.
Rejected(st, v) == {f \in st.fnd : v[f.fid] = "REJECT"}

Marked(f, v) == [f EXCEPT !.seen = @ \/ v[f.fid] = "KEEP"]

\* Mutant: the file is rebuilt from the findings alone.
RemainingFindings(st, v) ==
    [EmptyStore EXCEPT !.fnd = {Marked(f, v) : f \in st.fnd \ Rejected(st, v)}]

Remaining(st, v) ==
    [st EXCEPT !.fnd = {Marked(f, v) : f \in @ \ Rejected(st, v)}]

\* What the model says of each finding id; AGREE and CHALLENGE both keep it.
Verdicts == [1..MaxFinding -> {"none", "KEEP", "REJECT"}]

\* Mutant: nothing is archived before the rejected findings are dropped.
RouteUnarchived(r, v) ==
    /\ review[r].pc = "thinking"
    /\ Overlap \/ MayWrite
    /\ \E f \in store.fnd : v[f.fid] # "none"
    /\ review' = [review EXCEPT ![r] = [pc |-> "routed", out |-> Remaining(store, v)]]
    /\ UNCHANGED <<store, archived, ledger, auditLock, approver>>

\* handle_critic_verdicts up to its second write: read findings.json without
\* the findings lock, apply the verdicts in memory, write the archive.  The
\* verdicts are the model's: nothing ties them to the findings it was shown.
Route(r, v) ==
    /\ review[r].pc = "thinking"
    /\ Overlap \/ MayWrite
    /\ \E f \in store.fnd : v[f.fid] # "none"
    /\ archived' = archived \cup {SealOf(f) : f \in Rejected(store, v)}
    /\ review' = [review EXCEPT ![r] = [pc |-> "routed", out |-> Remaining(store, v)]]
    /\ UNCHANGED <<store, ledger, auditLock, approver>>

\* handle_critic_verdicts, second write: the whole file, from the copy.
WriteRouted(r) ==
    /\ review[r].pc = "routed"
    /\ store' = review[r].out
    /\ review' = [review EXCEPT ![r] = NotReviewing]
    /\ UNCHANGED <<archived, ledger, auditLock, approver>>

\* Nothing to ask, no verdict to route, the model or a write failed, or the
\* process was killed: what it had not written is lost.
ReviewEnds(r) ==
    /\ review[r].pc # "idle"
    /\ review' = [review EXCEPT ![r] = NotReviewing]
    /\ UNCHANGED <<store, archived, ledger, auditLock, approver>>

\* _reject: whatever the status was.
Reject(f) ==
    /\ MayWrite
    /\ store' = Replace(store, f, [f EXCEPT !.status = "REJECTED"])
    /\ UNCHANGED <<archived, ledger, auditLock, approver, review>>

\* _modify: edited_observation and edited_interpretation beside the originals.
Modify(f) ==
    /\ MayWrite
    /\ store' = Replace(store, f, [f EXCEPT !.edited = TRUE])
    /\ UNCHANGED <<archived, ledger, auditLock, approver, review>>

-----------------------------------------------------------------------------
(* The approve command *)

\* run: pre-checks on an unlocked read, the block is shown, the password asked.
ShowFinding(f) ==
    /\ approver.pc = "idle"
    /\ f.status # "APPROVED"
    /\ approver' = [Idle EXCEPT !.pc = "shown", !.fid = f.fid]
    /\ UNCHANGED <<store, archived, ledger, auditLock, review>>

\* What _run_pipeline accepts: a row with this id that is not APPROVED and
\* whose observation and interpretation are there.
Approvable(st, fid) ==
    {f \in Located(st, fid) :
        /\ f.status # "APPROVED"
        /\ f.oid \in st.obs
        /\ \E i \in st.interps : i.iid = f.iid}

\* approve_finding takes both locks and reads findings.json.
LockAndRead ==
    /\ approver.pc = "shown"
    /\ auditLock = "free" /\ MayWrite
    /\ Approvable(store, approver.fid) # {}
    /\ auditLock' = "approve"
    /\ approver' = [approver EXCEPT !.pc = "copied", !.copy = store]
    /\ UNCHANGED <<store, archived, ledger, review>>

\* Mutant: the seal covers the observation's latest interpretation.
AppendLatest ==
    /\ approver.pc = "copied"
    /\ Len(WithLine(ledger, Cut)) <= MaxLedger
    /\ \E f \in Located(approver.copy, approver.fid) :
          ledger' = WithLine(ledger, [SealOf(f) EXCEPT !.iid =
                                        Largest(InterpIds(approver.copy, f.oid))])
    /\ approver' = [approver EXCEPT !.pc = "sealed"]
    /\ UNCHANGED <<store, archived, auditLock, review>>

\* HMACLedger.append of the copy's content.
AppendToLedger ==
    /\ approver.pc = "copied"
    /\ Len(WithLine(ledger, Cut)) <= MaxLedger
    /\ \E f \in Located(approver.copy, approver.fid) :
          ledger' = WithLine(ledger, SealOf(f))
    /\ approver' = [approver EXCEPT !.pc = "sealed"]
    /\ UNCHANGED <<store, archived, auditLock, review>>

\* The append is cut: it raises, or the process is killed in it.
AppendCut ==
    /\ LedgerCuts
    /\ approver.pc = "copied"
    /\ Len(WithLine(ledger, Cut)) <= MaxLedger
    /\ ledger' = WithLine(ledger, Cut)
    /\ approver' = Idle
    /\ auditLock' = "free"
    /\ UNCHANGED <<store, archived, review>>

\* The flip to APPROVED, written from the copy; both locks are released.
Flip ==
    /\ approver.pc = "sealed"
    /\ \E f \in Located(approver.copy, approver.fid) :
          store' = Replace(approver.copy, f, [f EXCEPT !.status = "APPROVED"])
    /\ approver' = Idle
    /\ auditLock' = "free"
    /\ UNCHANGED <<archived, ledger, review>>

\* The finding is gone or refused, a write failed, the examiner gave up or the
\* process was killed: the locks go, the ledger keeps what it has.
ApproveEnds ==
    /\ approver.pc # "idle"
    /\ approver' = Idle
    /\ auditLock' = IF auditLock = "approve" THEN "free" ELSE auditLock
    /\ UNCHANGED <<store, archived, ledger, review>>

\* All but the two steps of approve that the report hangs on.
OtherSteps ==
    \/ ServerStart
    \/ ServerStop
    \/ RecordObservation
    \/ \E o \in 1..MaxObs : RecordInterpretation(o)
    \/ \E r \in Reviewer :
          \/ Materialize(r)
          \/ MaterializeFails(r)
          \/ AskCritic(r)
          \/ \E v \in Verdicts : Route(r, v)
          \/ WriteRouted(r)
          \/ ReviewEnds(r)
    \/ \E f \in store.fnd : Reject(f) \/ Modify(f)
    \/ LockAndRead
    \/ AppendToLedger
    \/ AppendCut
    \/ ApproveEnds

Next == OtherSteps \/ (\E f \in store.fnd : ShowFinding(f)) \/ Flip

Spec == Init /\ [][Next]_vars

-----------------------------------------------------------------------------
(* The seals *)

\* What verify says of ledger entry e against findings.json: its pair of ids is
\* found through the finding of that id, and its content compared.
Outcome(st, e) ==
    IF \E f \in Located(st, e.fid) :
          f.oid \in st.obs /\ \E i \in st.interps : i.iid = f.iid
    THEN IF \E f \in Located(st, e.fid) : SealOf(f) = e
         THEN "VERIFIED" ELSE "DESCRIPTION_MISMATCH"
    ELSE "VERIFICATION_NO_FINDING"

Sealed == {ledger[k] : k \in DOMAIN ledger} \ {Cut, Merged}

-----------------------------------------------------------------------------
(* Properties *)

\* Types; and audit/.lock is held by approve exactly while it holds the
\* findings lock.
TypeOK ==
    /\ store \in Store
    /\ archived \subseteq Seal
    /\ ledger \in Seq(Seal \cup {Cut, Merged})
    /\ auditLock \in {"free", "server", "approve"}
    /\ approver \in [pc : {"idle", "shown", "copied", "sealed"},
                     fid : 0..MaxFinding, copy : Store]
    /\ review \in [Reviewer -> [pc : {"idle", "listed", "thinking", "routed"}, out : Store]]
    /\ auditLock = "approve" <=> approver.pc \in {"copied", "sealed"}

\* No observation and no interpretation an agent recorded ever disappears from
\* findings.json, and no finding that stays there loses the examiner's edit,
\* whatever order the writers of the file come in.  (A verdict may still remove
\* an edited finding as a whole: RemovedIsArchived is about that.)
NothingRecordedIsLost ==
    [][ /\ store.obs \subseteq store'.obs
        /\ store.interps \subseteq store'.interps
        /\ \A f \in store.fnd, g \in store'.fnd :
              (f.fid = g.fid /\ f.edited) => g.edited ]_vars

\* Ids name one finding, an observation has at most one finding at a time, and
\* a finding's observation and interpretation are in the file and belong
\* together, so every approval and every report line can be resolved.
FindingsResolve ==
    \A f \in store.fnd :
        /\ f.oid \in store.obs
        /\ [oid |-> f.oid, iid |-> f.iid] \in store.interps
        /\ \A g \in store.fnd : (f.fid = g.fid \/ f.oid = g.oid) => f = g

\* Verify accepts the seal of every finding that is APPROVED, or refuses the
\* ledger as a whole: the status is never ahead of a ledger that can be read,
\* and what was sealed is what the file says.  A seal that was merged with a cut
\* line is missing from a ledger that nothing reads any more.
ApprovedIsSealed ==
    Legible(ledger) => \A f \in store.fnd : f.status = "APPROVED" =>
        \E e \in Sealed : e.fid = f.fid /\ Outcome(store, e) = "VERIFIED"

\* What the examiner signed is accounted for: every sealed claim is a finding
\* of the case or, when the critic took it away, of the archive.
SealedIsAccountedFor ==
    Sealed \subseteq archived \cup {SealOf(f) : f \in store.fnd}

\* A finding leaves findings.json only when the archive already has it, so a
\* crash between the two writes can duplicate it but not lose it.
RemovedIsArchived ==
    [][\A f \in store.fnd : (\A g \in store'.fnd : SealOf(g) # SealOf(f)) =>
          SealOf(f) \in archived]_vars

================================================================================
