------------------------------ MODULE CaseReport ------------------------------
(***************************************************************************)
(* What the examiner gets out of a case: report.md, which approve and      *)
(* export draw from findings.json, and the verdict of the verify command.  *)
(*                                                                         *)
(* Drawing takes no lock: findings.json is read, the sections are composed *)
(* and the file is replaced.  approve draws after it has given its locks   *)
(* back, so an export, another process's record or the examiner's next     *)
(* decision may come between its read and its write.  Nothing draws the    *)
(* report after a review.                                                  *)
(*                                                                         *)
(* A section is what it says of which finding: the claim it presents as    *)
(* approved, or the reading of an observation it presents as unreviewed.   *)
(* The other sections list audit files, tools and indicators found in the  *)
(* same claims.                                                            *)
(***************************************************************************)
EXTENDS FindingsStore, FiniteSetsExt

VARIABLES
    report,     \* report.md
    drawing     \* approve's rendering: step and the report it will write

caseVars == <<vars, report, drawing>>

-----------------------------------------------------------------------------
(* Composing *)

\* An id of 0 is the text "No interpretation recorded".
Reading(st, o, i) == IF [oid |-> o, iid |-> i] \in st.interps THEN i ELSE 0

FirstReading(st, o) == IF InterpIds(st, o) = {} THEN 0 ELSE Min(InterpIds(st, o))

\* Mutant: whatever the examiner has not rejected is presented as approved.
NotRejected(st) == {f \in st.fnd : f.status # "REJECTED"}

Approved(st) == {f \in st.fnd : f.status = "APPROVED"}

\* The approved findings with the reading they name.
Compose(st) ==
    [approved |-> {[SealOf(f) EXCEPT !.iid = Reading(st, f.oid, f.iid)] : f \in Approved(st)},
     status   |-> IF Approved(st) = {} THEN "DRAFT" ELSE "REVIEWED"]

\* Below them, every observation of no approved finding, with its first reading.
\* What is drawn of these is not kept in the state.
Unreviewed(st) ==
    {[oid |-> o, iid |-> FirstReading(st, o)] : o \in st.obs \ {f.oid : f \in Approved(st)}}

\* The executive summary and the timeline: one line for each approved claim,
\* the summary leaving out what has no reading.
Summary(r) == {c \in r.approved : c.iid # 0}

Frontmatter == [approved |-> {}, status |-> "DRAFT"]
NotDrawing == [pc |-> "none", copy |-> Frontmatter]

-----------------------------------------------------------------------------
(* Drawing *)

\* init writes the frontmatter alone.
CaseInit == Init /\ report = Frontmatter /\ drawing = NotDrawing

\* The one approve command shows its next finding once it is through with the last.
Show ==
    /\ drawing.pc = "none"
    /\ \E f \in store.fnd : ShowFinding(f)
    /\ UNCHANGED <<report, drawing>>

\* approve_finding returns with success; when the ledger cannot be read after
\* that, approve says so and draws nothing.
FlipAndDraw ==
    /\ Flip
    /\ drawing' = IF Legible(ledger) THEN [NotDrawing EXCEPT !.pc = "due"] ELSE drawing
    /\ UNCHANGED report

\* _render_report: findings.json is read, with no lock.
DrawReport ==
    /\ drawing.pc = "due"
    /\ drawing' = [pc |-> "drawn", copy |-> Compose(store)]
    /\ UNCHANGED <<vars, report>>

\* write_text_atomic.
WriteReport ==
    /\ drawing.pc = "drawn"
    /\ report' = drawing.copy
    /\ drawing' = NotDrawing
    /\ UNCHANGED vars

\* A render that fails does not undo the approval; or the process was killed.
DrawFails ==
    /\ drawing.pc # "none"
    /\ drawing' = NotDrawing
    /\ UNCHANGED <<vars, report>>

\* export without --pdf, which draws anew; its read and its write are one step.
Export ==
    /\ report' = Compose(store)
    /\ UNCHANGED <<vars, drawing>>

CaseNext ==
    \/ OtherSteps /\ UNCHANGED <<report, drawing>>
    \/ Show
    \/ FlipAndDraw
    \/ DrawReport
    \/ WriteReport
    \/ DrawFails
    \/ Export

CaseSpec == CaseInit /\ [][CaseNext]_caseVars

-----------------------------------------------------------------------------
(* The verify command *)

\* One row for each line of the ledger.
ForwardRows(st, led) ==
    {[line |-> k, fid |-> led[k].fid, outcome |-> Outcome(st, led[k])] : k \in DOMAIN led}

\* And one for each approved finding whose id is in none of them.
ReverseRows(st, led) ==
    {[line |-> 0, fid |-> f.fid, outcome |-> "APPROVED_NO_VERIFICATION"] :
        f \in {g \in Approved(st) : \A k \in DOMAIN led : led[k].fid # g.fid}}

\* The exit code; a ledger that cannot be read or is empty ends before either pass.
VerifyExit(st, led, strict) ==
    IF ~Legible(led) THEN 2
    ELSE IF led = <<>> \/ \A row \in ForwardRows(st, led) \cup ReverseRows(st, led) :
                             row.outcome = "VERIFIED" THEN 0
    ELSE IF strict THEN 3 ELSE 1

-----------------------------------------------------------------------------
(* Properties *)

\* Whatever was drawn when, and however late it was written: report.md presents
\* nothing as approved that the examiner did not seal as it stands there, unless
\* the ledger is beyond reading and every verify fails; and
\* while verify passes, every such claim is still a finding of the case and every
\* approved finding of the case is sealed.  A report drawn now shows every
\* observation, either as approved or as unreviewed.  (compose_findings, verify.run)
ReportIsVouchedFor ==
    /\ {c.oid : c \in Compose(store).approved \cup Unreviewed(store)} = store.obs
    /\ {c.oid : c \in Compose(store).approved} \cap {c.oid : c \in Unreviewed(store)} = {}
    /\ Summary(report) = report.approved
    /\ Legible(ledger) => report.approved \subseteq Sealed
    /\ VerifyExit(store, ledger, FALSE) = 0 =>
          report.approved \cup {SealOf(f) : f \in Approved(store)}
              \subseteq Sealed \cap {SealOf(f) : f \in store.fnd}
===============================================================================
