----------------------------- MODULE Corroboration -----------------------------
(* What the program says of a claim without asking a model: the tier review    *)
(* gives a finding when it makes it, from the kinds of evidence its observation*)
(* cites, and the challenges of the contradiction detectors.                   *)
(*                                                                             *)
(* Which words are an execution claim, or a memory artifact, is the business   *)
(* of patterns; a text is here what they find in it.                           *)
EXTENDS Naturals, Sequences, FiniteSets, SequencesExt, Loops

-----------------------------------------------------------------------------
(* Tiers *)

\* _SOURCE_CATEGORY.
SourceCategory ==
    [vol |-> "memory", evtx |-> "system_log", powershell |-> "system_log", regipy |-> "registry",
     mft |-> "filesystem", usnjrnl |-> "filesystem", prefetch |-> "user_activity",
     lnk |-> "user_activity", jumplist |-> "user_activity", srum |-> "user_activity",
     zeek |-> "network", sigma |-> "detection", plaso |-> "timeline_breadth"]

\* A source_tool is a family with or without a part behind the colon; both are
\* looked up by family, and what is not in the table is one category.
Categorize(tool) ==
    IF tool.family \in DOMAIN SourceCategory THEN SourceCategory[tool.family] ELSE "other"

ClassifyTools(tools) ==
    LET categories == {Categorize(t) : t \in Range(tools)}
    IN [categories |-> categories,
        tier |-> IF Cardinality(categories) >= 2 THEN "CONFIRMED"
                 ELSE IF Len(tools) >= 2 THEN "INFERRED" ELSE "UNVERIFIED"]

\* The records the spans name, each once; a malformed span names none.
RecordIds(spans) == {spans[k].record : k \in {k \in DOMAIN spans : spans[k].wellformed}}

\* index gives the source tool of the records there are; without index.db, of none.
ClassifyWithIndex(ids, index) ==
    ClassifyTools([k \in 1 .. Cardinality(ids \cap DOMAIN index) |->
                index[SetToSeq(ids \cap DOMAIN index)[k]]])

Tier(spans, index) == ClassifyWithIndex(RecordIds(spans), index).tier

-----------------------------------------------------------------------------
(* The contradiction detectors *)

\* A written time is <<day>>, <<day, minute>> or <<day, minute, second>>, with or
\* without a Z right behind it.  The pattern wants a word's end behind a time:
\* before a Z it gives the seconds up, and finds nothing if there are none.
TimestampsIn(stamps) ==
    {s.time : s \in {x \in stamps : ~x.zulu}}
    \cup {SubSeq(s.time, 1, 2) : s \in {x \in stamps : x.zulu /\ Len(x.time) = 3}}

\* The evidence is one text, the cited spans in a row.
Shows(cited, artifact) == \E e \in Range(cited) : artifact \in e.shows
StampsOf(cited) == UNION {e.stamps : e \in Range(cited)}

DetectExecutionOverclaim(claim, cited) ==
    claim.execution /\ ~Shows(cited, "execution") /\ Shows(cited, "presence")

DetectGhostProcess(claim, cited) == claim.running /\ ~Shows(cited, "memory")

DetectTimestampParadox(claim, cited) ==
    ~(TimestampsIn(claim.stamps) \subseteq TimestampsIn(StampsOf(cited)))

\* run_contradiction_detectors for one finding, in the order of _DETECTORS.
Detectors == <<"EXECUTION_OVERCLAIM", "GHOST_PROCESS", "TIMESTAMP_PARADOX">>
Detected(d, claim, cited) ==
    CASE d = "EXECUTION_OVERCLAIM" -> DetectExecutionOverclaim(claim, cited)
      [] d = "GHOST_PROCESS"       -> DetectGhostProcess(claim, cited)
      [] d = "TIMESTAMP_PARADOX"   -> DetectTimestampParadox(claim, cited)
Challenges(claim, cited) ==
    Among(Detectors, {d \in Range(Detectors) : Detected(d, claim, cited)})

-----------------------------------------------------------------------------
(* Laws *)

TierRank(tier) == CASE tier = "UNVERIFIED" -> 0 [] tier = "INFERRED" -> 1 [] tier = "CONFIRMED" -> 2

\* A finding is CONFIRMED by two records of different kinds and by nothing less,
\* INFERRED from two different records; neither a record cited twice, nor one the
\* index lacks, nor a malformed span adds to the tier, and no citation takes from it.
TierLaw(spans, index) ==
    LET cited == {spans[k].record : k \in {k \in DOMAIN spans : spans[k].wellformed}}
                    \cap DOMAIN index
        views == {Categorize(index[r]) : r \in cited}
    IN /\ Tier(spans, index) = "CONFIRMED" <=>
             \E r, s \in cited : Categorize(index[r]) # Categorize(index[s])
       /\ Tier(spans, index) = "UNVERIFIED" <=> \A r, s \in cited : r = s
       /\ ClassifyWithIndex(RecordIds(spans), index).categories = views
       /\ \A k \in DOMAIN spans :
             TierRank(Tier(RemoveAt(spans, k), index)) <= TierRank(Tier(spans, index))

\* A claim its citations bear out is not challenged, whatever else is cited; one
\* that is made without any such citation is challenged, execution only where
\* the citations speak of the file at all.  A time copied from a citation as it
\* stands there is never a paradox, one whose day no citation names always is.
ChallengeLaw(claim, cited) ==
    LET raised == Range(Challenges(claim, cited))
        written == StampsOf(cited)
        read(s) == ~s.zulu \/ Len(s.time) = 3
    IN /\ \A extra \in {"execution", "memory"} :
             LET borne == Append(cited, [shows |-> {extra}, stamps |-> {}])
             IN Range(Challenges(claim, borne)) =
                   raised \ (IF extra = "execution" THEN {"EXECUTION_OVERCLAIM"}
                             ELSE {"GHOST_PROCESS"})
       /\ claim.running => "GHOST_PROCESS" \in raised \/ Shows(cited, "memory")
       /\ "GHOST_PROCESS" \in raised => claim.running
       /\ claim.execution /\ Shows(cited, "presence") =>
             "EXECUTION_OVERCLAIM" \in raised \/ Shows(cited, "execution")
       /\ "EXECUTION_OVERCLAIM" \in raised => claim.execution /\ Shows(cited, "presence")
       /\ claim.stamps \subseteq written => "TIMESTAMP_PARADOX" \notin raised
       /\ (\E s \in claim.stamps : read(s) /\ \A w \in written : w.time[1] # s.time[1])
            => "TIMESTAMP_PARADOX" \in raised
===============================================================================
