------------------------ MODULE EvidencePipeline_proofs ------------------------
(***************************************************************************)
(* Proofs about EvidencePipeline, for any images, index commands and bounds *)
(* and with every kill and failed read.  All of it rests on one argument:   *)
(* who writes holds audit/.lock, so nobody else's step comes in between.    *)
(***************************************************************************)
EXTENDS EvidencePipeline, FiniteSetTheorems, SequenceTheorems, Induction, TLAPS

(* The inductive invariant *)

Record == [path : Path, sha : Content, aid : Ids]
TrailRow == [id : Ids, tool : {"register", "prepare", "index", "observe"}, of : Image \cup {NoImage}]
PrepState == [pc : {"idle", "listed", "next", "extracting", "extracted", "emitted"},
              todo : Seq(Image), got : BOOLEAN]
Database == [state : {"absent", "open", "closed", "broken"},
             rows : SUBSET [path : Path, content : Content, aid : Ids], fts : BOOLEAN]
Manifest == [inputs : SUBSET Input, profile : Profile \cup {"none"}, failed : SUBSET Path]
IxState == [pc : {"idle", "listed", "wants", "building", "built", "recorded"},
            listed : SUBSET Input, profile : {"targeted", "plaso"},
            todo : SUBSET Path, failed : SUBSET Path]

FilesInv == /\ disk \in [Dir -> Content \cup {Nothing}]
            /\ registry \in Seq(Record)
            /\ db \in Database
            /\ manifest \in Manifest
            /\ sealed \in BOOLEAN /\ faults \in 0 .. MaxFaults

TrailInv == /\ trail \subseteq TrailRow
            /\ owner \in {"free", "register", "prepare", "server"} \cup Indexer
            /\ seq \in 0 .. MaxId
            /\ owner = "register" => seq > 0

\* A command that writes holds the lock.
Writing(x) == ix[x].pc \in {"building", "built", "recorded"}
Preparing == prep.pc \in {"next", "extracting", "extracted", "emitted"}

\* What prepare extracted is still on disk when it registers it, and its audit
\* row is written.
PrepInv == /\ prep \in PrepState
           /\ Preparing <=> owner = "prepare"
           /\ prep.pc # "idle" => prep.todo # <<>>
           /\ prep.pc \in {"extracted", "emitted"} /\ prep.got =>
                disk[Extracting][1] = Head(prep.todo)
           /\ prep.pc = "emitted" =>
                seq > 0 /\ [id |-> seq, tool |-> "prepare", of |-> Head(prep.todo)] \in trail

\* What an index command has to answer for: everything it was asked for is
\* waiting, among the rows or among the failures.
Covers(inputs, profile, done) == Wanted(inputs, profile) \subseteq {r.path : r \in db.rows} \cup done

Answers(x) ==
    /\ Writing(x) <=> owner = x
    /\ ix[x].listed \subseteq Inputs(registry)
    /\ ix[x].pc # "idle" => ix[x].profile \in Profile
    /\ ix[x].pc \in {"building", "built"} => ~sealed
    /\ ix[x].pc = "building" =>
          /\ seq > 0 /\ \A r \in db.rows : r.aid = seq /\ r.path \notin ix[x].todo
          /\ Covers(ix[x].listed, ix[x].profile, ix[x].failed \cup ix[x].todo)
    /\ ix[x].pc = "built" => db.fts /\ Covers(ix[x].listed, ix[x].profile, ix[x].failed)

IndexInv == ix \in [Indexer -> IxState] /\ \A x \in Indexer : Answers(x)

IInv == /\ FilesInv /\ TrailInv /\ PrepInv /\ IndexInv
        /\ OneBuild /\ PreparedAreTraceable /\ RecordedIsComplete

-----------------------------------------------------------------------------
(* Helpers *)

LEMMA Constants ==
    /\ MaxFaults \in Nat /\ MaxId \in Nat /\ Profile \subseteq {"targeted", "plaso"}
    /\ Image \cap Dir = {} /\ NoImage \notin Image /\ \A i \in Image : Stem[i] \in Dir
    /\ Indexer \cap {"free", "register", "prepare", "server"} = {}
  BY PipelineAssumption DEF PipelineAssumption, Dir, NoImage

\* A logger starts with a number.
LEMMA LargestIdIs == ASSUME TrailInv PROVE LargestId \in 0 .. MaxId
<1> DEFINE ids == {t.id : t \in trail}
           Top(n) == \A m \in ids : m <= n
<1>1. ids \in SUBSET (1 .. MaxId)
  BY DEF TrailInv, TrailRow, Ids
<1>2. LargestId = IF ids = {} THEN 0 ELSE CHOOSE n \in ids : Top(n)
  BY DEF LargestId
<1> HIDE DEF ids
<1>3. CASE ids = {}
  BY <1>2, <1>3, Constants
<1>4. CASE ids # {}
  <2>1. \E n \in ids : Top(n)
    <3>1. ids \in SUBSET (0 .. MaxId)
      BY <1>1, Constants
    <3> HIDE DEF Top
    <3> QED BY <1>4, <3>1, LargestExists, Constants DEF Top
  <2> HIDE DEF Top
  <2>2. LargestId \in ids
    BY <1>2, <1>4, <2>1
  <2> QED BY <1>1, <2>2
<1> QED BY <1>3, <1>4

LEMMA OpensIs ==
    ASSUME TrailInv, NEW who, NEW reserved \in {0, 1}, Opens(who, reserved)
    PROVE  /\ owner = "free" /\ owner' = who /\ trail' = trail
           /\ seq' \in 0 .. MaxId /\ (reserved = 1 => seq' > 0)
<1>1. LargestId \in Nat
  BY LargestIdIs, Constants
<1>2. owner = "free" /\ owner' = who /\ trail' = trail /\ seq' = LargestId + reserved /\ seq' < MaxId
  BY DEF Opens
<1> QED BY <1>1, <1>2, Constants

LEMMA FaultIs == ASSUME FilesInv, Fault \/ NoFault PROVE faults' \in 0 .. MaxFaults
  BY Constants DEF FilesInv, Fault, NoFault

\* The registry only grows, and what is new in it is one record.
LEMMA RegisteredIs ==
    ASSUME registry \in Seq(Record), NEW path \in Path, NEW sha \in Content, NEW aid \in Ids,
           registry' = Registered(registry, path, sha, aid)
    PROVE  /\ registry' \in Seq(Record)
           /\ Inputs(registry) \subseteq Inputs(registry')
           /\ \A n \in 1 .. Len(registry') :
                 \/ n \in 1 .. Len(registry) /\ registry'[n] = registry[n]
                 \/ registry'[n] = [path |-> path, sha |-> sha, aid |-> aid]
<1> DEFINE new == [path |-> path, sha |-> sha, aid |-> aid]
<1>1. CASE registry' = registry
  BY <1>1
<1>2. CASE registry' = Append(registry, new)
  <2>1. new \in Record
    BY DEF Record
  <2> HIDE DEF new
  <2>2. /\ registry' \in Seq(Record) /\ Len(registry') = Len(registry) + 1 /\ Len(registry) \in Nat
        /\ \A n \in 1 .. Len(registry) : registry'[n] = registry[n]
        /\ registry'[Len(registry) + 1] = new
    BY <1>2, <2>1, AppendProperties
  <2>3. \A n \in 1 .. Len(registry') : n \in 1 .. Len(registry) \/ n = Len(registry) + 1
    BY <2>2
  <2>4. Inputs(registry) \subseteq Inputs(registry')
    <3>1. \A n \in 1 .. Len(registry) : n \in 1 .. Len(registry')
      BY <2>2
    <3> QED BY <2>2, <3>1 DEF Inputs
  <2>5. \A n \in 1 .. Len(registry') :
           (n \in 1 .. Len(registry) /\ registry'[n] = registry[n]) \/ registry'[n] = new
    BY <2>2, <2>3
  <2> QED BY <2>2, <2>4, <2>5 DEF new
<1> QED BY <1>1, <1>2 DEF Registered

-----------------------------------------------------------------------------
(* What a step leaves alone *)

\* An index command whose record a step leaves alone, and that neither gains nor
\* loses the lock, has as much to answer for as before.
LEMMA AnswersStays ==
    ASSUME IInv, NEW x \in Indexer, ix'[x] = ix[x], Inputs(registry) \subseteq Inputs(registry'),
           owner' = x <=> owner = x, owner = x => UNCHANGED <<seq, db, sealed>>
    PROVE  Answers(x)'
<1>1. Answers(x)
  BY DEF IInv, IndexInv
<1>2. CASE owner = x
  <2>1. seq' = seq /\ db' = db /\ sealed' = sealed
    BY <1>2
  <2> QED BY <1>1, <1>2, <2>1 DEF Answers, Writing, Covers
<1>3. CASE owner # x
  BY <1>1, <1>3 DEF Answers, Writing
<1> QED BY <1>2, <1>3

LEMMA IndexStays ==
    ASSUME IInv, UNCHANGED <<db, manifest, ix, sealed>>, Inputs(registry) \subseteq Inputs(registry'),
           \A x \in Indexer : owner' = x <=> owner = x, owner \in Indexer => seq' = seq
    PROVE  IndexInv' /\ OneBuild' /\ RecordedIsComplete'
<1>1. ix' = ix /\ db' = db /\ sealed' = sealed /\ manifest' = manifest
  OBVIOUS
<1>2. OneBuild' /\ RecordedIsComplete'
  BY <1>1 DEF IInv, OneBuild, RecordedIsComplete
<1>3. \A x \in Indexer : Answers(x)'
  BY <1>1, AnswersStays
<1> QED BY <1>1, <1>2, <1>3 DEF IInv, IndexInv

LEMMA PrepStays ==
    ASSUME IInv, UNCHANGED <<disk, prep>>, trail \subseteq trail',
           owner' = "prepare" <=> owner = "prepare", owner = "prepare" => seq' = seq
    PROVE  PrepInv'
<1>1. Preparing' <=> owner' = "prepare"
  BY DEF IInv, PrepInv, Preparing
<1>2. prep.pc = "emitted" => seq' = seq
  BY DEF IInv, PrepInv, Preparing
<1> QED BY <1>1, <1>2 DEF IInv, PrepInv, Preparing, Extracting

LEMMA TraceStays ==
    ASSUME IInv, registry' = registry, trail \subseteq trail'
    PROVE  PreparedAreTraceable'
  BY DEF IInv, PreparedAreTraceable

LEMMA EmitsIs ==
    ASSUME TrailInv, NEW tool \in {"register", "prepare", "index", "observe"},
           NEW of \in Image \cup {NoImage}, Emits(tool, of)
    PROVE  /\ trail' \subseteq TrailRow /\ trail \subseteq trail'
           /\ [id |-> seq + 1, tool |-> tool, of |-> of] \in trail'
           /\ seq + 1 \in 0 .. MaxId /\ seq + 1 > 0
<1>1. trail' = trail \cup {[id |-> seq + 1, tool |-> tool, of |-> of]} /\ seq < MaxId /\ seq \in 0 .. MaxId
  BY DEF Emits, TrailInv
<1>2. seq + 1 \in Ids /\ seq + 1 \in 0 .. MaxId /\ seq + 1 > 0
  BY <1>1, Constants DEF Ids
<1> QED BY <1>1, <1>2 DEF TrailInv, TrailRow

-----------------------------------------------------------------------------
(* register-evidence and the tool server *)

\* Neither is a command that prepares or indexes.
LEMMA OthersKeep ==
    ASSUME IInv, UNCHANGED <<disk, prep, db, manifest, ix, sealed>>,
           FilesInv', TrailInv', trail \subseteq trail', Inputs(registry) \subseteq Inputs(registry'),
           PreparedAreTraceable',
           owner \in {"free", "register", "server"}, owner' \in {"free", "register", "server"}
    PROVE  IInv'
<1>1. \A x \in Indexer : owner # x /\ owner' # x
  BY Constants
<1>2. owner \notin Indexer
  BY Constants
<1>3. PrepInv'
  BY PrepStays
<1> QED BY <1>1, <1>2, <1>3, IndexStays DEF IInv

LEMMA RegisterKeeps ==
    ASSUME IInv, Register
    PROVE  IInv'
<1> USE Constants
<1>1. CASE RegisterStarts
  <2>1. /\ Opens("register", 1)
        /\ UNCHANGED <<faults, disk, registry, prep, db, manifest, ix, sealed>>
    BY <1>1 DEF RegisterStarts
  <2>2. owner = "free" /\ owner' = "register" /\ trail' = trail /\ seq' \in 0 .. MaxId /\ seq' > 0
    BY <2>1, OpensIs DEF IInv
  <2>3. FilesInv' /\ TrailInv'
    BY <2>1, <2>2 DEF IInv, FilesInv, TrailInv
  <2> QED BY <2>1, <2>2, <2>3, TraceStays, OthersKeep
<1>2. ASSUME NEW i \in Image, RegisterFile(i)
      PROVE  IInv'
  <2> DEFINE sha == <<i, TRUE>>
  <2>1. /\ owner = "register" /\ registry' = Registered(registry, i, sha, seq)
        /\ UNCHANGED <<faults, disk, trail, owner, seq, prep, db, manifest, ix, sealed>>
    BY <1>2 DEF RegisterFile, trailing
  <2>2. i \in Path /\ sha \in Content
    BY DEF Path, Content
  <2>3. seq \in Ids
    BY <2>1 DEF Ids, IInv, TrailInv
  <2> HIDE DEF sha
  <2>4. /\ registry' \in Seq(Record) /\ Inputs(registry) \subseteq Inputs(registry')
        /\ \A n \in 1 .. Len(registry') :
              \/ n \in 1 .. Len(registry) /\ registry'[n] = registry[n]
              \/ registry'[n] = [path |-> i, sha |-> sha, aid |-> seq]
    BY <2>1, <2>2, <2>3, RegisteredIs DEF IInv, FilesInv
  <2>5. i \notin Dir
    OBVIOUS
  <2>6. PreparedAreTraceable'
    BY <2>1, <2>4, <2>5 DEF IInv, PreparedAreTraceable
  <2>7. FilesInv' /\ TrailInv'
    BY <2>1, <2>4 DEF IInv, FilesInv, TrailInv
  <2> QED BY <2>1, <2>4, <2>6, <2>7, OthersKeep
<1>3. CASE RegisterEmits
  <2>1. /\ owner = "register" /\ Emits("register", NoImage) /\ owner' = "free" /\ seq' = 0
        /\ UNCHANGED <<faults, disk, registry, prep, db, manifest, ix, sealed>>
    BY <1>3 DEF RegisterEmits
  <2>2. trail' \subseteq TrailRow /\ trail \subseteq trail'
    BY <2>1, EmitsIs DEF IInv
  <2>3. FilesInv' /\ TrailInv'
    BY <2>1, <2>2 DEF IInv, FilesInv, TrailInv
  <2> QED BY <2>1, <2>2, <2>3, TraceStays, OthersKeep
<1>4. CASE RegisterDies
  <2>1. /\ owner = "register" /\ Fault /\ owner' = "free" /\ seq' = 0 /\ trail' = trail
        /\ UNCHANGED <<disk, registry, prep, db, manifest, ix, sealed>>
    BY <1>4 DEF RegisterDies, Dies, Releases
  <2>2. FilesInv' /\ TrailInv'
    BY <2>1, FaultIs DEF IInv, FilesInv, TrailInv
  <2> QED BY <2>1, <2>2, TraceStays, OthersKeep
<1> QED BY <1>1, <1>2, <1>3, <1>4 DEF Register

LEMMA ServerKeeps ==
    ASSUME IInv, ServerStarts \/ (\E row \in db.rows : Cite(row)) \/ ServerStops
    PROVE  IInv'
<1> USE Constants
<1>1. CASE ServerStarts
  <2>1. /\ Opens("server", 0)
        /\ UNCHANGED <<faults, disk, registry, prep, db, manifest, ix, sealed>>
    BY <1>1 DEF ServerStarts
  <2>2. owner = "free" /\ owner' = "server" /\ trail' = trail /\ seq' \in 0 .. MaxId
    BY <2>1, OpensIs DEF IInv
  <2>3. FilesInv' /\ TrailInv'
    BY <2>1, <2>2 DEF IInv, FilesInv, TrailInv
  <2> QED BY <2>1, <2>2, <2>3, TraceStays, OthersKeep
<1>2. ASSUME NEW row \in db.rows, Cite(row)
      PROVE  IInv'
  <2>1. /\ owner = "server" /\ Emits("observe", NoImage) /\ owner' = owner /\ seq' = seq + 1
        /\ UNCHANGED <<faults, disk, registry, prep, db, manifest, ix, sealed>>
    BY <1>2 DEF Cite
  <2>2. trail' \subseteq TrailRow /\ trail \subseteq trail' /\ seq' \in 0 .. MaxId
    BY <2>1, EmitsIs DEF IInv
  <2>3. FilesInv' /\ TrailInv'
    BY <2>1, <2>2 DEF IInv, FilesInv, TrailInv
  <2> QED BY <2>1, <2>2, <2>3, TraceStays, OthersKeep
<1>3. CASE ServerStops
  <2>1. /\ owner = "server" /\ owner' = "free" /\ seq' = 0 /\ trail' = trail
        /\ UNCHANGED <<faults, disk, registry, prep, db, manifest, ix, sealed>>
    BY <1>3 DEF ServerStops, Releases
  <2>2. FilesInv' /\ TrailInv'
    BY <2>1 DEF IInv, FilesInv, TrailInv
  <2> QED BY <2>1, <2>2, TraceStays, OthersKeep
<1> QED BY <1>1, <1>2, <1>3
-----------------------------------------------------------------------------
(* prepare *)

LEMMA PrepareKeepsOthers ==
    ASSUME IInv, UNCHANGED <<db, manifest, ix, sealed>>,
           FilesInv', TrailInv', PrepInv', Inputs(registry) \subseteq Inputs(registry'),
           PreparedAreTraceable', owner \in {"free", "prepare"} \/ UNCHANGED <<owner, seq>>,
           owner' \in {"free", "prepare"} \/ UNCHANGED <<owner, seq>>
    PROVE  IInv'
<1>1. \A x \in Indexer : owner' = x <=> owner = x
  BY Constants
<1>2. owner \in Indexer => seq' = seq
  BY Constants
<1> QED BY <1>1, <1>2, IndexStays DEF IInv

LEMMA PrepareListsKeeps ==
    ASSUME IInv, PrepareLists
    PROVE  IInv'
<1> DEFINE P == ImagesOf(registry)
           count == Cardinality(P)
<1>1. /\ P # {} /\ UNCHANGED <<faults, disk, registry, trail, owner, seq, db, manifest, ix, sealed>>
      /\ prep.pc = "idle"
  BY DEF PrepareLists, trailing
<1>2. PICK s \in InOrder(P) :
         prep' = [pc |-> "listed", got |-> FALSE, todo |-> [n \in 1 .. count |-> registry[s[n]].path]]
  BY DEF PrepareLists
<1>3. registry \in Seq(Record) /\ Len(registry) \in Nat
  BY DEF IInv, FilesInv
<1>4. IsFiniteSet(P) /\ count \in Nat /\ count # 0
  <2>1. P \in SUBSET (1 .. Len(registry)) /\ IsFiniteSet(1 .. Len(registry))
    BY <1>3, FS_Interval DEF ImagesOf
  <2> HIDE DEF P
  <2>2. IsFiniteSet(P)
    BY <2>1, FS_Subset
  <2> QED BY <1>1, <2>2, FS_CardinalityType, FS_EmptySet
<1>5. \A n \in 1 .. count : registry[s[n]].path \in Image
  BY <1>2 DEF InOrder, ImagesOf
<1> HIDE DEF P, count
<1>6. prep'.todo \in Seq(Image) /\ prep'.todo # <<>>
  <2> DEFINE todo == [n \in 1 .. count |-> registry[s[n]].path]
  <2>1. todo \in [1 .. count -> Image]
    BY <1>5
  <2>2. todo \in Seq(Image) /\ Len(todo) = count
    BY <2>1, <1>4, SeqDef, LenProperties
  <2> HIDE DEF todo
  <2>3. todo # <<>>
    BY <2>2, <1>4
  <2> QED BY <1>2, <2>2, <2>3 DEF todo
<1>7. PrepInv'
  <2>1. prep' \in PrepState /\ prep'.pc = "listed"
    BY <1>2, <1>6 DEF PrepState
  <2> QED BY <1>1, <1>6, <2>1 DEF IInv, PrepInv, Preparing
<1>8. FilesInv' /\ TrailInv'
  BY <1>1 DEF IInv, FilesInv, TrailInv
<1> QED BY <1>1, <1>7, <1>8, TraceStays, PrepareKeepsOthers

LEMMA PrepareStartsKeeps ==
    ASSUME IInv, PrepareStarts
    PROVE  IInv'
<1>1. prep.pc = "listed" /\ UNCHANGED <<faults, disk, registry, db, manifest, ix, sealed>>
  BY DEF PrepareStarts
<1>2. prep \in PrepState /\ prep.todo # <<>> /\ owner # "prepare"
  BY <1>1 DEF IInv, PrepInv, Preparing
<1>3. CASE Opens("prepare", 0) /\ prep' = [prep EXCEPT !.pc = "next"]
  <2>1. owner = "free" /\ owner' = "prepare" /\ trail' = trail /\ seq' \in 0 .. MaxId
    BY <1>3, OpensIs DEF IInv
  <2>2. prep' \in PrepState /\ prep'.pc = "next" /\ prep'.todo = prep.todo
    BY <1>2, <1>3 DEF PrepState
  <2>3. PrepInv'
    BY <1>2, <2>1, <2>2 DEF PrepInv, Preparing
  <2>4. FilesInv' /\ TrailInv'
    BY <1>1, <2>1 DEF IInv, FilesInv, TrailInv
  <2> QED BY <1>1, <2>1, <2>3, <2>4, TraceStays, PrepareKeepsOthers
<1>4. CASE owner # "free" /\ prep' = IdlePrepare /\ UNCHANGED trailing
  <2>1. PrepInv'
    BY <1>2, <1>4, EmptySeq DEF trailing, PrepInv, Preparing, PrepState, IdlePrepare
  <2>2. FilesInv' /\ TrailInv'
    BY <1>1, <1>4 DEF IInv, FilesInv, TrailInv, trailing
  <2> QED BY <1>1, <1>4, <2>1, <2>2, TraceStays, PrepareKeepsOthers DEF trailing
<1> QED BY <1>3, <1>4 DEF PrepareStarts

\* While prepare runs, the lock is its own and there is an image to extract.
LEMMA PreparingIs ==
    ASSUME IInv, Preparing
    PROVE  /\ owner = "prepare" /\ prep \in PrepState
           /\ Head(prep.todo) \in Image /\ Tail(prep.todo) \in Seq(Image)
           /\ Extracting = Stem[Head(prep.todo)] /\ Extracting \in Dir
<1>1. owner = "prepare" /\ prep \in PrepState /\ prep.todo # <<>>
  BY DEF IInv, PrepInv, Preparing
<1>2. prep.todo \in Seq(Image)
  BY <1>1 DEF PrepState
<1>3. Head(prep.todo) \in Image /\ Tail(prep.todo) \in Seq(Image)
  BY <1>1, <1>2, HeadTailProperties
<1> QED BY <1>1, <1>3, Constants DEF Extracting

LEMMA ExtractKeeps ==
    ASSUME IInv, ExtractBegins \/ ExtractEnds
    PROVE  IInv'
<1> DEFINE image == Head(prep.todo)
<1>1. Preparing
  BY DEF ExtractBegins, ExtractEnds, Preparing
<1>2. /\ owner = "prepare" /\ prep \in PrepState /\ image \in Image
      /\ Extracting = Stem[image] /\ Extracting \in Dir /\ prep.todo # <<>>
  BY <1>1, PreparingIs DEF IInv, PrepInv
<1>3. UNCHANGED <<registry, trail, owner, seq, db, manifest, ix, sealed>>
  BY DEF ExtractBegins, ExtractEnds, trailing
<1>4. ASSUME NEW content \in Content \cup {Nothing}, disk' = [disk EXCEPT ![Extracting] = content],
             Fault \/ NoFault, PrepInv'
      PROVE  IInv'
  <2>1. disk' \in [Dir -> Content \cup {Nothing}]
    BY <1>4 DEF IInv, FilesInv
  <2>2. FilesInv' /\ TrailInv'
    BY <1>3, <1>4, <2>1, FaultIs DEF IInv, FilesInv, TrailInv
  <2> QED BY <1>2, <1>3, <1>4, <2>2, TraceStays, PrepareKeepsOthers
<1>5. CASE ExtractBegins
  <2> DEFINE content == <<image, FALSE>>
  <2>1. /\ disk' = [disk EXCEPT ![Extracting] = content]
        /\ prep' = [prep EXCEPT !.pc = "extracting"] /\ NoFault
    BY <1>5 DEF ExtractBegins, NoFault
  <2>2. content \in Content \cup {Nothing}
    BY <1>2 DEF Content
  <2>3. prep' \in PrepState /\ prep'.pc = "extracting" /\ prep'.todo # <<>>
    BY <1>2, <2>1 DEF PrepState
  <2>4. PrepInv'
    BY <1>2, <1>3, <2>3 DEF PrepInv, Preparing
  <2> HIDE DEF content
  <2> QED BY <1>4, <2>1, <2>2, <2>4
<1>6. CASE ExtractEnds
  <2>1. PICK content \in {<<image, TRUE>>, <<image, FALSE>>, Nothing} :
           /\ disk' = [disk EXCEPT ![Extracting] = content]
           /\ prep' = [prep EXCEPT !.pc = "extracted", !.got = content # Nothing]
           /\ Fault \/ NoFault
    BY <1>6 DEF ExtractEnds
  <2>2. content \in Content \cup {Nothing} /\ (content # Nothing => content[1] = image)
    <3>1. <<image, TRUE>> \in Content /\ <<image, FALSE>> \in Content
      BY <1>2 DEF Content
    <3>2. <<image, TRUE>>[1] = image /\ <<image, FALSE>>[1] = image
      OBVIOUS
    <3> HIDE DEF image
    <3> QED BY <2>1, <3>1, <3>2
  <2>3. /\ prep'.pc = "extracted" /\ prep'.todo = prep.todo /\ prep'.got = (content # Nothing)
        /\ prep' \in PrepState
    BY <1>2, <2>1 DEF PrepState
  <2>4. Extracting' = Extracting
    BY <2>3 DEF Extracting
  <2>5. disk'[Extracting] = content
    BY <1>2, <2>1 DEF IInv, FilesInv
  <2>6. PrepInv'
    BY <1>2, <1>3, <2>2, <2>3, <2>4, <2>5 DEF PrepInv, Preparing
  <2> QED BY <1>4, <2>1, <2>2, <2>6
<1> QED BY <1>5, <1>6

LEMMA PrepareEmitsKeeps ==
    ASSUME IInv, PrepareEmits
    PROVE  IInv'
<1>1. /\ prep.pc = "extracted" /\ Emits("prepare", Head(prep.todo)) /\ owner' = owner
      /\ seq' = seq + 1 /\ prep' = [prep EXCEPT !.pc = "emitted"]
      /\ UNCHANGED <<faults, disk, registry, db, manifest, ix, sealed>>
  BY DEF PrepareEmits
<1>2. Preparing
  BY <1>1 DEF Preparing
<1>3. owner = "prepare" /\ prep \in PrepState /\ Head(prep.todo) \in Image
  BY <1>2, PreparingIs
<1>4. /\ trail' \subseteq TrailRow /\ trail \subseteq trail'
      /\ [id |-> seq', tool |-> "prepare", of |-> Head(prep.todo)] \in trail'
      /\ seq' \in 0 .. MaxId /\ seq' > 0
  BY <1>1, <1>3, EmitsIs DEF IInv
<1>5. prep' \in PrepState /\ prep'.pc = "emitted" /\ prep'.todo = prep.todo /\ prep'.got = prep.got
  BY <1>1, <1>3 DEF PrepState
<1>6. PrepInv'
  BY <1>1, <1>3, <1>4, <1>5 DEF IInv, PrepInv, Preparing, Extracting
<1>7. FilesInv' /\ TrailInv'
  BY <1>1, <1>4 DEF IInv, FilesInv, TrailInv
<1> QED BY <1>1, <1>3, <1>4, <1>6, <1>7, TraceStays, PrepareKeepsOthers

\* What prepare registers is what it has just extracted, under the id of the row
\* it has just written.
LEMMA PrepareRegistersKeeps ==
    ASSUME IInv, PrepareRegisters
    PROVE  IInv'
<1> DEFINE image == Head(prep.todo)
           sha == disk[Extracting]
<1>1. prep.pc = "emitted" /\ UNCHANGED <<trail, faults, disk, db, manifest, ix, sealed>>
  BY DEF PrepareRegisters, Releases, trailing
<1>2. Preparing
  BY <1>1 DEF Preparing
<1>3. /\ owner = "prepare" /\ prep \in PrepState /\ image \in Image
      /\ Tail(prep.todo) \in Seq(Image) /\ Extracting \in Dir
  BY <1>2, PreparingIs
<1>4. seq \in Ids /\ [id |-> seq, tool |-> "prepare", of |-> image] \in trail
  BY <1>1, Constants DEF IInv, TrailInv, PrepInv, Ids
<1>5. prep.got => sha \in Content /\ sha[1] = image
  <2>1. prep.got => sha[1] = image
    BY <1>1 DEF IInv, PrepInv
  <2>2. sha \in Content \cup {Nothing}
    BY <1>3 DEF IInv, FilesInv
  <2>3. Nothing[1] = NoImage
    BY DEF Nothing
  <2> QED BY <1>3, <2>1, <2>2, <2>3, Constants
<1> HIDE DEF sha
<1>6. /\ registry' \in Seq(Record) /\ Inputs(registry) \subseteq Inputs(registry')
      /\ PreparedAreTraceable'
  <2>1. CASE registry' = registry
    BY <1>1, <2>1, TraceStays DEF IInv, FilesInv
  <2>2. CASE prep.got /\ registry' = Registered(registry, Extracting, sha, PreparedId)
    <3>1. sha \in Content /\ sha[1] = image /\ Extracting \in Path
      BY <1>3, <1>5, <2>2 DEF Path
    <3>2. /\ registry' \in Seq(Record) /\ Inputs(registry) \subseteq Inputs(registry')
          /\ \A n \in 1 .. Len(registry') :
                \/ n \in 1 .. Len(registry) /\ registry'[n] = registry[n]
                \/ registry'[n] = [path |-> Extracting, sha |-> sha, aid |-> seq]
      BY <1>4, <2>2, <3>1, RegisteredIs DEF IInv, FilesInv, PreparedId
    <3>3. PreparedAreTraceable'
      BY <1>1, <1>4, <3>1, <3>2 DEF IInv, PreparedAreTraceable
    <3> QED BY <3>2, <3>3
  <2> QED BY <2>1, <2>2 DEF PrepareRegisters, sha
<1>7. \/ prep' = IdlePrepare /\ owner' = "free" /\ seq' = 0
      \/ /\ Tail(prep.todo) # <<>> /\ UNCHANGED <<owner, seq>>
         /\ prep' = [pc |-> "next", todo |-> Tail(prep.todo), got |-> FALSE]
  BY DEF PrepareRegisters, Releases, trailing
<1>8. PrepInv'
  <2>1. prep' \in PrepState
    <3>1. IdlePrepare \in PrepState
      BY EmptySeq DEF PrepState, IdlePrepare
    <3>2. [pc |-> "next", todo |-> Tail(prep.todo), got |-> FALSE] \in PrepState
      BY <1>3 DEF PrepState
    <3> QED BY <1>7, <3>1, <3>2
  <2> QED BY <1>3, <1>7, <2>1 DEF PrepInv, Preparing, IdlePrepare
<1>9. FilesInv' /\ TrailInv'
  BY <1>1, <1>6, <1>7, Constants DEF IInv, FilesInv, TrailInv
<1> QED BY <1>1, <1>3, <1>6, <1>7, <1>8, <1>9, PrepareKeepsOthers

LEMMA PrepareKeeps ==
    ASSUME IInv, Prepare
    PROVE  IInv'
<1>1. CASE PrepareDies
  <2>1. /\ owner = "prepare" /\ Fault /\ owner' = "free" /\ seq' = 0 /\ trail' = trail
        /\ prep' = IdlePrepare /\ UNCHANGED <<disk, registry, db, manifest, ix, sealed>>
    BY <1>1 DEF PrepareDies, Dies, Releases
  <2>2. PrepInv'
    BY <2>1, EmptySeq DEF PrepInv, Preparing, PrepState, IdlePrepare
  <2>3. FilesInv' /\ TrailInv'
    BY <2>1, FaultIs, Constants DEF IInv, FilesInv, TrailInv
  <2> QED BY <2>1, <2>2, <2>3, TraceStays, PrepareKeepsOthers
<1> QED
  BY <1>1, PrepareListsKeeps, PrepareStartsKeeps, ExtractKeeps, PrepareEmitsKeeps,
     PrepareRegistersKeeps DEF Prepare
-----------------------------------------------------------------------------
(* index *)

\* What is left to show of a step of one index command: its own record, the
\* rows and the manifest.  Where it changes the database, it holds the lock.
LEMMA IndexStep ==
    ASSUME IInv, NEW x \in Indexer, NEW st \in IxState, ix' = [ix EXCEPT ![x] = st],
           UNCHANGED <<disk, registry, prep>>, FilesInv', TrailInv', trail \subseteq trail',
           \/ UNCHANGED <<owner, seq, db, sealed>>
           \/ owner \in {"free", x} /\ owner' \in {"free", x},
           Answers(x)', OneBuild', RecordedIsComplete'
    PROVE  IInv'
<1>1. ix \in [Indexer -> IxState]
  BY DEF IInv, IndexInv
<1>2. ix' \in [Indexer -> IxState] /\ \A y \in Indexer : y # x => ix'[y] = ix[y]
  BY <1>1
<1>3. \A y \in Indexer : y # x => Answers(y)'
  <2> SUFFICES ASSUME NEW y \in Indexer, y # x PROVE Answers(y)'
    OBVIOUS
  <2>1. (owner' = y <=> owner = y) /\ (owner = y => UNCHANGED <<seq, db, sealed>>)
    BY Constants
  <2> QED BY <1>2, <2>1, AnswersStays
<1>4. IndexInv'
  BY <1>2, <1>3 DEF IndexInv
<1>5. PrepInv'
  <2>1. (owner' = "prepare" <=> owner = "prepare") /\ (owner = "prepare" => seq' = seq)
    BY Constants
  <2> QED BY <2>1, PrepStays
<1> QED BY <1>4, <1>5, TraceStays DEF IInv

\* A step that touches neither lock nor files, of a command that does not write.
LEMMA WaitingStep ==
    ASSUME IInv, NEW x \in Indexer, NEW st \in IxState, ix' = [ix EXCEPT ![x] = st],
           UNCHANGED <<faults, disk, registry, trail, owner, seq, prep, db, manifest, sealed>>,
           ix[x].pc \in {"idle", "listed", "wants"}, st.pc \in {"idle", "listed", "wants"},
           st.listed \subseteq Inputs(registry), st.pc # "idle" => st.profile \in Profile
    PROVE  IInv'
<1>1. ix'[x] = st
  BY DEF IInv, IndexInv
<1>2. owner # x
  BY DEF IInv, IndexInv, Answers, Writing
<1>3. Answers(x)'
  BY <1>1, <1>2 DEF Answers, Writing
<1>4. OneBuild' /\ RecordedIsComplete'
  BY DEF IInv, OneBuild, RecordedIsComplete
<1>5. FilesInv' /\ TrailInv'
  BY DEF IInv, FilesInv, TrailInv
<1> QED BY <1>3, <1>4, <1>5, IndexStep

LEMMA IdleIs == IdleIndex \in IxState /\ IdleIndex.pc = "idle" /\ IdleIndex.listed = {}
  BY DEF IdleIndex, IxState

\* What was registered can be a fingerprint's input.
LEMMA InputsAre == ASSUME registry \in Seq(Record) PROVE Inputs(registry) \subseteq Input
<1>1. \A n \in 1 .. Len(registry) : registry[n] \in Record
  OBVIOUS
<1> QED BY <1>1 DEF Inputs, Input, Record

LEMMA WaitingKeeps ==
    ASSUME IInv, NEW x \in Indexer, IndexLists(x) \/ IndexChecks(x) \/ IndexRefused(x)
    PROVE  IInv'
<1>1. UNCHANGED <<faults, disk, registry, trail, owner, seq, prep, db, manifest, sealed>>
  BY DEF IndexLists, IndexChecks, IndexRefused, trailing
<1>2. ix \in [Indexer -> IxState] /\ ix[x] \in IxState /\ Answers(x)
  BY DEF IInv, IndexInv
<1>3. CASE IndexLists(x)
  <2>1. PICK p \in Profile :
           ix' = [ix EXCEPT ![x] = [IdleIndex EXCEPT !.pc = "listed", !.listed = Inputs(registry),
                                                     !.profile = p]]
    BY <1>3 DEF IndexLists
  <2> DEFINE st == [IdleIndex EXCEPT !.pc = "listed", !.listed = Inputs(registry), !.profile = p]
  <2>2. Inputs(registry) \in SUBSET Input
    BY InputsAre DEF IInv, FilesInv
  <2>3. /\ st \in IxState /\ st.pc = "listed" /\ st.listed = Inputs(registry)
        /\ st.profile \in Profile
    BY <2>2, Constants DEF IdleIndex, IxState
  <2>4. ix[x].pc = "idle"
    BY <1>3 DEF IndexLists
  <2> HIDE DEF st
  <2> QED BY <1>1, <2>1, <2>3, <2>4, WaitingStep DEF st
<1>4. CASE IndexChecks(x)
  <2>1. PICK force \in Forced :
           ix' = [ix EXCEPT ![x] = IF ~force /\ Current(ix[x].listed, ix[x].profile)
                                   THEN IdleIndex ELSE [@ EXCEPT !.pc = "wants"]]
    BY <1>4 DEF IndexChecks
  <2>2. ix[x].pc = "listed"
    BY <1>4 DEF IndexChecks
  <2>3. CASE ix' = [ix EXCEPT ![x] = IdleIndex]
    BY <1>1, <2>2, <2>3, IdleIs, WaitingStep
  <2>4. CASE ix' = [ix EXCEPT ![x] = [@ EXCEPT !.pc = "wants"]]
    <3> DEFINE st == [ix[x] EXCEPT !.pc = "wants"]
    <3>1. /\ st \in IxState /\ st.pc = "wants" /\ st.listed = ix[x].listed
          /\ st.profile = ix[x].profile
      BY <1>2 DEF IxState
    <3>2. ix' = [ix EXCEPT ![x] = st]
      BY <2>4
    <3>3. ix[x].listed \subseteq Inputs(registry) /\ ix[x].profile \in Profile
      BY <1>2, <2>2 DEF Answers
    <3> HIDE DEF st
    <3> QED BY <1>1, <2>2, <3>1, <3>2, <3>3, WaitingStep
  <2> QED BY <2>1, <2>3, <2>4
<1>5. CASE IndexRefused(x)
  <2>1. ix' = [ix EXCEPT ![x] = IdleIndex] /\ ix[x].pc = "wants"
    BY <1>5 DEF IndexRefused
  <2> QED BY <1>1, <2>1, IdleIs, WaitingStep
<1> QED BY <1>3, <1>4, <1>5

\* The work covers the earlier listing: what was registered then still is, so its
\* artifacts are read again from the registry, and its images are taken over.
LEMMA WorkCovers ==
    ASSUME IInv, NEW listed \in SUBSET Input, listed \subseteq Inputs(registry), NEW profile
    PROVE  LET todo == Wanted(Inputs(registry), "targeted") \cup (Wanted(listed, profile) \cap Image)
           IN todo \subseteq Path /\ Wanted(listed, profile) \subseteq todo
<1>1. Inputs(registry) \subseteq Input
  BY InputsAre DEF IInv, FilesInv
<1>2. PathsOf(listed) \subseteq PathsOf(Inputs(registry)) /\ PathsOf(Inputs(registry)) \subseteq Path
  BY <1>1 DEF PathsOf, Input
<1>3. \A p \in Wanted(listed, profile) : p \in Dir \/ p \in Image
  BY <1>2 DEF Wanted, Path
<1> QED BY <1>2, <1>3 DEF Wanted

LEMMA IndexStartsKeeps ==
    ASSUME IInv, NEW x \in Indexer, IndexStarts(x)
    PROVE  IInv'
<1> DEFINE todo == Wanted(Inputs(registry), "targeted")
                   \cup (Wanted(ix[x].listed, ix[x].profile) \cap Image)
           st == [ix[x] EXCEPT !.pc = "building", !.failed = {}, !.todo = todo]
<1>1. /\ ix[x].pc = "wants" /\ Opens(x, 1) /\ db' = FreshDatabase /\ sealed' = FALSE
      /\ UNCHANGED <<faults, disk, registry, prep, manifest>>
  BY DEF IndexStarts
<1>2. ix \in [Indexer -> IxState] /\ ix[x] \in IxState /\ Answers(x)
  BY DEF IInv, IndexInv
<1>3. ix' = [ix EXCEPT ![x] = st]
  BY <1>2 DEF IndexStarts
<1>4. owner = "free" /\ owner' = x /\ trail' = trail /\ seq' \in 0 .. MaxId /\ seq' > 0
  BY <1>1, OpensIs DEF IInv
<1>5. todo \subseteq Path /\ Wanted(ix[x].listed, ix[x].profile) \subseteq todo
  BY <1>2, WorkCovers DEF Answers, IxState
<1> HIDE DEF todo
<1>6. /\ st \in IxState /\ st.pc = "building" /\ st.listed = ix[x].listed
      /\ st.profile = ix[x].profile /\ st.todo = todo /\ st.failed = {}
  BY <1>2, <1>5 DEF IxState
<1> HIDE DEF st
<1>7. db' \in Database /\ db'.rows = {}
  BY <1>1 DEF FreshDatabase, Database
<1>8. ix'[x] = st
  BY <1>2, <1>3
<1>9. Answers(x)'
  BY <1>1, <1>2, <1>4, <1>5, <1>6, <1>7, <1>8 DEF Answers, Writing, Covers
<1>10. OneBuild' /\ RecordedIsComplete'
  BY <1>1, <1>7 DEF OneBuild, RecordedIsComplete
<1>11. FilesInv' /\ TrailInv'
  BY <1>1, <1>4, <1>7, Constants DEF IInv, FilesInv, TrailInv
<1> QED BY <1>1, <1>3, <1>4, <1>6, <1>9, <1>10, <1>11, IndexStep

\* What can be parsed is the content of an image or of an artifact.
LEMMA ContentIs ==
    ASSUME FilesInv, NEW p \in Path, ContentOf(p) # Nothing
    PROVE  ContentOf(p) \in Content
<1>1. CASE p \in Image
  <2>1. <<p, TRUE>> \in Content
    BY <1>1 DEF Content
  <2> QED BY <1>1, <2>1 DEF ContentOf
<1>2. CASE p \notin Image
  BY <1>2 DEF ContentOf, FilesInv, Path
<1> QED BY <1>1, <1>2

\* An artifact leaves the work by its rows or by a recorded failure; it has no rows yet.
LEMMA IngestKeeps ==
    ASSUME IInv, NEW x \in Indexer, NEW p \in Path, Ingest(x, p)
    PROVE  IInv'
<1> DEFINE row == [path |-> p, content |-> ContentOf(p), aid |-> seq]
<1>1. /\ ix[x].pc = "building" /\ p \in ix[x].todo
      /\ UNCHANGED <<disk, registry, trail, owner, seq, prep, manifest, sealed>>
  BY DEF Ingest, trailing
<1>2. /\ ix \in [Indexer -> IxState] /\ ix[x] \in IxState /\ Answers(x) /\ db \in Database
      /\ OneBuild
  BY DEF IInv, IndexInv, FilesInv
<1>3. /\ owner = x /\ ~sealed /\ seq > 0
      /\ \A r \in db.rows : r.aid = seq /\ r.path \notin ix[x].todo
      /\ Covers(ix[x].listed, ix[x].profile, ix[x].failed \cup ix[x].todo)
  BY <1>1, <1>2 DEF Answers, Writing
<1>4. RecordedIsComplete' /\ TrailInv'
  BY <1>1, <1>3 DEF RecordedIsComplete, IInv, TrailInv
<1>5. CASE /\ ContentOf(p) # Nothing /\ NoFault
           /\ db' = [db EXCEPT !.rows = @ \cup {row}]
           /\ ix' = [ix EXCEPT ![x].todo = @ \ {p}]
  <2> DEFINE st == [ix[x] EXCEPT !.todo = @ \ {p}]
  <2>1. /\ st \in IxState /\ st.pc = "building" /\ st.listed = ix[x].listed
        /\ st.profile = ix[x].profile /\ st.todo = ix[x].todo \ {p} /\ st.failed = ix[x].failed
    BY <1>1, <1>2 DEF IxState
  <2>2. ix' = [ix EXCEPT ![x] = st] /\ ix'[x] = st
    BY <1>2, <1>5
  <2>3. row \in [path : Path, content : Content, aid : Ids]
    <3>1. ContentOf(p) \in Content
      BY <1>5, ContentIs DEF IInv
    <3>2. seq \in Ids
      BY <1>3, Constants DEF IInv, TrailInv, Ids
    <3> QED BY <3>1, <3>2
  <2>4. row.path = p /\ row.aid = seq
    OBVIOUS
  <2> HIDE DEF st, row
  <2>5. db' \in Database /\ db'.rows = db.rows \cup {row}
    BY <1>2, <1>5, <2>3 DEF Database
  <2>6. OneBuild'
    BY <1>1, <1>2, <1>3, <2>4, <2>5 DEF OneBuild
  <2>7. Wanted(st.listed, st.profile)
           \subseteq {r.path : r \in db'.rows} \cup (st.failed \cup st.todo)
    BY <1>1, <1>3, <2>1, <2>4, <2>5 DEF Covers
  <2>8. Answers(x)'
    BY <1>1, <1>2, <1>3, <2>1, <2>2, <2>4, <2>5, <2>7 DEF Answers, Writing, Covers
  <2>9. FilesInv'
    BY <1>1, <1>5, <2>5, FaultIs DEF IInv, FilesInv
  <2> QED BY <1>1, <1>3, <1>4, <2>1, <2>2, <2>6, <2>8, <2>9, IndexStep
<1>6. CASE /\ Fault \/ NoFault
           /\ db' = db
           /\ ix' = [ix EXCEPT ![x].todo = @ \ {p}, ![x].failed = @ \cup {p}]
  <2> DEFINE st == [ix[x] EXCEPT !.todo = @ \ {p}, !.failed = @ \cup {p}]
  <2>1. /\ st \in IxState /\ st.pc = "building" /\ st.listed = ix[x].listed
        /\ st.profile = ix[x].profile /\ st.todo = ix[x].todo \ {p}
        /\ st.failed = ix[x].failed \cup {p}
    BY <1>1, <1>2 DEF IxState
  <2>2. ix' = [ix EXCEPT ![x] = st] /\ ix'[x] = st
    BY <1>2, <1>6
  <2> HIDE DEF st
  <2>3. OneBuild'
    BY <1>2, <1>6 DEF OneBuild
  <2>4. Wanted(st.listed, st.profile)
           \subseteq {r.path : r \in db'.rows} \cup (st.failed \cup st.todo)
    BY <1>1, <1>3, <1>6, <2>1 DEF Covers
  <2>5. Answers(x)'
    BY <1>1, <1>2, <1>3, <1>6, <2>1, <2>2, <2>4 DEF Answers, Writing, Covers
  <2>6. FilesInv'
    BY <1>1, <1>6, FaultIs DEF IInv, FilesInv
  <2> QED BY <1>1, <1>3, <1>4, <2>1, <2>2, <2>3, <2>5, <2>6, IndexStep
<1> QED BY <1>5, <1>6 DEF Ingest

LEMMA RebuildFtsKeeps ==
    ASSUME IInv, NEW x \in Indexer, RebuildFts(x)
    PROVE  IInv'
<1> DEFINE st == [ix[x] EXCEPT !.pc = "built"]
<1>1. /\ ix[x].pc = "building" /\ ix[x].todo = {} /\ db' = [db EXCEPT !.state = "closed", !.fts = TRUE]
      /\ UNCHANGED <<faults, disk, registry, trail, owner, seq, prep, manifest, sealed>>
  BY DEF RebuildFts, trailing
<1>2. /\ ix \in [Indexer -> IxState] /\ ix[x] \in IxState /\ Answers(x) /\ db \in Database
      /\ OneBuild
  BY DEF IInv, IndexInv, FilesInv
<1>3. owner = x /\ ~sealed /\ Covers(ix[x].listed, ix[x].profile, ix[x].failed)
  BY <1>1, <1>2 DEF Answers, Writing
<1>4. /\ st \in IxState /\ st.pc = "built" /\ st.listed = ix[x].listed
      /\ st.profile = ix[x].profile /\ st.failed = ix[x].failed
  BY <1>2 DEF IxState
<1>5. ix' = [ix EXCEPT ![x] = st] /\ ix'[x] = st
  BY <1>2 DEF RebuildFts
<1> HIDE DEF st
<1>6. db' \in Database /\ db'.rows = db.rows /\ db'.fts = TRUE
  BY <1>1, <1>2 DEF Database
<1>7. Answers(x)'
  BY <1>1, <1>2, <1>3, <1>4, <1>5, <1>6 DEF Answers, Writing, Covers
<1>8. OneBuild' /\ RecordedIsComplete'
  BY <1>1, <1>2, <1>3, <1>6 DEF OneBuild, RecordedIsComplete
<1>9. FilesInv' /\ TrailInv'
  BY <1>1, <1>6 DEF IInv, FilesInv, TrailInv
<1> QED BY <1>1, <1>3, <1>4, <1>5, <1>7, <1>8, <1>9, IndexStep

LEMMA WriteManifestKeeps ==
    ASSUME IInv, NEW x \in Indexer, WriteManifest(x)
    PROVE  IInv'
<1> DEFINE st == [ix[x] EXCEPT !.pc = "recorded"]
<1>1. /\ ix[x].pc = "built" /\ sealed' = TRUE
      /\ manifest' = [inputs |-> ix[x].listed, profile |-> ix[x].profile, failed |-> ix[x].failed]
      /\ UNCHANGED <<faults, disk, registry, trail, owner, seq, prep, db>>
  BY DEF WriteManifest, Fingerprint, trailing
<1>2. ix \in [Indexer -> IxState] /\ ix[x] \in IxState /\ Answers(x) /\ OneBuild
  BY DEF IInv, IndexInv
<1>3. /\ owner = x /\ db.fts /\ Covers(ix[x].listed, ix[x].profile, ix[x].failed)
      /\ ix[x].profile \in Profile
  BY <1>1, <1>2 DEF Answers, Writing
<1>4. /\ st \in IxState /\ st.pc = "recorded" /\ st.listed = ix[x].listed
      /\ st.profile = ix[x].profile
  BY <1>2 DEF IxState
<1>5. ix' = [ix EXCEPT ![x] = st] /\ ix'[x] = st
  BY <1>2 DEF WriteManifest
<1> HIDE DEF st
<1>6. Answers(x)'
  BY <1>1, <1>2, <1>3, <1>4, <1>5 DEF Answers, Writing
<1>7. OneBuild' /\ RecordedIsComplete'
  BY <1>1, <1>2, <1>3 DEF OneBuild, RecordedIsComplete, Covers
<1>8. manifest' \in Manifest
  BY <1>1, <1>2, <1>3 DEF Manifest, IxState
<1>9. FilesInv' /\ TrailInv'
  BY <1>1, <1>8 DEF IInv, FilesInv, TrailInv
<1> QED BY <1>1, <1>3, <1>4, <1>5, <1>6, <1>7, <1>9, IndexStep

\* A command that ends, or is killed, leaves rows and manifest as they are.
LEMMA IndexEndsKeeps ==
    ASSUME IInv, NEW x \in Indexer, IndexEmits(x) \/ IndexDies(x)
    PROVE  IInv'
<1>1. /\ ix' = [ix EXCEPT ![x] = IdleIndex] /\ owner' = "free" /\ seq' = 0
      /\ UNCHANGED <<disk, registry, prep, manifest, sealed>>
  BY DEF IndexEmits, IndexDies, Dies, Releases
<1>2. ix \in [Indexer -> IxState] /\ Answers(x) /\ OneBuild /\ RecordedIsComplete /\ db \in Database
  BY DEF IInv, IndexInv, FilesInv
<1>3. owner = x
  BY <1>2 DEF IndexEmits, IndexDies, Answers, Writing
<1>4. trail' \subseteq TrailRow /\ trail \subseteq trail' /\ faults' \in 0 .. MaxFaults
  <2>1. CASE IndexEmits(x)
    BY <2>1, EmitsIs DEF IndexEmits, IInv, FilesInv
  <2>2. CASE IndexDies(x)
    BY <2>2, FaultIs DEF IndexDies, Dies, Releases, IInv, TrailInv
  <2> QED BY <2>1, <2>2
<1>5. db' \in Database /\ db'.rows = db.rows /\ db'.fts = db.fts
  <2>1. CASE db' = db
    BY <1>2, <2>1
  <2>2. ASSUME NEW s \in {"closed", "broken"}, db' = [db EXCEPT !.state = s]
        PROVE  db' \in Database /\ db'.rows = db.rows /\ db'.fts = db.fts
    BY <1>2, <2>2 DEF Database
  <2> QED BY <2>1, <2>2 DEF IndexEmits, IndexDies
<1>6. ix'[x] = IdleIndex
  BY <1>1, <1>2
<1>7. Answers(x)'
  <2>1. owner' # x
    BY <1>1, Constants
  <2> QED BY <1>6, <2>1, IdleIs DEF Answers, Writing
<1>8. OneBuild' /\ RecordedIsComplete'
  BY <1>1, <1>2, <1>5 DEF OneBuild, RecordedIsComplete
<1>9. FilesInv' /\ TrailInv'
  BY <1>1, <1>4, <1>5, Constants DEF IInv, FilesInv, TrailInv
<1> QED BY <1>1, <1>3, <1>4, <1>7, <1>8, <1>9, IdleIs, IndexStep

LEMMA IndexKeeps ==
    ASSUME IInv, NEW x \in Indexer, Index(x)
    PROVE  IInv'
  BY WaitingKeeps, IndexStartsKeeps, IngestKeeps, RebuildFtsKeeps, WriteManifestKeeps,
     IndexEndsKeeps DEF Index

-----------------------------------------------------------------------------
(* The theorems *)

LEMMA InitHolds == ASSUME Init PROVE IInv
<1> USE DEF Init
<1>1. FilesInv
  <2>1. db \in Database /\ manifest \in Manifest
    BY DEF Database, Manifest, NoManifest
  <2>2. disk \in [Dir -> Content \cup {Nothing}]
    OBVIOUS
  <2>3. registry \in Seq(Record)
    BY EmptySeq
  <2>4. faults \in 0 .. MaxFaults
    BY Constants
  <2>5. sealed \in BOOLEAN
    OBVIOUS
  <2> HIDE DEF Init
  <2> QED BY <2>1, <2>2, <2>3, <2>4, <2>5 DEF FilesInv
<1>2. TrailInv
  BY Constants DEF TrailInv
<1>3. PrepInv
  BY EmptySeq DEF PrepInv, PrepState, Preparing, IdlePrepare
<1>4. IndexInv
  BY IdleIs, Constants DEF IndexInv, Answers, Writing
<1>5. OneBuild /\ PreparedAreTraceable /\ RecordedIsComplete
  BY DEF OneBuild, PreparedAreTraceable, RecordedIsComplete
<1> QED BY <1>1, <1>2, <1>3, <1>4, <1>5 DEF IInv

LEMMA StepHolds == ASSUME IInv, [Next]_vars PROVE IInv'
<1>1. CASE UNCHANGED vars
  <2>1. UNCHANGED <<disk, registry, trail, owner, seq, faults, prep, db, manifest, ix, sealed>>
    BY <1>1 DEF vars, trailing
  <2>2. FilesInv' /\ TrailInv'
    BY <2>1 DEF IInv, FilesInv, TrailInv
  <2> QED BY <2>1, <2>2, TraceStays, PrepStays, IndexStays DEF IInv
<1> QED BY <1>1, RegisterKeeps, PrepareKeeps, IndexKeeps, ServerKeeps DEF Next

LEMMA InvariantHolds == Spec => []IInv
<1>1. Init => IInv
  BY InitHolds
<1>2. IInv /\ [Next]_vars => IInv'
  BY StepHolds
<1> QED BY <1>1, <1>2, PTL DEF Spec

\* The state keeps the shape the code gives it.
THEOREM TypeCorrect == Spec => []TypeOK
<1>1. IInv => TypeOK
  <2> SUFFICES ASSUME IInv PROVE TypeOK
    OBVIOUS
  <2>1. /\ disk \in [Dir -> Content \cup {Nothing}] /\ db \in Database /\ manifest \in Manifest
        /\ registry \in Seq([path : Path, sha : Content, aid : Ids])
        /\ faults \in 0 .. MaxFaults /\ sealed \in BOOLEAN
    BY DEF IInv, FilesInv, Record
  <2>2. \A x \in Indexer : ix[x] \in IxState
    BY DEF IInv, IndexInv
  <2>3. prep \in PrepState
    BY DEF IInv, PrepInv
  <2>4. /\ trail \subseteq TrailRow /\ seq \in 0 .. MaxId
        /\ owner \in {"free", "register", "prepare", "server"} \cup Indexer
    BY DEF IInv, TrailInv
  <2> QED BY <2>1, <2>2, <2>3, <2>4 DEF TypeOK, Database, Manifest, IxState, PrepState, TrailRow
<1> QED BY <1>1, InvariantHolds, PTL

\* ingest.py removes the index files under the lock and stamps every row with one
\* reserved id: whatever index commands run and wherever one is killed, the rows of
\* index.db are those of one build.
THEOREM RowsAreOfOneBuild == Spec => []OneBuild
<1>1. IInv => OneBuild
  BY DEF IInv
<1> QED BY <1>1, InvariantHolds, PTL

\* prepare registers an artifact under the id of the audit row it has just written
\* for the artifact's image, so a prepared artifact leads back to its image.
THEOREM ArtifactsAreTraceable == Spec => []PreparedAreTraceable
<1>1. IInv => PreparedAreTraceable
  BY DEF IInv
<1> QED BY <1>1, InvariantHolds, PTL

\* The manifest is written last, by the holder of the lock: what it covers has its
\* rows in the searchable index or is among the recorded failures.
THEOREM ManifestsAreKept == Spec => []RecordedIsComplete
<1>1. IInv => RecordedIsComplete
  BY DEF IInv
<1> QED BY <1>1, InvariantHolds, PTL

\* Only an index command that holds the lock, or is taking it, touches index.db: under
\* the tool server of an investigation the database stays as it is.
THEOREM IndexIsStable == Spec => StableWhileServing
<1>1. ASSUME IInv, [Next]_vars, owner = "server"
      PROVE  db' = db
  <2>1. \A x \in Indexer : owner # x /\ ~Writing(x)
    BY <1>1, Constants DEF IInv, IndexInv, Answers
  <2>2. CASE UNCHANGED vars
    BY <2>2 DEF vars
  <2>3. CASE Register
    BY <2>3 DEF Register, RegisterStarts, RegisterFile, RegisterEmits, RegisterDies
  <2>4. CASE Prepare
    BY <2>4 DEF Prepare, PrepareLists, PrepareStarts, ExtractBegins, ExtractEnds, PrepareEmits,
                PrepareRegisters, PrepareDies
  <2>5. ASSUME NEW x \in Indexer, Index(x)
        PROVE  db' = db
    <3>1. ~IndexStarts(x)
      BY <1>1 DEF IndexStarts, Opens
    <3>2. \A p \in Path : ~Ingest(x, p)
      BY <2>1 DEF Ingest, Writing
    <3>3. ~RebuildFts(x) /\ ~IndexDies(x)
      BY <2>1 DEF RebuildFts, IndexDies, Writing
    <3> QED BY <2>5, <3>1, <3>2, <3>3
            DEF Index, IndexLists, IndexChecks, IndexRefused, WriteManifest, IndexEmits
  <2>6. CASE ServerStarts \/ (\E row \in db.rows : Cite(row)) \/ ServerStops
    BY <2>6 DEF ServerStarts, Cite, ServerStops
  <2> QED BY <1>1, <2>2, <2>3, <2>4, <2>5, <2>6 DEF Next
<1>2. IInv /\ [Next]_vars => [owner = "server" => db' = db]_vars
  BY <1>1
<1> QED BY <1>2, InvariantHolds, PTL DEF Spec, StableWhileServing
=============================================================================
