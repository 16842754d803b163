-------------------------- MODULE EvidencePipeline --------------------------
(* From a disk image to a citation: register-evidence, prepare and index,    *)
(* and the tool server whose observations cite rows of the index.  Each is a *)
(* process of its own; what they share is the case directory: evidence.json, *)
(* prepared/, index.db with its freshness manifest, and the audit trail,     *)
(* whose lock a command holds while it writes.                               *)
(*                                                                           *)
(* A path is an image or a directory of prepared/, which stands for the one  *)
(* artifact extracted into it.  Content, and with it the SHA-256, is a pair: *)
(* the image it is of or comes from, and whether the copy is whole.          *)
EXTENDS Naturals, FiniteSets, Sequences

CONSTANTS Image,      \* disk images, already in the evidence directory
          Stem,       \* Image -> its directory under prepared/: the file's stem
          Indexer,    \* processes of the index command
          Profile,    \* what an index command asks for, \subseteq {"targeted", "plaso"}
          Forced,     \* the values of its --force
          Mortal,     \* the commands that may be killed
          MaxFaults,  \* bound on kills, failed reads and failed parses, together
          MaxId       \* bound on the audit ids

ASSUME PipelineAssumption ==
    /\ Stem \in [Image -> {Stem[i] : i \in Image}]
    /\ Image \cap {Stem[i] : i \in Image} = {} /\ "none" \notin Image
    /\ Indexer \cap {"free", "register", "prepare", "server"} = {}
    /\ Profile \subseteq {"targeted", "plaso"} /\ Forced \subseteq BOOLEAN
    /\ Mortal \subseteq {"register", "prepare", "index"}
    /\ MaxFaults \in Nat /\ MaxId \in Nat

Dir == {Stem[i] : i \in Image}
Path == Image \cup Dir
Content == Image \X BOOLEAN

VARIABLES disk,       \* the artifact in each directory of prepared/
          registry,   \* evidence.json, in the order of registration
          trail,      \* the audit rows written: [id, tool, of]
          owner,      \* who holds audit/.lock
          seq,        \* the owner's AuditLogger._seq, 0 without an owner
          prep,       \* the prepare command
          db,         \* index.db
          manifest,   \* index-manifest.json
          ix,         \* the index commands
          faults,     \* kills, failed reads and failed parses so far
          sealed      \* ghost: the manifest was written by the build in index.db

trailing == <<trail, owner, seq>>
vars == <<disk, registry, trailing, faults, prep, db, manifest, ix, sealed>>

NoImage == "none"
Nothing == <<NoImage, FALSE>>     \* no file
IdlePrepare == [pc |-> "idle", todo |-> <<>>, got |-> FALSE]
IdleIndex == [pc |-> "idle", listed |-> {}, profile |-> "targeted", todo |-> {}, failed |-> {}]
NoManifest == [inputs |-> {}, profile |-> "none", failed |-> {}]

(***************************************************************************)
(* Mutated forms of definitions below, for the runs that break them.       *)
(***************************************************************************)
IdReserved == seq + 1            \* next_audit_id() in place of the emitted row's id
IndexFilesKept == [db EXCEPT !.state = "open", !.fts = FALSE]
FingerprintNow(x) == {[path |-> registry[n].path, sha |-> registry[n].sha] :
                        n \in 1 .. Len(registry)}
RemovedBeforeLock(x) ==          \* _remove_index_files() ahead of AuditLogger()
    /\ ix[x].pc = "wants" /\ owner # "free"
    /\ ix' = [ix EXCEPT ![x] = IdleIndex]
    /\ db' = [state |-> "absent", rows |-> {}, fts |-> FALSE]
    /\ UNCHANGED <<faults, disk, registry, trailing, prep, manifest, sealed>>

(***************************************************************************)
(* The audit trail: a logger resumes behind the largest id on disk, and an *)
(* id it reserves is not written.                                          *)
(***************************************************************************)
LargestId == LET ids == {t.id : t \in trail}
             IN IF ids = {} THEN 0 ELSE CHOOSE n \in ids : \A m \in ids : m <= n

Opens(who, reserved) == /\ owner = "free" /\ owner' = who
                        /\ seq' = LargestId + reserved /\ seq' < MaxId
                        /\ trail' = trail

Emits(tool, of) == /\ seq < MaxId
                   /\ trail' = trail \cup {[id |-> seq + 1, tool |-> tool, of |-> of]}

Releases == owner' = "free" /\ seq' = 0 /\ trail' = trail

Fault == faults < MaxFaults /\ faults' = faults + 1
NoFault == faults' = faults

\* Killed: the kernel releases the lock.
Dies(command) == command \in Mortal /\ Fault /\ Releases

(***************************************************************************)
(* The registry                                                            *)
(***************************************************************************)
Known(reg, path) == {n \in 1 .. Len(reg) : reg[n].path = path}

\* Another digest for a known path is drift: register raises.
Drifted(path, sha) == \E n \in Known(registry, path) : registry[n].sha # sha

\* The registry after register; a known path keeps its record.
Registered(reg, path, sha, aid) ==
    IF Known(reg, path) # {} THEN reg
    ELSE Append(reg, [path |-> path, sha |-> sha, aid |-> aid])

\* register-evidence stamps the records of its files with an id it reserves ...
RegisterStarts ==
    /\ Opens("register", 1)
    /\ UNCHANGED <<faults, disk, registry, prep, db, manifest, ix, sealed>>

RegisterFile(i) ==
    /\ owner = "register"
    /\ registry' = Registered(registry, i, <<i, TRUE>>, seq)
    /\ UNCHANGED <<faults, disk, trailing, prep, db, manifest, ix, sealed>>

\* ... and reports under the next one.
RegisterEmits ==
    /\ owner = "register" /\ Emits("register", NoImage) /\ owner' = "free" /\ seq' = 0
    /\ UNCHANGED <<faults, disk, registry, prep, db, manifest, ix, sealed>>

RegisterDies ==
    /\ owner = "register" /\ Dies("register")
    /\ UNCHANGED <<disk, registry, prep, db, manifest, ix, sealed>>

(***************************************************************************)
(* prepare                                                                 *)
(***************************************************************************)
ImagesOf(reg) == {n \in 1 .. Len(reg) : reg[n].path \in Image}

\* The one listing of these positions in the order of the registry.
InOrder(positions) == {s \in [1 .. Cardinality(positions) -> positions] :
                         \A m, n \in DOMAIN s : m < n => s[m] < s[n]}

\* list_all(), before the lock is taken.
PrepareLists ==
    /\ prep.pc = "idle" /\ ImagesOf(registry) # {}
    /\ \E s \in InOrder(ImagesOf(registry)) :
          prep' = [pc |-> "listed", got |-> FALSE,
                   todo |-> [n \in 1 .. Cardinality(ImagesOf(registry)) |-> registry[s[n]].path]]
    /\ UNCHANGED <<faults, disk, registry, trailing, db, manifest, ix, sealed>>

PrepareStarts ==
    /\ prep.pc = "listed"
    /\ \/ Opens("prepare", 0) /\ prep' = [prep EXCEPT !.pc = "next"]
       \/ owner # "free" /\ prep' = IdlePrepare /\ UNCHANGED trailing   \* AuditLogger raises
    /\ UNCHANGED <<faults, disk, registry, db, manifest, ix, sealed>>

Extracting == Stem[Head(prep.todo)]

\* The output file is opened "wb": what was there is gone.
ExtractBegins ==
    /\ prep.pc = "next" /\ prep.todo # <<>>
    /\ disk' = [disk EXCEPT ![Extracting] = <<Head(prep.todo), FALSE>>]
    /\ prep' = [prep EXCEPT !.pc = "extracting"]
    /\ UNCHANGED <<faults, registry, trailing, db, manifest, ix, sealed>>

\* A copy that broke off is kept; when nothing could be read, the file is
\* unlinked and no artifact is returned.
ExtractEnds ==
    /\ prep.pc = "extracting"
    /\ \E content \in {<<Head(prep.todo), TRUE>>, <<Head(prep.todo), FALSE>>, Nothing} :
          /\ disk' = [disk EXCEPT ![Extracting] = content]
          /\ prep' = [prep EXCEPT !.pc = "extracted", !.got = content # Nothing]
          /\ IF content[2] THEN NoFault ELSE Fault
    /\ UNCHANGED <<registry, trailing, db, manifest, ix, sealed>>

PrepareEmits ==
    /\ prep.pc = "extracted" /\ Emits("prepare", Head(prep.todo))
    /\ owner' = owner /\ seq' = seq + 1
    /\ prep' = [prep EXCEPT !.pc = "emitted"]
    /\ UNCHANGED <<faults, disk, registry, db, manifest, ix, sealed>>

\* The id of the row just emitted: entry.audit_id.
PreparedId == seq

\* Drift ends the command; so does the image behind which nothing is left.
PrepareRegisters ==
    LET image == Head(prep.todo)
        drifted == prep.got /\ Drifted(Extracting, disk[Extracting])
    IN /\ prep.pc = "emitted"
       /\ registry' = IF prep.got /\ ~drifted
                      THEN Registered(registry, Extracting, disk[Extracting], PreparedId)
                      ELSE registry
       /\ IF drifted \/ Tail(prep.todo) = <<>>
          THEN prep' = IdlePrepare /\ Releases
          ELSE /\ prep' = [pc |-> "next", todo |-> Tail(prep.todo), got |-> FALSE]
               /\ UNCHANGED trailing
       /\ UNCHANGED <<faults, disk, db, manifest, ix, sealed>>

\* Killed, or an image could not be opened.
PrepareDies ==
    /\ owner = "prepare" /\ Dies("prepare")
    /\ prep' = IdlePrepare
    /\ UNCHANGED <<disk, registry, db, manifest, ix, sealed>>

(***************************************************************************)
(* index                                                                   *)
(***************************************************************************)
\* The inputs of the fingerprint, of the records an index command listed.
Inputs(reg) == {[path |-> reg[n].path, sha |-> reg[n].sha] : n \in 1 .. Len(reg)}
Fingerprint(x) == ix[x].listed

PathsOf(inputs) == {a.path : a \in inputs}

\* What a build over these inputs parses: every artifact, and with plaso every image.
Wanted(inputs, profile) ==
    {p \in PathsOf(inputs) : p \in Dir \/ profile = "plaso"}

\* index_is_current: rows can be read, and the manifest has the fingerprint.
\* A build under way holds the database in exclusive locking mode.
Current(inputs, profile) ==
    /\ db.state = "closed" /\ db.rows # {}
    /\ manifest.inputs = inputs /\ manifest.profile = profile

IndexLists(x) ==
    /\ ix[x].pc = "idle" /\ registry # <<>>
    /\ \E p \in Profile :
          ix' = [ix EXCEPT ![x] = [IdleIndex EXCEPT !.pc = "listed", !.listed = Inputs(registry),
                                                    !.profile = p]]
    /\ UNCHANGED <<faults, disk, registry, trailing, prep, db, manifest, sealed>>

IndexChecks(x) ==
    /\ ix[x].pc = "listed"
    /\ \E force \in Forced :
          ix' = [ix EXCEPT ![x] = IF ~force /\ Current(ix[x].listed, ix[x].profile)
                                  THEN IdleIndex ELSE [@ EXCEPT !.pc = "wants"]]
    /\ UNCHANGED <<faults, disk, registry, trailing, prep, db, manifest, sealed>>

\* _remove_index_files, then a new and empty database.
FreshDatabase == [state |-> "open", rows |-> {}, fts |-> FALSE]

\* The lock, the id every row will carry, a new database, and the work: the
\* artifacts as they are registered now, and the images of the earlier listing.
IndexStarts(x) ==
    /\ ix[x].pc = "wants" /\ Opens(x, 1)
    /\ db' = FreshDatabase
    /\ ix' = [ix EXCEPT ![x].pc = "building", ![x].failed = {},
                        ![x].todo = Wanted(Inputs(registry), "targeted")
                                    \cup (Wanted(ix[x].listed, ix[x].profile) \cap Image)]
    /\ sealed' = FALSE
    /\ UNCHANGED <<faults, disk, registry, prep, manifest>>

IndexRefused(x) ==
    /\ ix[x].pc = "wants" /\ owner # "free"
    /\ ix' = [ix EXCEPT ![x] = IdleIndex]
    /\ UNCHANGED <<faults, disk, registry, trailing, prep, db, manifest, sealed>>

ContentOf(p) == IF p \in Image THEN <<p, TRUE>> ELSE disk[p]

\* One artifact or image: its rows in one transaction, or a recorded failure.
\* The artifacts come first, in the order their parsers finish.  A copy that
\* is not whole may be parsed as far as it goes.
Ingest(x, p) ==
    /\ ix[x].pc = "building" /\ p \in ix[x].todo
    /\ p \in Image => ix[x].todo \subseteq Image
    /\ \/ /\ ContentOf(p) # Nothing
          /\ db' = [db EXCEPT !.rows = @ \cup {[path |-> p, content |-> ContentOf(p), aid |-> seq]}]
          /\ ix' = [ix EXCEPT ![x].todo = @ \ {p}]
          /\ NoFault
       \/ /\ IF ContentOf(p)[2] THEN Fault ELSE NoFault
          /\ db' = db
          /\ ix' = [ix EXCEPT ![x].todo = @ \ {p}, ![x].failed = @ \cup {p}]
    /\ UNCHANGED <<disk, registry, trailing, prep, manifest, sealed>>

\* The full-text index is built once, behind the last row, and the database closed.
RebuildFts(x) ==
    /\ ix[x].pc = "building" /\ ix[x].todo = {}
    /\ db' = [db EXCEPT !.state = "closed", !.fts = TRUE]
    /\ ix' = [ix EXCEPT ![x].pc = "built"]
    /\ UNCHANGED <<faults, disk, registry, trailing, prep, manifest, sealed>>

\* The fingerprint is that of the listing, not of what has been registered since.
WriteManifest(x) ==
    /\ ix[x].pc = "built"
    /\ manifest' = [inputs |-> Fingerprint(x), profile |-> ix[x].profile, failed |-> ix[x].failed]
    /\ ix' = [ix EXCEPT ![x].pc = "recorded"]
    /\ sealed' = TRUE
    /\ UNCHANGED <<faults, disk, registry, trailing, prep, db>>

\* The audit row gets an id of its own, not the one the rows carry.
IndexEmits(x) ==
    /\ ix[x].pc = "recorded" /\ Emits("index", NoImage) /\ owner' = "free" /\ seq' = 0
    /\ ix' = [ix EXCEPT ![x] = IdleIndex]
    /\ UNCHANGED <<faults, disk, registry, prep, db, manifest, sealed>>

\* Killed, or an exception: rows without a journal may be unreadable.
IndexDies(x) ==
    /\ owner = x /\ Dies("index")
    /\ IF ix[x].pc = "building"
       THEN \E s \in {"closed", "broken"} : db' = [db EXCEPT !.state = s]
       ELSE db' = db
    /\ ix' = [ix EXCEPT ![x] = IdleIndex]
    /\ UNCHANGED <<disk, registry, prep, manifest, sealed>>

(***************************************************************************)
(* The tool server of an investigation                                     *)
(***************************************************************************)
ServerStarts ==
    /\ Opens("server", 0)
    /\ UNCHANGED <<faults, disk, registry, prep, db, manifest, ix, sealed>>

\* record_observation resolves the cited records to the audit ids they carry.
Cite(row) ==
    /\ owner = "server" /\ db.state = "closed" /\ row \in db.rows
    /\ Emits("observe", NoImage) /\ owner' = owner /\ seq' = seq + 1
    /\ UNCHANGED <<faults, disk, registry, prep, db, manifest, ix, sealed>>

ServerStops ==
    /\ owner = "server" /\ Releases
    /\ UNCHANGED <<faults, disk, registry, prep, db, manifest, ix, sealed>>

Init == /\ disk = [d \in Dir |-> Nothing] /\ registry = <<>>
        /\ trail = {} /\ owner = "free" /\ seq = 0
        /\ prep = IdlePrepare /\ db = [state |-> "absent", rows |-> {}, fts |-> FALSE]
        /\ manifest = NoManifest /\ ix = [x \in Indexer |-> IdleIndex]
        /\ faults = 0 /\ sealed = FALSE

Prepare == \/ PrepareLists \/ PrepareStarts \/ ExtractBegins \/ ExtractEnds
           \/ PrepareEmits \/ PrepareRegisters \/ PrepareDies

Index(x) == \/ IndexLists(x) \/ IndexChecks(x) \/ IndexStarts(x) \/ IndexRefused(x)
            \/ \E p \in Path : Ingest(x, p)
            \/ RebuildFts(x) \/ WriteManifest(x) \/ IndexEmits(x) \/ IndexDies(x)

Register == \/ RegisterStarts \/ (\E i \in Image : RegisterFile(i))
            \/ RegisterEmits \/ RegisterDies

Next == \/ Register \/ Prepare
        \/ \E x \in Indexer : Index(x)
        \/ ServerStarts \/ (\E row \in db.rows : Cite(row)) \/ ServerStops

Spec == Init /\ [][Next]_vars

(***************************************************************************)
(* Properties                                                              *)
(***************************************************************************)
Ids == 1 .. MaxId
Input == [path : Path, sha : Content]

\* The state has the shape the code gives it.
TypeOK ==
    /\ disk \in [Dir -> Content \cup {Nothing}]
    /\ registry \in Seq([path : Path, sha : Content, aid : Ids])
    /\ trail \subseteq [id : Ids, tool : {"register", "prepare", "index", "observe"},
                        of : Image \cup {NoImage}]
    /\ owner \in {"free", "register", "prepare", "server"} \cup Indexer /\ seq \in 0 .. MaxId
    /\ prep.pc \in {"idle", "listed", "next", "extracting", "extracted", "emitted"}
    /\ prep.todo \in Seq(Image) /\ prep.got \in BOOLEAN
    /\ db.state \in {"absent", "open", "closed", "broken"} /\ db.fts \in BOOLEAN
    /\ db.rows \subseteq [path : Path, content : Content, aid : Ids]
    /\ manifest.inputs \subseteq Input /\ manifest.profile \in Profile \cup {"none"}
    /\ manifest.failed \subseteq Path
    /\ \A x \in Indexer :
          /\ ix[x].pc \in {"idle", "listed", "wants", "building", "built", "recorded"}
          /\ ix[x].listed \subseteq Input /\ ix[x].profile \in {"targeted", "plaso"}
          /\ ix[x].todo \cup ix[x].failed \subseteq Path
    /\ faults \in 0 .. MaxFaults /\ sealed \in BOOLEAN

\* The rows of index.db are those of one build: an index command over an
\* unfinished or an older database leaves none of its rows behind.
OneBuild == \A r, s \in db.rows : r.aid = s.aid /\ (r.path = s.path => r = s)

\* The audit id of a prepared artifact is that of the prepare row of the image
\* whose content was registered, whenever a command was killed and whatever
\* overwrote the artifact since.
PreparedAreTraceable ==
    \A n \in 1 .. Len(registry) :
        registry[n].path \in Dir =>
            [id |-> registry[n].aid, tool |-> "prepare", of |-> registry[n].sha[1]] \in trail

\* While the tool server of an investigation is up, the index does not change
\* under the record ids and rows it has handed to the model.
StableWhileServing == [][owner = "server" => db' = db]_vars

\* A manifest promises no more than its build parsed, though the listing it
\* fingerprints is older than the lock: each artifact and image it covers has
\* its rows or a recorded failure, and can be searched.
RecordedIsComplete ==
    sealed => /\ db.fts
              /\ Wanted(manifest.inputs, manifest.profile)
                    \subseteq {r.path : r \in db.rows} \cup manifest.failed

\* index/store.py:170-172: a build that dies is made good by running index
\* again, since the manifest is written only after success.  So what index calls
\* current covers all it was asked for.
CurrentIsComplete ==
    \A p \in Profile :
        Current(Inputs(registry), p) /\ owner \notin Indexer =>
            /\ db.fts
            /\ Wanted(Inputs(registry), p) \subseteq {r.path : r \in db.rows} \cup manifest.failed
=============================================================================
