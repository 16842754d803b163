------------------------------ MODULE Preparation ------------------------------
(***************************************************************************)
(* What prepare finds in the evidence: the artifacts of a disk image, out  *)
(* of whichever of its filesystems has them, and the leaves of a nested    *)
(* archive.  EvidencePipeline has one artifact per image and the processes *)
(* around; here is the whole of what one run extracts and registers.       *)
(*                                                                         *)
(* A location is a sequence of names.  A filesystem is a function from the *)
(* locations of its files to how they can be read: "whole", "cut" (a       *)
(* corrupt cluster inside), "empty" or "unreadable".                       *)
(***************************************************************************)
EXTENDS Naturals, Sequences, FiniteSets, SequencesExt, Loops

CONSTANT MaxArchiveDepth     \* _MAX_ARCHIVE_DEPTH

ASSUME PreparationAssumption == MaxArchiveDepth \in Nat

-----------------------------------------------------------------------------
(* The image *)

\* A parent is a partition, or the medium when it has no partition table; its
\* backends are tried in order, and the first that opens it serves it.  A
\* parent no backend opens is left out.
Backends == <<"NTFS", "TSK">>
FilesystemSpecs(image) ==
    LET parents == IF image.partitions = <<>> THEN <<image.medium>> ELSE image.partitions
    IN Among(parents, {p \in Range(parents) : Among(Backends, p.opened_by) # <<>>})

\* The filesystems of an image; none, and the image cannot be opened.
OpenImage(image) == FilesystemSpecs(image)

Dirs(fs) == UNION {{SubSeq(l, 1, n) : n \in 0 .. Len(l) - 1} : l \in DOMAIN fs}
Has(fs, location) == location \in DOMAIN fs \cup Dirs(fs)

\* The first filesystem that has the location, 0 without one.
OpenLocation(specs, location) ==
    Min({i \in DOMAIN specs : Has(specs[i].files, location)} \cup {Len(specs) + 1}) % (Len(specs) + 1)

IsFile(specs, i, location) == i # 0 /\ location \in DOMAIN specs[i].files
IsDirectory(specs, i, location) == i # 0 /\ location \in Dirs(specs[i].files)

\* The children of a directory, of the one filesystem it is opened on.
Children(specs, i, dir) ==
    IF ~IsDirectory(specs, i, dir) THEN <<>>
    ELSE SetToSeq({[fs |-> i, location |-> l] :
                     l \in {l \in DOMAIN specs[i].files \cup Dirs(specs[i].files) :
                               l # <<>> /\ Front(l) = dir}})
IterDir(specs, dir) == Children(specs, OpenLocation(specs, dir), dir)

-----------------------------------------------------------------------------
(* extract_artifacts *)

Users == <<"Users">>

\* The kinds of target; the names that a glob takes.
Targets == << [label |-> "mft",    kind |-> "file",          location |-> <<"$MFT">>],
              [label |-> "evtx",   kind |-> "dir_glob",      location |-> <<"Logs">>],
              [label |-> "ntuser", kind |-> "per_user",      location |-> <<"NTUSER">>],
              [label |-> "lnk",    kind |-> "per_user_glob", location |-> <<"Recent">>] >>
Taking(name) == name \in {"a", "$a", "_a"}

FileAt(specs, location) ==
    LET i == OpenLocation(specs, location)
    IN IF IsFile(specs, i, location) THEN <<[fs |-> i, location |-> location]>> ELSE <<>>

Globbed(specs, dir) ==
    LET children == IterDir(specs, dir)
    IN Among(children, {c \in Range(children) :
                          IsFile(specs, c.fs, c.location) /\ Taking(Last(c.location))})

UserDirs(specs) ==
    LET children == IterDir(specs, Users)
    IN Among(children, {c \in Range(children) : IsDirectory(specs, c.fs, c.location)})

\* A user's file is looked for again from the first filesystem on.
EntriesOf(specs, target, users) ==
    LET bases == IF target.kind \in {"file", "dir_glob"} THEN <<target.location>>
                 ELSE [k \in DOMAIN users |-> users[k].location \o target.location]
    IN Chained([k \in DOMAIN bases |->
                  IF target.kind \in {"file", "per_user"} THEN FileAt(specs, bases[k])
                  ELSE Globbed(specs, bases[k])])
Entries(specs, target) == EntriesOf(specs, target, UserDirs(specs))

\* _sanitise_location: where under its label an artifact comes to lie.
Clean(name) == IF name = "$a" THEN "_a" ELSE IF name = "$MFT" THEN "_MFT" ELSE name
OutPath(label, location) == <<label>> \o [i \in DOMAIN location |-> Clean(location[i])]

\* Mutant: a copy that broke off is taken for unreadable.
ExtractWhole(specs, label, entry) ==
    [path |-> OutPath(label, entry.location),
     got |-> {<<entry, h>> : h \in {specs[entry.fs].files[entry.location]} \cap {"whole"}}]

\* What can be read is kept; an empty or unreadable file is unlinked and left out.
ExtractOne(specs, label, entry) ==
    [path |-> OutPath(label, entry.location),
     got |-> {<<entry, h>> : h \in {specs[entry.fs].files[entry.location]} \ {"empty", "unreadable"}}]

\* The copies, in the order they are tried; what comes of one has the path and
\* what was got.
ExtractAll(specs, label, entries) ==
    [k \in DOMAIN entries |-> ExtractOne(specs, label, entries[k])]
Extracted(specs) ==
    Chained([t \in DOMAIN Targets |->
               ExtractAll(specs, Targets[t].label, Entries(specs, Targets[t]))])
ExtractArtifacts(specs) == Among(Extracted(specs), {w \in Range(Extracted(specs)) : w.got # {}})

\* The files the extraction leaves behind: a later one of the same path wins,
\* and one that is left out takes the file before it along.
Copy(disk, w) ==
    {f \in disk : f.path # w.path} \cup {[path |-> w.path, content |-> c] : c \in w.got}
FilesLeft(specs) == Walked(Extracted(specs), {}, Copy)

-----------------------------------------------------------------------------
(* decompress_archive *)

\* nest: archive -> [fails, members], the members in the order of their paths,
\* each a leaf or an archive itself.
LeafMembers(nest) == {m \in UNION {Range(nest[a].members) : a \in DOMAIN nest} : m.archive = 0}

\* The stack of archives, how many stages there are, the leaves with the stage
\* each lies in, and whether the walk was broken off.
Walks(nest) ==
    [pending : Seq([archive : DOMAIN nest, depth : Nat]), stage : Nat,
     leaves : Seq([stage : Nat, leaf : LeafMembers(nest)]), raised : BOOLEAN]

\* The archive put on the stack last is unpacked next, into a stage of its own.
Unpack(nest, s) ==
    LET current == Last(s.pending)
        members == nest[current.archive].members
        inner == Among(members, {m \in Range(members) : m.archive # 0})
        leaves == Among(members, {m \in Range(members) : m.archive = 0})
    IN IF current.depth >= MaxArchiveDepth \/ nest[current.archive].fails
       THEN [s EXCEPT !.raised = TRUE]
       ELSE [s EXCEPT !.stage = @ + 1,
                      !.pending = Front(@) \o [k \in DOMAIN inner |->
                                     [archive |-> inner[k].archive, depth |-> current.depth + 1]],
                      !.leaves = @ \o [k \in DOMAIN leaves |->
                                     [stage |-> s.stage + 1, leaf |-> leaves[k]]]]

DecompressArchive(nest, archive) ==
    LET unpackAll[s \in Walks(nest)] ==
            IF s.raised \/ s.pending = <<>> THEN s ELSE unpackAll[Unpack(nest, s)]
        done == unpackAll[[pending |-> <<[archive |-> archive, depth |-> 0]>>, stage |-> 0,
                           leaves |-> <<>>, raised |-> FALSE]]
    IN [raised |-> done.raised \/ done.leaves = <<>>,
        leaves |-> [k \in DOMAIN done.leaves |->
                      [path |-> <<"stage", done.leaves[k].stage, done.leaves[k].leaf.leaf>>,
                       content |-> <<done.leaves[k].leaf>>]]]

-----------------------------------------------------------------------------
(* prepare *)

\* register hashes what lies at the path; nothing there is an error nobody
\* catches, a path that is known with another digest is drift.
RegisterOne(r, file) ==
    LET known == {x \in r.registry : x.path = file.path}
    IN IF r.exit # 0 THEN r
       ELSE IF file.content = <<>> THEN [r EXCEPT !.exit = 1]
       ELSE IF known = {} THEN [r EXCEPT !.registry = @ \cup {file}]
       ELSE IF \E x \in known : x.content # file.content THEN [r EXCEPT !.exit = 2]
       ELSE r

RegisterAll(registry, files) == Walked(files, [registry |-> registry, exit |-> 0], RegisterOne)

\* One image: its artifacts, each with what its path holds after the last.
Lying(disk, artifact) ==
    LET there == {f \in disk : f.path = artifact.path}
    IN IF there = {} THEN [path |-> artifact.path, content |-> <<>>] ELSE CHOOSE f \in there : TRUE
RegisterFrom(registry, disk, artifacts) ==
    RegisterAll(registry, [k \in DOMAIN artifacts |-> Lying(disk, artifacts[k])])
PrepareFrom(registry, specs) ==
    IF specs = <<>> THEN [registry |-> registry, exit |-> 1]
    ELSE RegisterFrom(registry, FilesLeft(specs), ExtractArtifacts(specs))
PrepareImage(registry, image) == PrepareFrom(registry, OpenImage(image))

\* One archive: its leaves, all of them or none.
PrepareArchive(registry, nest, archive) ==
    LET unpacked == DecompressArchive(nest, archive)
    IN IF unpacked.raised THEN [registry |-> registry, exit |-> 1]
       ELSE RegisterAll(registry, unpacked.leaves)

\* The images first, then the archives; a failure ends the command.
Continue(i, nest) == IF i.exit # 0 THEN i ELSE PrepareArchive(i.registry, nest, 1)
Prepared(registry, image, nest) == Continue(PrepareImage(registry, image), nest)

-----------------------------------------------------------------------------
(* Laws *)

\* What the targets ask for: a file, in the first filesystem that has its place
\* - its own, or its directory's where the directory is searched.
UserPlaces(specs) ==
    UNION {{l \in Dirs(specs[i].files) : l # <<>> /\ Front(l) = Users} :
             i \in {OpenLocation(specs, Users)} \ {0}}
Places(specs, target) ==
    IF target.kind \in {"file", "dir_glob"} THEN {target.location}
    ELSE {u \o target.location : u \in UserPlaces(specs)}
AskedAt(target, place, location) ==
    IF target.kind \in {"file", "per_user"} THEN location = place
    ELSE Front(location) = place /\ Taking(Last(location))
AskedUnder(specs, target, place) ==
    UNION {{<<target.label, [fs |-> i, location |-> l]>> :
              l \in {l \in DOMAIN specs[i].files : AskedAt(target, place, l)}} :
            i \in {OpenLocation(specs, place)} \ {0}}
Wanted(specs) ==
    UNION {UNION {AskedUnder(specs, t, place) : place \in Places(specs, t)} : t \in Range(Targets)}

\* As far as no two names of a place fall together, what is wanted and can be
\* read, to its end or not, is registered with its label's place, and nothing
\* else is; a digest of the registry is of what lies at its path.
RegisteredRight(specs, wanted, registry) ==
    LET how(w) == specs[w[2].fs].files[w[2].location]
        path(w) == OutPath(w[1], w[2].location)
    IN /\ Cardinality({path(w) : w \in wanted}) = Cardinality(wanted) =>
            registry = {[path |-> path(w), content |-> <<w[2], how(w)>>] :
                          w \in {w \in wanted : how(w) \in {"whole", "cut"}}}
       /\ registry \subseteq FilesLeft(specs)

Repeated(all, image, nest) == all.exit = 0 => Prepared(all.registry, image, nest) = all

\* evidence/artifacts.py:56-61, prepare.py: the registry is right
\* (RegisteredRight), and preparing again changes nothing.
PreparedLaw(image, nest) ==
    LET specs == OpenImage(image)
    IN /\ RegisteredRight(specs, Wanted(specs), PrepareImage({}, image).registry)
       /\ Repeated(Prepared({}, image, nest), image, nest)

\* The leaves of a nest, by the archives that lead to them; 0 for one refused.
\* levels is how much deeper the walk may go.
LeavesOf(nest) ==
    LET below[levels \in 0 .. MaxArchiveDepth] ==
            [a \in DOMAIN nest |->
               IF levels = 0 \/ nest[a].fails THEN {0}
               ELSE UNION {IF m.archive = 0 THEN {m.leaf} ELSE below[levels - 1][m.archive] :
                             m \in Range(nest[a].members)}]
    IN below[MaxArchiveDepth][1]

NestLaw(nest) ==
    LET p == PrepareArchive({}, nest, 1)
        below == LeavesOf(nest)
    IN IF 0 \in below \/ below = {} THEN p = [registry |-> {}, exit |-> 1]
       ELSE p.exit = 0 /\ {f.content[1].leaf : f \in p.registry} = below
=============================================================================
