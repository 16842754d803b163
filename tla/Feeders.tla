-------------------------------- MODULE Feeders --------------------------------
(***************************************************************************)
(* The readers of the artifacts: which entry of a file becomes a row of    *)
(* the index, which is counted as skipped, which is left out, and which    *)
(* file is refused.  IndexBuild has the event log and what the build does  *)
(* with any reader; here are the others, file format by file format.       *)
(*                                                                         *)
(* A reader returns [rows, skipped, raised]; a row is the number of the    *)
(* entry it comes from, or a record with what the entry's neighbours add.  *)
(* Every reader cuts the text of a row at MAX_TEXT and counts nothing for  *)
(* it; that shows here where a row holds a list, in units of its entries.  *)
(***************************************************************************)
EXTENDS Naturals, FiniteSets, SequencesExt

CONSTANTS
    HeaderScan,    \* lines of a transcript that are looked at for its header
    MaxFiles,      \* names of a prefetch file that are put in its row
    MaxText,       \* entries of a list that the text of a row has room for
    ZeroSkip       \* units of a journal skipped at once when they are all zero

Fails == [rows |-> <<>>, skipped |-> 0, raised |-> TRUE]
Nothing(n) == [rows |-> <<>>, skipped |-> n, raised |-> FALSE]

Numbers(entries) == [i \in DOMAIN entries |-> i]
Top(list, n) == SubSeq(list, 1, IF Len(list) < n THEN Len(list) ELSE n)
Count(entries, Test(_)) == Len(SelectSeq(entries, Test))

\* A row for each entry that passes, a count for each that is Skipped; one that
\* is neither is left out.
Streamed(entries, Row(_), Skipped(_)) ==
    [rows |-> SelectSeq(Numbers(entries), LAMBDA i : Row(entries[i])),
     skipped |-> Count(entries, Skipped), raised |-> FALSE]

-----------------------------------------------------------------------------
(* $MFT: an entry the parser gives as an error, one without a path.  The time *)
(* is that of the first attribute of standard information, if it has one.     *)

MftRow(entry) == ~entry.error /\ entry.path
StdInfoModified(attributes) ==
    LET std == SelectSeq(attributes, LAMBDA a : a.code = "std_info")
    IN IF std = <<>> THEN 0 ELSE Head(std).modified

Mft(file) ==
    LET read == Streamed(file.entries, MftRow, LAMBDA e : ~MftRow(e))
    IN IF ~file.opens THEN Fails
       ELSE [read EXCEPT !.rows = [i \in DOMAIN @ |->
               [of |-> @[i], ts |-> StdInfoModified(file.entries[@[i]].attributes)]]]

-----------------------------------------------------------------------------
(* A hive: each validated plugin that can run gives a dict, a list or nothing *)
(* of use; a plugin that fails is one skip, whatever it had to tell.          *)

HiveRows(plugin) == IF plugin.gives = "list" THEN plugin.entries
                   ELSE IF plugin.gives = "dict" THEN <<Head(plugin.entries)>> ELSE <<>>
HiveRow(entry) == entry.dict /\ entry.text

Hive(file) ==
    LET asked == SelectSeq(file.plugins, LAMBDA p : p.validated)
        failed(p) == p.fails
        run == SelectSeq(asked, LAMBDA p : ~p.fails /\ p.can_run)
        rows(p) == SelectSeq(HiveRows(p), HiveRow)
    IN IF ~file.opens \/ \E p \in Range(file.plugins) : ~p.constructed THEN Fails
       ELSE [rows |-> FlattenSeq([i \in DOMAIN run |-> rows(run[i])]),
             skipped |-> Count(asked, failed), raised |-> FALSE]

-----------------------------------------------------------------------------
(* SRUM: without the network table a failure, not an empty answer.  The names *)
(* of the applications are best effort: the last one given to an id.          *)

AppIdMap(idmap) == SelectSeq(idmap, LAMBDA r : r.readable /\ r.app # 0 /\ r.name # "")
AppName(idmap, app) ==
    LET named == SelectSeq(AppIdMap(idmap), LAMBDA r : r.app = app)
    IN IF named = <<>> THEN "appid" ELSE Last(named).name

Srum(file) ==
    LET read == Streamed(file.net, LAMBDA r : r.readable, LAMBDA r : ~r.readable)
    IN IF ~file.opens \/ ~file.has_net THEN Fails
       ELSE [read EXCEPT !.rows = [i \in DOMAIN @ |->
               [of |-> @[i], app |-> AppName(file.idmap, file.net[@[i]].app)]]]

-----------------------------------------------------------------------------
(* Prefetch: one row; the run times are read up to the first refused slot,   *)
(* and of the names the first go into the text, behind the volumes.          *)

LastRunTimes(slots) ==
    LET refused == {i \in DOMAIN slots : slots[i] = "refused"}
        upto == IF refused = {} THEN Len(slots) ELSE Min(refused) - 1
    IN {slots[i] : i \in 1 .. upto} \ {"epoch"}
Legible(list) == SelectSeq(list, LAMBDA x : x \notin {"refused", ""})

Prefetch(file) ==
    LET refused(x) == x = "refused"
    IN IF ~file.opens THEN Fails
       ELSE [rows |-> <<[times |-> LastRunTimes(file.slots),
                         text |-> Top(Legible(file.volumes) \o Top(Legible(file.names), MaxFiles),
                                      MaxText)]>>,
             skipped |-> Count(file.volumes, refused) + Count(file.names, refused),
             raised |-> FALSE]

-----------------------------------------------------------------------------
(* Shortcuts, alone or in the container of a jump list                       *)

BestTarget(link) == IF link.local # "" THEN link.local ELSE link.relative
LnkRow(link) == BestTarget(link) # "" \/ link.share # ""

Lnk(file) ==
    IF ~file.link.parses THEN Fails
    ELSE IF LnkRow(file.link) THEN [Nothing(0) EXCEPT !.rows = <<1>>] ELSE Nothing(1)

JumpRow(stream) == ~stream.destlist /\ stream.parses /\ LnkRow(stream)
JumpSkipped(stream) == ~stream.destlist /\ ~(stream.parses /\ LnkRow(stream))
Jumplist(file) ==
    IF ~file.ole THEN Nothing(1) ELSE Streamed(file.streams, JumpRow, JumpSkipped)

-----------------------------------------------------------------------------
(* A transcript: one row, with a count of its own for a start time that the   *)
(* first lines do not give; the last of them counts.                          *)

Header(lines) ==
    SelectSeq(Top(lines, HeaderScan), LAMBDA l : l \in {"user", "start", "garbled start"})
StartTime(header) ==
    LET starts == SelectSeq(header, LAMBDA l : l # "user")
    IN IF starts = <<>> THEN "" ELSE IF Last(starts) = "start" THEN "start" ELSE ""

Transcript(file) ==
    IF \A l \in Range(file.lines) : l = "blank" THEN Nothing(1)
    ELSE [rows |-> <<[ts |-> StartTime(Header(file.lines)), body |-> Top(file.lines, MaxText)]>>,
          skipped |-> IF StartTime(Header(file.lines)) = "" THEN 1 ELSE 0, raised |-> FALSE]

-----------------------------------------------------------------------------
(* A capture goes through Zeek, whose logs are tables under a header that     *)
(* names their columns.                                                       *)

\* columns: of the header in force, 0 for none.
ZeekLine(read, log, i) ==
    LET line == log.lines[i]
    IN CASE line.kind = "fields" -> [read EXCEPT !.columns = line.columns]
         [] line.kind = "comment" -> read
         [] line.kind = "values" /\ line.columns # read.columns -> [read EXCEPT !.skipped = @ + 1]
         [] OTHER -> IF line.said THEN [read EXCEPT !.rows = Append(@, <<log.name, i>>)] ELSE read

ParseZeekLog(log) ==
    FoldLeft(LAMBDA read, i : ZeekLine(read, log, i),
             [rows |-> <<>>, skipped |-> 0, columns |-> 0], Numbers(log.lines))

Pcap(file) ==
    LET logs == SelectSeq(file.logs, LAMBDA l : l.exists)
        read == [i \in DOMAIN logs |-> ParseZeekLog(logs[i])]
    IN IF file.zeek # "works" \/ \E l \in Range(logs) : ~l.readable THEN Fails
       ELSE [rows |-> FlattenSeq([i \in DOMAIN read |-> read[i].rows]),
             skipped |-> FoldFunction(+, 0, [i \in DOMAIN read |-> read[i].skipped]),
             raised |-> FALSE]

-----------------------------------------------------------------------------
(* The change journal: a sparse file of 8-byte units, in which a record       *)
(* starts with its length; zero is no length, and any other unit may be.      *)

\* Where to go on from unit at, and whether a record starts there.
ParseUsnRecord(units, at) ==
    LET u == units[at]
    IN IF u.head = "junk" \/ at + u.length - 1 > Len(units)
       THEN [found |-> FALSE, next |-> at + 1]
       ELSE [found |-> u.head = "record", next |-> at + u.length]

\* How far to skip from a unit that starts with zero: a block if all of it is.
ZeroRun(units, at) ==
    LET end == IF at + ZeroSkip - 1 > Len(units) THEN Len(units) ELSE at + ZeroSkip - 1
    IN IF \A i \in at .. end : units[i].head = "zero" THEN end - at + 1 ELSE 1

UsnJrnl(units) ==
    LET scan[at \in 1 .. Len(units) + 1] ==
            IF at > Len(units) THEN Nothing(0)
            ELSE IF units[at].head \in {"zero", "padding"} THEN scan[at + ZeroRun(units, at)]
            ELSE LET parsed == ParseUsnRecord(units, at)
                     rest == scan[parsed.next]
                 IN IF parsed.found THEN [rest EXCEPT !.rows = <<at>> \o @]
                    ELSE [rest EXCEPT !.skipped = @ + 1]
    IN scan[1]

-----------------------------------------------------------------------------
(* Volatility's rows: one for one, but a command line that could not be read  *)
(* is left out.                                                               *)

MapperKeeps(plugin, row) == plugin = "cmdline" => row.args
MemoryRows(plugin, rows) ==
    Streamed(rows, LAMBDA r : MapperKeeps(plugin, r), LAMBDA r : FALSE)

-----------------------------------------------------------------------------
(* Laws *)

ReadBy(kind, file) ==
    CASE kind = "mft" -> Mft(file) [] kind = "registry" -> Hive(file)
      [] kind = "srum" -> Srum(file) [] kind = "prefetch" -> Prefetch(file)
      [] kind = "lnk" -> Lnk(file) [] kind = "jumplist" -> Jumplist(file)
      [] kind = "pstranscript" -> Transcript(file) [] kind = "pcap" -> Pcap(file)
      [] OTHER -> MemoryRows(kind, file.rows)

\* What a file says that no comment of its reader waives: an entry counts even
\* where the reader cannot make it out.
Says(kind, file) ==
    CASE kind = "mft" -> Len(file.entries)
      [] kind = "registry" ->
           FoldFunction(+, 0, [i \in DOMAIN file.plugins |->
               LET p == file.plugins[i]
               IN IF ~p.validated \/ (~p.can_run /\ ~p.fails) THEN 0
                  ELSE IF p.fails THEN 1 ELSE Count(HiveRows(p), HiveRow)])
      [] kind = "srum" -> Len(file.net)
      [] kind = "prefetch" -> 1 + Count(file.volumes \o file.names, LAMBDA x : x = "refused")
      [] kind = "lnk" -> 1
      [] kind = "jumplist" -> IF file.ole THEN Count(file.streams, LAMBDA s : ~s.destlist) ELSE 1
      [] kind = "pstranscript" -> 1
      [] kind = "pcap" ->
           FoldFunction(+, 0, [i \in DOMAIN file.logs |->
               IF file.logs[i].exists
               THEN Count(file.logs[i].lines, LAMBDA l : l.kind = "values" /\ l.said) ELSE 0])
      [] OTHER -> Count(file.rows, LAMBDA r : MapperKeeps(kind, r))

\* index/_feeder_util.py:18-24: a reader that recovers a part of its file does
\* not read as a clean run.  Either the file is refused, or each thing it says
\* is a row or a counted skip, a row is no thing's second one, and nothing that
\* could be read is the poorer for a neighbour that could not.  Of a prefetch file
\* every volume and every name that is legible is in the row as far as it has
\* room (feeders_prefetch.py:24-26): the rest of a longer list is not counted.
FeederLaw(kind, file) ==
    LET read == ReadBy(kind, file)
    IN ~read.raised =>
         /\ Len(read.rows) + read.skipped >= Says(kind, file)
         /\ kind # "registry" => IsInjective(read.rows)
         /\ kind = "srum" => \A r \in Range(read.rows) :
               \/ \E m \in Range(file.idmap) : m.name = r.app /\ m.app = file.net[r.of].app
               \/ r.app = "appid" /\ ~\E m \in Range(AppIdMap(file.idmap)) :
                                        m.app = file.net[r.of].app
         /\ kind = "prefetch" =>
               LET told == {"refused", ""} \cup Range(read.rows[1].text)
               IN /\ \A i \in DOMAIN file.volumes : i <= MaxText => file.volumes[i] \in told
                  /\ \A i \in DOMAIN file.names :
                        i <= MaxFiles /\ Len(file.volumes) + i <= MaxText => file.names[i] \in told
         /\ kind = "pstranscript" /\ read.skipped = 0 => \A r \in Range(read.rows) : r.ts # ""

\* index/feeders_usnjrnl.py:84-88, 146-147: the scan finds its way again.  In a
\* journal made of whole records, stretches of zeros and junk, each record is
\* found where it starts, nothing in the body of one passes for another, and
\* each piece of junk is counted.
Starts(chunks) ==
    [i \in DOMAIN chunks |-> 1 + Len(FlattenSeq(SubSeq(chunks, 1, i - 1)))]
UsnLaw(chunks) ==
    LET read == UsnJrnl(FlattenSeq(chunks))
        of(head) == SelectSeq(Numbers(chunks), LAMBDA i : chunks[i][1].head = head)
        records == of("record")
    IN /\ read.rows = [i \in DOMAIN records |-> Starts(chunks)[records[i]]]
       /\ read.skipped = Len(of("junk")) + Len(of("bad name"))
=============================================================================
