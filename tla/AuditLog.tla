------------------------------- MODULE AuditLog -------------------------------
(***************************************************************************)
(* The audit trail of one case: the files audit/<stream>.jsonl.            *)
(*                                                                         *)
(* Two writers append to them.  An AuditLogger (audit/logger.py) is unique *)
(* per case: it holds a flock on audit/.lock, numbers its rows and keeps   *)
(* the number and the last hash of every stream in memory.  The function   *)
(* append_chained_jsonl (audit/chained_jsonl.py) takes no part in that     *)
(* lock: it locks one stream, reads the last hash back from the file and   *)
(* appends.  Both chain their rows with the hash of the row before.        *)
(*                                                                         *)
(* A row is written by append_jsonl_line, which can fail half way (disk    *)
(* full, process killed) or after the bytes are down (fsync).              *)
(*                                                                         *)
(* Abstractions.  The hash is ideal: a hash is the sequence of the         *)
(* payloads that went into it.  A payload is the number of the append      *)
(* attempt.  One calendar day is modelled (audit ids restart daily and     *)
(* carry the day), so an audit id is its sequence number; 0 is no id.      *)
(***************************************************************************)
EXTENDS Naturals, Sequences

CONSTANTS
    LoggerStream,   \* streams written through AuditLogger.emit
    ChainStream,    \* streams written through append_chained_jsonl
    Fault,          \* what a failed append may leave: subset of {"torn", "fsync"}
    MaxWrites,      \* bound: append attempts
    MaxSeq          \* bound: sequence numbers one logger may hand out

ASSUME AuditAssumption ==
    /\ Fault \subseteq {"torn", "fsync"}
    /\ MaxWrites \in Nat
    /\ MaxSeq \in Nat

Stream == LoggerStream \cup ChainStream

VARIABLES
    file,       \* [Stream -> sequence of lines]
    up,         \* an AuditLogger is alive and holds audit/.lock
    seq,        \* its last reserved sequence number
    head,       \* its cached last hash of every stream
    held,       \* ids it reserved with next_audit_id, not yet written by emit
    writes,     \* append attempts so far: the next payload
    acked       \* history: rows whose append returned to the caller

vars == <<file, up, seq, head, held, writes, acked>>

-----------------------------------------------------------------------------
(* Lines and files *)

NoHash == <<>>
Hash(prev, payload) == Append(prev, payload)
HashValue == Seq(Nat)

\* A line: `ok` when it parses as a row, `nl` when it ends with a newline.
Line == [ok : BOOLEAN, nl : BOOLEAN, id : Nat, payload : Nat,
         prev : HashValue, hash : HashValue]

Row(id, payload, prev) ==
    [ok |-> TRUE, nl |-> TRUE, id |-> id, payload |-> payload,
     prev |-> prev, hash |-> Hash(prev, payload)]

Junk(newline) ==
    [ok |-> FALSE, nl |-> newline, id |-> 0, payload |-> 0,
     prev |-> NoHash, hash |-> NoHash]

\* Mutant: an append that overwrites a tail left without its newline.
AppendLineOverTail(f, line) ==
    IF f # <<>> /\ ~f[Len(f)].nl
    THEN [f EXCEPT ![Len(f)] = line]
    ELSE Append(f, line)

\* O_APPEND: bytes go after whatever is there.  A line that lacks its newline
\* swallows the next one, and the two together parse as nothing.
AppendLine(f, line) ==
    IF f # <<>> /\ ~f[Len(f)].nl
    THEN [f EXCEPT ![Len(f)] = Junk(line.nl)]
    ELSE Append(f, line)

\* What a failed append of row r can leave in file f: nothing, part of the
\* bytes, all of them but the newline ("torn"), or the whole line ("fsync").
AfterFailure(f, r) ==
    {f} \cup
    (IF "torn" \in Fault
     THEN {AppendLine(f, Junk(FALSE)), AppendLine(f, [r EXCEPT !.nl = FALSE])}
     ELSE {}) \cup
    (IF "fsync" \in Fault THEN {AppendLine(f, r)} ELSE {})

Parsed(f) == {i \in DOMAIN f : f[i].ok}

\* Mutant: a reader that takes the hash of the first row of the file.
FirstHash(f) == IF f = <<>> THEN NoHash ELSE f[1].hash

\* The last hash a reader finds: lines that do not parse are skipped.
LastHash(f) ==
    IF Parsed(f) = {} THEN NoHash
    ELSE f[CHOOSE i \in Parsed(f) : \A j \in Parsed(f) : j <= i].hash

\* Mutant: a walk that skips a line that does not parse.
BreaksOfRows(f) ==
    LET prior[i \in 0..Len(f)] ==
            IF i = 0 THEN NoHash
            ELSE IF f[i].ok /\ f[i].prev = prior[i - 1] THEN f[i].hash
            ELSE prior[i - 1]
    IN  {i \in DOMAIN f : f[i].ok /\ f[i].prev # prior[i - 1]}

\* Mutant: a walk that compares no row with the row before it.
BreaksOfHashes(f) ==
    {i \in DOMAIN f : ~f[i].ok \/ f[i].hash # Hash(f[i].prev, f[i].payload)}

\* A row verify_chain_lines accepts behind a row with the hash prior.
Good(f, i, prior) ==
    /\ f[i].ok
    /\ f[i].hash = Hash(f[i].prev, f[i].payload)
    /\ f[i].prev = prior

\* The hash its one pass carries behind line i: that of the last good row.
Carried(f) ==
    LET prior[i \in 0..Len(f)] ==
            IF i = 0 THEN NoHash
            ELSE IF Good(f, i, prior[i - 1]) THEN f[i].hash ELSE prior[i - 1]
    IN  prior

\* verify_chain_lines lists the lines that do not parse, whose hash is not that
\* of their content, or whose prev_record_hash is not the hash carried so far.
Breaks(f) == {i \in DOMAIN f : ~Good(f, i, Carried(f)[i - 1])}

IdsIn(f) == {f[i].id : i \in Parsed(f)}
IdsOnDisk == (UNION {IdsIn(file[s]) : s \in Stream}) \cup {0}

-----------------------------------------------------------------------------
(* Behaviour *)

Init ==
    /\ file = [s \in Stream |-> <<>>]
    /\ up = FALSE
    /\ seq = 0
    /\ head = [s \in Stream |-> NoHash]
    /\ held = {}
    /\ writes = 0
    /\ acked = {}

\* Mutant: the restart scan counts the logger's own streams only.
LargestLoggerId(m) ==
    LET ids == (UNION {IdsIn(file[s]) : s \in LoggerStream}) \cup {0}
    IN  m \in ids /\ \A n \in ids : n <= m

\* m is the largest id in the files, 0 when there is none.
LargestId(m) ==
    /\ m \in IdsOnDisk
    /\ \A n \in IdsOnDisk : n <= m

\* AuditLogger(case_dir): refused while another one holds audit/.lock;
\* otherwise the sequence and the heads come from what is on disk.
Open ==
    /\ ~up
    /\ up' = TRUE
    /\ \E m \in IdsOnDisk : LargestId(m) /\ seq' = m
    /\ head' = [s \in Stream |-> LastHash(file[s])]
    /\ held' = {}
    /\ UNCHANGED <<file, writes, acked>>

\* close(), or the process ends: the flock goes, files stay as they are.
Close ==
    /\ up
    /\ up' = FALSE
    /\ held' = {}
    /\ UNCHANGED <<file, seq, head, writes, acked>>

\* next_audit_id: a number reserved in memory, for a row written elsewhere
\* (record_observation and the like) or for none (search_evidence).
NextAuditId ==
    /\ up
    /\ seq < MaxSeq
    /\ seq' = seq + 1
    /\ held' = held \cup {seq + 1}
    /\ UNCHANGED <<file, up, head, writes, acked>>

\* The row emit is about to write to stream s.
EmitRow(s) == Row(seq + 1, writes + 1, head[s])

Ack(s, r) == [stream |-> s, id |-> r.id, payload |-> r.payload]

\* Mutant: the number is committed, the cached head is not.
EmitKeepsHead(s) ==
    /\ up
    /\ writes < MaxWrites /\ seq < MaxSeq
    /\ file' = [file EXCEPT ![s] = AppendLine(@, EmitRow(s))]
    /\ seq' = seq + 1
    /\ writes' = writes + 1
    /\ acked' = acked \cup {Ack(s, EmitRow(s))}
    /\ UNCHANGED <<up, head, held>>

\* emit: append, and only then commit the number and the head.
Emit(s) ==
    /\ up
    /\ writes < MaxWrites /\ seq < MaxSeq
    /\ file' = [file EXCEPT ![s] = AppendLine(@, EmitRow(s))]
    /\ seq' = seq + 1
    /\ head' = [head EXCEPT ![s] = EmitRow(s).hash]
    /\ writes' = writes + 1
    /\ acked' = acked \cup {Ack(s, EmitRow(s))}
    /\ UNCHANGED <<up, held>>

\* emit whose append raised: neither the number nor the head is consumed.
EmitFails(s) ==
    /\ up
    /\ writes < MaxWrites /\ seq < MaxSeq
    /\ \E f \in AfterFailure(file[s], EmitRow(s)) : file' = [file EXCEPT ![s] = f]
    /\ writes' = writes + 1
    /\ UNCHANGED <<up, seq, head, held, acked>>

\* The row append_chained_jsonl is about to write: its head is read back.
ChainRow(s, id) == Row(id, writes + 1, LastHash(file[s]))

\* append_chained_jsonl: by the process that reserved id, or by any process
\* (agent hooks, critic, review) with a row that carries no id.
AppendChained(s, id) ==
    /\ id \in held \cup {0}
    /\ writes < MaxWrites
    /\ file' = [file EXCEPT ![s] = AppendLine(@, ChainRow(s, id))]
    /\ held' = held \ {id}
    /\ writes' = writes + 1
    /\ acked' = acked \cup {Ack(s, ChainRow(s, id))}
    /\ UNCHANGED <<up, seq, head>>

AppendChainedFails(s, id) ==
    /\ id \in held \cup {0}
    /\ writes < MaxWrites
    /\ \E f \in AfterFailure(file[s], ChainRow(s, id)) : file' = [file EXCEPT ![s] = f]
    /\ held' = held \ {id}
    /\ writes' = writes + 1
    /\ UNCHANGED <<up, seq, head, acked>>

Next ==
    \/ Open
    \/ Close
    \/ NextAuditId
    \/ \E s \in LoggerStream : Emit(s) \/ EmitFails(s)
    \/ \E s \in ChainStream, id \in 0..MaxSeq :
          AppendChained(s, id) \/ AppendChainedFails(s, id)

Spec == Init /\ [][Next]_vars

-----------------------------------------------------------------------------
(* Properties *)

Acked == [stream : Stream, id : Nat, payload : Nat]

\* Types; an id that is reserved but not written was taken from the counter.
TypeOK ==
    /\ file \in [Stream -> Seq(Line)]
    /\ up \in BOOLEAN
    /\ seq \in 0..MaxSeq
    /\ head \in [Stream -> HashValue]
    /\ held \subseteq 1..seq
    /\ writes \in 0..MaxWrites
    /\ acked \subseteq Acked

\* No two rows of the trail carry the same audit id, whichever file and writer
\* they come from and however often the logger was restarted in between.
UniqueAuditIds ==
    \A s, t \in Stream : \A i \in Parsed(file[s]), j \in Parsed(file[t]) :
        (file[s][i].id = file[t][j].id /\ file[s][i].id # 0) => (s = t /\ i = j)

\* A file whose every line parses and points at the line before it.
ChainOK(f) ==
    \A i \in DOMAIN f :
        /\ f[i].ok
        /\ f[i].hash = Hash(f[i].prev, f[i].payload)
        /\ f[i].prev = IF i = 1 THEN NoHash ELSE f[i - 1].hash

\* The hash chain of every stream is whole: heads cached in memory across
\* failed writes and restarts never disagree with the file.
ChainIntact == \A s \in Stream : ChainOK(file[s])

\* A row emit writes has an id above every id on disk, so a reader that orders
\* the emitted rows by id has them in the order they happened.
EmitIsFresh ==
    [][\A s \in LoggerStream : Emit(s) => \A n \in IdsOnDisk : seq' > n]_vars

\* The verifier's one-pass walk finds a break exactly in the files that are not
\* chained line by line, also after torn writes.
VerifierAgrees == \A s \in Stream : Breaks(file[s]) = {} <=> ChainOK(file[s])

\* A stream that verifies has lost nothing: every row whose writer was told
\* it is down can still be read, and rows appear in the order of their writes.
VerifiedMeansComplete ==
    \A s \in Stream : Breaks(file[s]) = {} =>
        /\ \A a \in acked : a.stream = s =>
              \E i \in Parsed(file[s]) :
                  file[s][i].payload = a.payload /\ file[s][i].id = a.id
        /\ \A i, j \in DOMAIN file[s] : i < j => file[s][i].payload < file[s][j].payload

\* No later write hides a break: once verify reports a stream, it always will.
BreakIsPermanent ==
    [][\A s \in Stream : Breaks(file[s]) # {} => Breaks(file[s])' # {}]_vars
===============================================================================
