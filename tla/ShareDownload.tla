----------------------------- MODULE ShareDownload -----------------------------
(***************************************************************************)
(* starter-cases download: one file of the public share, fetched over many *)
(* runs of the command.  Bytes go to <file>.part; a later attempt asks for *)
(* the rest with a Range header; the whole file gets a checksum file       *)
(* beside it and is then renamed into place.                               *)
(*                                                                         *)
(* A file is a sequence of blocks, a block the version it is of.  Every    *)
(* request may be answered by the file, by an error worth a retry, by one  *)
(* that is not, or break off; the command may be killed anywhere.  The     *)
(* share is honest: it serves the file or an error, and the file stays the *)
(* same.  What a share that is not honest does is said in the README.      *)
(***************************************************************************)
EXTENDS Naturals, Sequences, SequencesExt

CONSTANTS
    File,           \* what the share holds: a sequence of blocks
    SizeKnown,      \* does the listing give a size?
    MaxRetries,     \* MAX_RETRIES
    MaxFaults       \* bound: errors of the share, kills and damage

ASSUME DownloadAssumption ==
    /\ File \in Seq(Nat) /\ File # <<>>
    /\ SizeKnown \in BOOLEAN
    /\ MaxRetries \in Nat \ {0} /\ MaxFaults \in Nat

VARIABLES
    target,     \* {} or the blocks of the file in place
    sidecar,    \* {}, or what <file>.sha256 is the digest of; {<<>>} when it is empty
    part,       \* {} or the blocks of <file>.part
    pc,         \* "idle", "request", "stream", "whole", "summed"
    attempt,    \* of the attempts of stream_file
    body,       \* what the answer has still to give
    hashed,     \* what the running digest has seen
    faults

disk == <<target, sidecar, part>>
dvars == <<disk, pc, attempt, body, hashed, faults>>

Empty == {<<>>}
Blocks(S) == IF S = {} THEN <<>> ELSE CHOOSE s \in S : TRUE
SizeOf(S) == Len(Blocks(S))
Fault == faults < MaxFaults /\ faults' = faults + 1

DInit ==
    /\ target = {} /\ sidecar = {} /\ part = {}
    /\ pc = "idle" /\ attempt = 0 /\ body = <<>> /\ hashed = <<>> /\ faults = 0

-----------------------------------------------------------------------------
(* The command *)

SameSize == target # {} /\ SizeKnown /\ SizeOf(target) = Len(File)

\* verify_sidecar: the file is what was digested when it was put there.
SidecarAgrees == sidecar # {} /\ sidecar = target

\* SKIP.
Skips == SameSize /\ SidecarAgrees

\* REDO: a file of the right size is taken away, another one stays for now.
Kept == IF SameSize THEN {} ELSE target

\* Mutant: a checksum that disagrees ends the command.
EndsOnMismatch == SameSize /\ sidecar # {} /\ ~SidecarAgrees

\* An empty checksum file ends the command: there is no first word to compare.
Unreadable == SameSize /\ sidecar = Empty

Start ==
    /\ pc = "idle" /\ ~Skips /\ ~Unreadable
    /\ target' = Kept
    /\ pc' = "request" /\ attempt' = 0
    /\ UNCHANGED <<sidecar, part, body, hashed, faults>>

\* Another turn of the loop, or RuntimeError after the last.
Again ==
    /\ attempt' = attempt + 1
    /\ pc' = IF attempt + 1 < MaxRetries THEN "request" ELSE "idle"

-----------------------------------------------------------------------------
(* stream_file *)

\* 5xx, 408, 429, or no connection.
Transient ==
    /\ pc = "request" /\ Fault
    /\ Again
    /\ UNCHANGED <<disk, body, hashed>>

\* A part that is not shorter than the file: no range is left to ask for, and
\* the answer is an error that is not retried.
RangeRefused ==
    /\ pc = "request" /\ SizeOf(part) >= Len(File)
    /\ pc' = "idle"
    /\ UNCHANGED <<disk, attempt, body, hashed, faults>>

\* The whole file although a range was asked for: the part is thrown away.
RangeIgnored ==
    /\ pc = "request" /\ SizeOf(part) > 0 /\ Fault
    /\ part' = {}
    /\ Again
    /\ UNCHANGED <<target, sidecar, body, hashed>>

\* Mutant: the digest begins with what this answer brings.
AnsweredUnhashed ==
    /\ pc = "request" /\ SizeOf(part) < Len(File)
    /\ hashed' = <<>> /\ part' = {Blocks(part)}
    /\ body' = SubSeq(File, SizeOf(part) + 1, Len(File))
    /\ pc' = "stream"
    /\ UNCHANGED <<target, sidecar, attempt, faults>>

\* 206 for the rest of a part, 200 for a file of which there is nothing; what
\* is there is digested again first.
Answered ==
    /\ pc = "request" /\ SizeOf(part) < Len(File)
    /\ hashed' = Blocks(part) /\ part' = {Blocks(part)}
    /\ body' = SubSeq(File, SizeOf(part) + 1, Len(File))
    /\ pc' = "stream"
    /\ UNCHANGED <<target, sidecar, attempt, faults>>

Chunk ==
    /\ pc = "stream" /\ body # <<>>
    /\ part' = {Append(Blocks(part), Head(body))}
    /\ hashed' = Append(hashed, Head(body))
    /\ body' = Tail(body)
    /\ UNCHANGED <<target, sidecar, pc, attempt, faults>>

\* TransportError in the middle: what came is in the part.
BreaksOff ==
    /\ pc = "stream" /\ body # <<>> /\ Fault
    /\ Again
    /\ body' = <<>>
    /\ UNCHANGED <<disk, hashed>>

\* The answer is over; the size is compared with the listed one.
Complete ==
    /\ pc = "stream" /\ body = <<>>
    /\ pc' = IF SizeKnown /\ SizeOf(part) # Len(File) THEN "idle" ELSE "whole"
    /\ UNCHANGED <<disk, attempt, body, hashed, faults>>

WriteSidecar ==
    /\ pc = "whole"
    /\ sidecar' = {hashed}
    /\ pc' = "summed"
    /\ UNCHANGED <<target, part, attempt, body, hashed, faults>>

Rename ==
    /\ pc = "summed"
    /\ target' = part /\ part' = {}
    /\ pc' = "idle"
    /\ UNCHANGED <<sidecar, attempt, body, hashed, faults>>

-----------------------------------------------------------------------------
(* What may befall it *)

\* Killed, a disk that is full, or an error that is not retried: of the part any
\* head may be left, of the checksum file nothing.
Killed ==
    /\ pc # "idle" /\ Fault
    /\ \E n \in 0 .. SizeOf(part) :
          /\ pc # "stream" => n = SizeOf(part)
          /\ part' = {SubSeq(p, 1, n) : p \in part}
    /\ sidecar' \in {sidecar} \cup (IF pc = "whole" THEN {Empty} ELSE {})
    /\ pc' = "idle" /\ attempt' = 0 /\ body' = <<>> /\ hashed' = <<>>
    /\ UNCHANGED target

\* The file in place loses a block's content.
Rots ==
    /\ target # {} /\ pc = "idle" /\ Fault
    /\ \E i \in 1 .. SizeOf(target) : target' = {[Blocks(target) EXCEPT ![i] = 0]}
    /\ UNCHANGED <<sidecar, part, pc, attempt, body, hashed>>

Working ==
    \/ RangeRefused \/ Answered \/ Chunk \/ Complete \/ WriteSidecar \/ Rename

DNext ==
    \/ Start \/ Working
    \/ Transient \/ RangeIgnored \/ BreaksOff
    \/ Killed \/ Rots

\* The command goes on while it can, and the examiner gives it again.
DSpec == DInit /\ [][DNext]_dvars /\ WF_dvars(Working) /\ WF_dvars(Start)

-----------------------------------------------------------------------------
(* The listing of a folder that may change between its pages *)

Page(share, offset, limit) ==
    SubSeq(share, offset + 1, IF offset + limit < Len(share) THEN offset + limit ELSE Len(share))

\* Mutant: the folders among the entries, the even ones, are not counted.
TotalOfFiles(share) == Len(SelectSeq(share, LAMBDA e : e % 2 = 1))

\* totalFileCount + totalFolderCount.
Total(share) == Len(share)

\* An entry a second time ends the listing with ProtocolError.
PageEntries(got, page) ==
    [err |-> \E i, j \in DOMAIN page : Contains(got, page[i]) \/ (i < j /\ page[i] = page[j]),
     entries |-> page]

\* list_contents against a share that holds shares[n] when page n is asked for:
\* the next offset is the number of entries so far, and an empty page or the
\* total that came with a page ends the listing.
Listing(shares, limit) ==
    LET turn[n \in 0 .. Len(shares)] ==
          IF n = 0 THEN [pc |-> "more", offset |-> 0, got |-> <<>>]
          ELSE LET t == turn[n - 1]
                   page == Page(shares[n], t.offset, limit)
                   news == PageEntries(t.got, page)
               IN IF t.pc # "more" THEN t
                  ELSE IF page = <<>> THEN [t EXCEPT !.pc = "done"]
                  ELSE IF news.err THEN [t EXCEPT !.pc = "error"]
                  ELSE [pc |-> IF t.offset + Len(page) >= Total(shares[n]) THEN "done" ELSE "more",
                        offset |-> t.offset + Len(page),
                        got |-> t.got \o news.entries]
    IN turn[Len(shares)]

-----------------------------------------------------------------------------
(* Properties *)

\* However often a download was cut, resumed, restarted or damaged: the part is
\* a head of the share's file, the checksum covers all of it, the bytes of earlier
\* runs included, and a file that is skipped is the share's file.
\* (stream_file, verify_sidecar)
ResumedIsWhole ==
    /\ IsPrefix(Blocks(part), File)
    /\ pc \in {"stream", "whole", "summed"} => hashed = Blocks(part)
    /\ Skips => target = {File}

\* Repeating the command gets the file into place, but for two ends from which
\* no repetition leads on: a part as long as the file, which no range continues,
\* and an empty checksum file beside a file of its size.  (download)
GetsThere ==
    []<>((target = {File} /\ SidecarAgrees) \/ SizeOf(part) >= Len(File) \/ sidecar = Empty)

\* A listing that ends without an error repeats nothing and lacks nothing that
\* was in the folder throughout, although the folder grew between its pages: what
\* moves to a later page moves another entry onto it a second time.  When an
\* entry is taken away the listing may lack another, without an error.
\* (list_contents)
ListingLaw(shares, limit) ==
    LET got == Listing(shares, limit)
        grows == \A n \in 1 .. Len(shares) - 1 : ToSet(shares[n]) \subseteq ToSet(shares[n + 1])
    IN /\ IsInjective(got.got)
       /\ got.pc = "done" /\ grows => ToSet(shares[1]) \subseteq ToSet(got.got)
       /\ (\A n \in DOMAIN shares : shares[n] = shares[1]) => got.pc # "error"
       /\ got.pc = "done" /\ (\A n \in DOMAIN shares : shares[n] = shares[1]) => got.got = shares[1]
================================================================================
