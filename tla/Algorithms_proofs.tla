--------------------------- MODULE Algorithms_proofs ---------------------------
(***************************************************************************)
(* Proofs about the parts that compute, for inputs of any size: the         *)
(* download and the listing of starter cases (ShareDownload), the answers   *)
(* to questions of the evidence (EvidenceQueries), the pinned manifests     *)
(* (Datasets), the gates of an observation (Gates), the tier and the        *)
(* challenges of a finding (Corroboration), the accuracy harness            *)
(* (AccuracyHarness), what the report draws from the approved claims        *)
(* (ReportBody) and what is extracted from an image or an archive           *)
(* (Preparation).                                                           *)
(*                                                                         *)
(* What each function builds step by step is a recursive function of how    *)
(* far it has come.  A proof about one has the same three parts: the walk   *)
(* exists (RecursionExists), so it is what the definition names; each of    *)
(* its steps keeps what is said of it; hence it holds at the end            *)
(* (IntervalInduction).                                                     *)
(***************************************************************************)
EXTENDS MCAlgorithms, SequenceTheorems, FiniteSetTheorems, Induction, TLAPS

-----------------------------------------------------------------------------
(* The download of a file: what a resumed one has is a head of the file,   *)
(* what it has digested is what it has, and a file that is skipped is the   *)
(* file.  First the inductive invariant.                                    *)

\* The first blocks of the file.
IsHead(s) == /\ s \in Seq(Nat) /\ Len(s) <= Len(File)
             /\ \A i \in 1 .. Len(s) : s[i] = File[i]

\* What s lacks of the file.
IsRest(r, s) == /\ r \in Seq(Nat) /\ Len(r) = Len(File) - Len(s)
                /\ \A i \in 1 .. Len(r) : r[i] = File[Len(s) + i]

PartInv == IsHead(Blocks(part)) /\ part \in {{}, {Blocks(part)}}

\* While an answer is read, and until the file is in place, the digest is of the
\* part, and the answer goes on where the part ends.
AnswerInv ==
    /\ pc \in {"idle", "request", "stream", "whole", "summed"}
    /\ pc \in {"stream", "whole", "summed"} => part # {} /\ hashed = Blocks(part)
    /\ pc = "stream" => IsRest(body, Blocks(part))
    /\ pc \in {"whole", "summed"} => Blocks(part) = File

\* A file in place has the size, if not the content, of the share's, and a
\* checksum is of the file or of nothing.
PlaceInv ==
    /\ \A t \in target : target = {t} /\ t \in Seq(Nat) /\ Len(t) = Len(File)
    /\ sidecar \in {{}, Empty, {File}}

DInv == PartInv /\ AnswerInv /\ PlaceInv

-----------------------------------------------------------------------------
(* Lemmas on parts of the file *)

LEMMA BlocksOfOne == \A s : Blocks({s}) = s
BY DEF Blocks

LEMMA BlocksOfNone == Blocks({}) = <<>>
BY DEF Blocks

LEMMA NothingIsHead == IsHead(<<>>)
BY DownloadAssumption DEF IsHead

\* A head of a head is one.
LEMMA HeadOfHead ==
    ASSUME NEW s, IsHead(s), NEW n \in 0 .. Len(s)
    PROVE  IsHead(SubSeq(s, 1, n)) /\ Len(SubSeq(s, 1, n)) = n
<1>1. /\ s \in Seq(Nat) /\ Len(s) \in Nat /\ File \in Seq(Nat) /\ Len(File) \in Nat
  BY DownloadAssumption DEF IsHead
<1>2. /\ SubSeq(s, 1, n) \in Seq(Nat) /\ Len(SubSeq(s, 1, n)) = n
      /\ \A i \in 1 .. n : SubSeq(s, 1, n)[i] = s[i]
  BY <1>1
<1> QED BY <1>1, <1>2 DEF IsHead

\* A head of the file's length is the file.
LEMMA WholeHead ==
    ASSUME NEW s, IsHead(s), Len(s) = Len(File)
    PROVE  s = File
<1>1. s \in Seq(Nat) /\ File \in Seq(Nat) /\ \A i \in 1 .. Len(s) : s[i] = File[i]
  BY DownloadAssumption DEF IsHead
<1> QED BY <1>1, SeqEqual

\* The next block of the rest continues the head.
LEMMA HeadGrows ==
    ASSUME NEW s, IsHead(s), NEW r, IsRest(r, s), r # <<>>
    PROVE  IsHead(Append(s, Head(r))) /\ IsRest(Tail(r), Append(s, Head(r)))
<1> DEFINE t == Append(s, Head(r))
<1>1. /\ s \in Seq(Nat) /\ r \in Seq(Nat) /\ Len(s) \in Nat /\ Len(r) \in Nat \ {0}
      /\ Len(File) \in Nat /\ Len(s) + Len(r) = Len(File)
  BY DownloadAssumption DEF IsHead, IsRest
<1>2. Head(r) \in Nat /\ Head(r) = File[Len(s) + 1]
  BY <1>1 DEF IsRest
<1>3. /\ t \in Seq(Nat) /\ Len(t) = Len(s) + 1 /\ t[Len(s) + 1] = Head(r)
      /\ \A i \in 1 .. Len(s) : t[i] = s[i]
  BY <1>1, <1>2
<1>4. /\ Tail(r) \in Seq(Nat) /\ Len(Tail(r)) = Len(r) - 1
      /\ \A i \in 1 .. Len(r) - 1 : Tail(r)[i] = r[i + 1]
  BY <1>1
<1> HIDE DEF t
<1>5. IsHead(t)
  <2>1. ASSUME NEW i \in 1 .. Len(t) PROVE t[i] = File[i]
    <3>1. CASE i \in 1 .. Len(s)
      BY <1>3, <3>1 DEF IsHead
    <3>2. CASE i = Len(s) + 1
      BY <1>2, <1>3, <3>2
    <3> QED BY <1>1, <1>3, <3>1, <3>2
  <2>2. t \in Seq(Nat) /\ Len(t) <= Len(File)
    BY <1>1, <1>3
  <2> QED BY <2>1, <2>2 DEF IsHead
<1>6. ASSUME NEW i \in 1 .. Len(r) - 1 PROVE Tail(r)[i] = File[Len(t) + i]
  <2>1. i + 1 \in 1 .. Len(r) /\ Len(s) + (i + 1) = Len(t) + i
    BY <1>1, <1>3
  <2> QED BY <1>4, <2>1 DEF IsRest
<1>7. IsRest(Tail(r), t)
  <2>1. Len(Tail(r)) = Len(File) - Len(t)
    BY <1>1, <1>3, <1>4
  <2> QED BY <1>4, <1>6, <2>1 DEF IsRest
<1> QED BY <1>5, <1>7 DEF t

\* What the share sends for a range is the rest of the part.
LEMMA RangeIsRest ==
    ASSUME NEW s, IsHead(s)
    PROVE  IsRest(SubSeq(File, Len(s) + 1, Len(File)), s)
<1>1. File \in Seq(Nat) /\ Len(File) \in Nat /\ Len(s) \in Nat /\ Len(s) <= Len(File)
  BY DownloadAssumption DEF IsHead
<1> QED BY <1>1 DEF IsRest

-----------------------------------------------------------------------------
(* The invariant is inductive *)

LEMMA DInitInvariant == ASSUME DInit PROVE DInv
<1> USE DEF DInit
<1>1. PartInv
  BY BlocksOfNone, NothingIsHead DEF PartInv
<1>2. AnswerInv
  BY DEF AnswerInv
<1>3. PlaceInv
  BY DEF PlaceInv
<1> QED BY <1>1, <1>2, <1>3 DEF DInv

LEMMA DStepInvariant == ASSUME DInv, [DNext]_dvars PROVE DInv'
<1> USE DownloadAssumption
<1>1. PartInv /\ AnswerInv /\ PlaceInv
  BY DEF DInv
<1>2. ASSUME part' = part PROVE PartInv'
  BY <1>1, <1>2 DEF PartInv, IsHead, Blocks
<1>3. CASE Start
  <2>1. UNCHANGED <<sidecar, part>> /\ target' \in {{}, target} /\ pc' = "request"
    BY <1>3 DEF Start, Kept
  <2>2. AnswerInv' /\ PlaceInv'
    BY <1>1, <2>1 DEF AnswerInv, PlaceInv
  <2> QED BY <1>2, <2>1, <2>2 DEF DInv
<1>4. CASE Transient \/ BreaksOff
  <2>1. UNCHANGED disk /\ pc' \in {"request", "idle"}
    BY <1>4 DEF Transient, BreaksOff, Again
  <2>2. AnswerInv' /\ PlaceInv' /\ part' = part
    BY <1>1, <2>1 DEF AnswerInv, PlaceInv, disk
  <2> QED BY <1>2, <2>2 DEF DInv
<1>5. CASE RangeRefused
  <2>1. AnswerInv' /\ PlaceInv' /\ part' = part
    BY <1>1, <1>5 DEF RangeRefused, AnswerInv, PlaceInv, disk
  <2> QED BY <1>2, <2>1 DEF DInv
<1>6. CASE RangeIgnored
  <2>1. part' = {} /\ pc' \in {"request", "idle"} /\ UNCHANGED <<target, sidecar>>
    BY <1>6 DEF RangeIgnored, Again
  <2>2. PartInv' /\ AnswerInv' /\ PlaceInv'
    BY <1>1, <2>1, BlocksOfNone, NothingIsHead DEF PartInv, AnswerInv, PlaceInv
  <2> QED BY <2>2 DEF DInv
<1>7. CASE Answered
  <2> DEFINE s == Blocks(part)
  <2>1. /\ hashed' = s /\ part' = {s} /\ body' = SubSeq(File, Len(s) + 1, Len(File))
        /\ pc' = "stream" /\ UNCHANGED <<target, sidecar>>
    BY <1>7 DEF Answered, SizeOf
  <2>2. IsHead(s) /\ Blocks(part') = s
    BY <1>1, <2>1, BlocksOfOne DEF PartInv
  <2> HIDE DEF s
  <2>3. PartInv' /\ AnswerInv' /\ PlaceInv'
    BY <1>1, <2>1, <2>2, RangeIsRest DEF PartInv, AnswerInv, PlaceInv
  <2> QED BY <2>3 DEF DInv
<1>8. CASE Chunk
  <2> DEFINE s == Blocks(part)
             t == Append(s, Head(body))
  <2>1. /\ pc = "stream" /\ body # <<>> /\ hashed = s /\ IsHead(s) /\ IsRest(body, s)
    BY <1>1, <1>8 DEF Chunk, AnswerInv, PartInv
  <2>2. /\ part' = {t} /\ hashed' = t /\ body' = Tail(body) /\ pc' = pc
        /\ UNCHANGED <<target, sidecar>>
    BY <1>8, <2>1 DEF Chunk
  <2>3. IsHead(t) /\ IsRest(Tail(body), t) /\ Blocks(part') = t
    BY <2>1, <2>2, HeadGrows, BlocksOfOne
  <2> HIDE DEF s, t
  <2>4. PartInv' /\ AnswerInv' /\ PlaceInv'
    BY <1>1, <2>1, <2>2, <2>3 DEF PartInv, AnswerInv, PlaceInv
  <2> QED BY <2>4 DEF DInv
<1>9. CASE Complete
  <2>1. /\ pc = "stream" /\ body = <<>> /\ part' = part /\ hashed' = hashed
        /\ pc' \in {"idle", "whole"} /\ UNCHANGED <<target, sidecar>>
    BY <1>9 DEF Complete, disk
  <2>2. IsHead(Blocks(part)) /\ IsRest(<<>>, Blocks(part)) /\ hashed = Blocks(part) /\ part # {}
    BY <1>1, <2>1 DEF AnswerInv, PartInv
  <2>3. Blocks(part) = File
    <3>1. Len(Blocks(part)) = Len(File)
      BY <2>2 DEF IsRest, IsHead
    <3> QED BY <2>2, <3>1, WholeHead
  <2>4. AnswerInv' /\ PlaceInv'
    BY <1>1, <2>1, <2>2, <2>3 DEF AnswerInv, PlaceInv
  <2> QED BY <1>2, <2>1, <2>4 DEF DInv
<1>10. CASE WriteSidecar
  <2>1. /\ pc = "whole" /\ pc' = "summed" /\ sidecar' = {hashed}
        /\ UNCHANGED <<target, part, hashed>>
    BY <1>10 DEF WriteSidecar
  <2>2. hashed = File
    BY <1>1, <2>1 DEF AnswerInv
  <2>3. AnswerInv' /\ PlaceInv'
    BY <1>1, <2>1, <2>2 DEF AnswerInv, PlaceInv
  <2> QED BY <1>2, <2>1, <2>3 DEF DInv
<1>11. CASE Rename
  <2>1. /\ pc = "summed" /\ pc' = "idle" /\ target' = part /\ part' = {}
        /\ UNCHANGED sidecar
    BY <1>11 DEF Rename
  <2>2. part = {File}
    BY <1>1, <2>1 DEF AnswerInv, PartInv
  <2>3. PartInv' /\ AnswerInv' /\ PlaceInv'
    BY <1>1, <2>1, <2>2, BlocksOfNone, NothingIsHead DEF PartInv, AnswerInv, PlaceInv
  <2> QED BY <2>3 DEF DInv
<1>12. CASE Killed
  <2>1. PICK n \in 0 .. SizeOf(part) : part' = {SubSeq(p, 1, n) : p \in part}
    BY <1>12 DEF Killed
  <2>2. pc' = "idle" /\ UNCHANGED target /\ sidecar' \in {sidecar, Empty}
    BY <1>12 DEF Killed
  <2>3. AnswerInv' /\ PlaceInv'
    BY <1>1, <2>2 DEF AnswerInv, PlaceInv
  <2>4. PartInv'
    <3>1. CASE part = {}
      BY <2>1, <3>1, BlocksOfNone, NothingIsHead DEF PartInv
    <3>2. CASE part # {}
      <4> DEFINE s == SubSeq(Blocks(part), 1, n)
      <4>1. part = {Blocks(part)}
        BY <1>1, <3>2 DEF PartInv
      <4>2. part' = {s}
        BY <2>1, <4>1
      <4>3. IsHead(s)
        BY <1>1, HeadOfHead DEF PartInv, SizeOf
      <4> HIDE DEF s
      <4> QED BY <4>2, <4>3, BlocksOfOne DEF PartInv
    <3> QED BY <3>1, <3>2
  <2> QED BY <2>3, <2>4 DEF DInv
<1>13. CASE Rots
  <2>1. /\ target # {} /\ pc = "idle" /\ UNCHANGED <<sidecar, part, pc>>
        /\ \E i \in 1 .. SizeOf(target) : target' = {[Blocks(target) EXCEPT ![i] = 0]}
    BY <1>13 DEF Rots
  <2>2. PICK t : target = {t} /\ t \in Seq(Nat) /\ Len(t) = Len(File)
    BY <1>1, <2>1 DEF PlaceInv
  <2>3. PICK i \in 1 .. Len(t) : target' = {[t EXCEPT ![i] = 0]}
    BY <2>1, <2>2, BlocksOfOne DEF SizeOf
  <2> DEFINE u == [t EXCEPT ![i] = 0]
  <2>4. u \in Seq(Nat) /\ Len(u) = Len(File)
    BY <2>2
  <2> HIDE DEF u
  <2>5. target' = {u}
    BY <2>3 DEF u
  <2>6. AnswerInv' /\ PlaceInv'
    BY <1>1, <2>1, <2>4, <2>5 DEF AnswerInv, PlaceInv
  <2> QED BY <1>2, <2>1, <2>6 DEF DInv
<1>14. CASE UNCHANGED dvars
  <2>1. part' = part /\ AnswerInv' /\ PlaceInv'
    BY <1>1, <1>14 DEF dvars, disk, AnswerInv, PlaceInv
  <2> QED BY <1>2, <2>1 DEF DInv
<1> QED BY <1>3, <1>4, <1>5, <1>6, <1>7, <1>8, <1>9, <1>10, <1>11, <1>12, <1>13, <1>14
        DEF DNext, Working

-----------------------------------------------------------------------------
(* Theorems *)

LEMMA InvImpliesWhole == ASSUME DInv PROVE ResumedIsWhole
<1>1. PartInv /\ AnswerInv /\ PlaceInv
  BY DEF DInv
<1>2. IsPrefix(Blocks(part), File)
  <2> DEFINE s == Blocks(part)
  <2>1. /\ s \in Seq(Nat) /\ Len(s) \in Nat /\ Len(s) <= Len(File)
        /\ File \in Seq(Nat) /\ Len(File) \in Nat /\ \A i \in 1 .. Len(s) : s[i] = File[i]
    BY <1>1, DownloadAssumption DEF PartInv, IsHead
  <2> HIDE DEF s
  <2>2. SubSeq(s, 1, Len(s)) = SubSeq(File, 1, Len(s))
    BY <2>1
  <2> QED BY <2>1, <2>2 DEF IsPrefix, s
<1>3. ASSUME Skips PROVE target = {File}
  <2>1. target # {} /\ SizeOf(target) = Len(File) /\ sidecar # {} /\ sidecar = target
    BY <1>3 DEF Skips, SameSize, SidecarAgrees
  <2>2. target = Empty \/ target = {File}
    BY <1>1, <2>1 DEF PlaceInv
  <2>3. target # Empty
    <3>1. Len(File) # 0
      BY DownloadAssumption, EmptySeq
    <3>2. SizeOf(Empty) = Len(<<>>)
      BY BlocksOfOne, Zenon DEF SizeOf, Empty
    <3> QED BY <2>1, <3>1, <3>2
  <2> QED BY <2>2, <2>3
<1> QED BY <1>1, <1>2, <1>3 DEF ResumedIsWhole, AnswerInv

\* However often a download is cut, resumed, restarted or damaged: the part is a
\* head of the file, the checksum covers all of it, and what a later run skips is
\* the file the share holds (stream_file, verify_sidecar).
THEOREM DownloadsResumeWhole == DSpec => []ResumedIsWhole
<1>1. DInv /\ [DNext]_dvars => DInv'
  BY DStepInvariant
<1>2. DInit => DInv
  BY DInitInvariant
<1>3. DInv => ResumedIsWhole
  BY InvImpliesWhole
<1> QED BY <1>1, <1>2, <1>3, PTL DEF DSpec

-----------------------------------------------------------------------------
(* The listing *)

Turn(X) == [pc : {"more", "done", "error"}, offset : Nat, got : Seq(X)]
FirstTurn == [pc |-> "more", offset |-> 0, got |-> <<>>]

\* What a page of share makes of t.
NextTurn(share, t, limit) ==
    LET page == Page(share, t.offset, limit)
        news == PageEntries(t.got, page)
    IN IF t.pc # "more" THEN t
       ELSE IF page = <<>> THEN [t EXCEPT !.pc = "done"]
       ELSE IF news.err THEN [t EXCEPT !.pc = "error"]
       ELSE [pc |-> IF t.offset + Len(page) >= Total(share) THEN "done" ELSE "more",
             offset |-> t.offset + Len(page),
             got |-> t.got \o news.entries]

LEMMA PageIs ==
    ASSUME NEW X, NEW share \in Seq(X), NEW offset \in Nat, NEW limit \in Nat \ {0}
    PROVE  /\ Page(share, offset, limit) \in Seq(X)
           /\ Page(share, offset, limit) = <<>> <=> Len(share) <= offset
           /\ offset < Len(share) => offset + Len(Page(share, offset, limit)) <= Len(share)
           /\ \A i \in 1 .. Len(Page(share, offset, limit)) :
                 /\ offset + i \in 1 .. Len(share)
                 /\ Page(share, offset, limit)[i] = share[offset + i]
<1> DEFINE last == IF offset + limit < Len(share) THEN offset + limit ELSE Len(share)
           page == SubSeq(share, offset + 1, last)
<1>1. /\ Len(share) \in Nat /\ last \in Nat /\ last <= Len(share)
      /\ offset < Len(share) <=> offset < last
  OBVIOUS
<1> HIDE DEF last
<1>2. /\ page \in Seq(X) /\ Len(page) = IF offset < last THEN last - offset ELSE 0
      /\ \A i \in 1 .. Len(page) : page[i] = share[offset + i]
  <2>1. \A i \in offset + 1 .. last : share[i] \in X
    BY <1>1
  <2>2. page \in Seq(X) /\ Len(page) = IF offset + 1 <= last THEN last - offset ELSE 0
    BY <1>1, <2>1
  <2> QED BY <1>1, <2>2
<1>3. Page(share, offset, limit) = page
  BY DEF Page, last
<1>4. page = <<>> <=> Len(page) = 0
  BY <1>2, EmptySeq
<1> HIDE DEF page
<1> QED BY <1>1, <1>2, <1>3, <1>4

\* The step keeps the shape of a turn.
LEMMA TurnTyped ==
    ASSUME NEW X, NEW share \in Seq(X), NEW t \in Turn(X), NEW limit \in Nat \ {0}
    PROVE  NextTurn(share, t, limit) \in Turn(X)
<1> DEFINE page == Page(share, t.offset, limit)
<1>1. t.offset \in Nat /\ t.got \in Seq(X)
  BY DEF Turn
<1>2. page \in Seq(X) /\ Len(page) \in Nat
  BY <1>1, PageIs
<1>3. PageEntries(t.got, page).entries = page
  BY DEF PageEntries
<1>4. t.got \o page \in Seq(X)
  BY <1>1, <1>2
<1> HIDE DEF page
<1>5. NextTurn(share, t, limit) \in
         {t, [t EXCEPT !.pc = "done"], [t EXCEPT !.pc = "error"]}
         \cup {[pc |-> c, offset |-> t.offset + Len(page), got |-> t.got \o page] : c \in {"more", "done"}}
  BY <1>3 DEF NextTurn, page
<1> DEFINE off == t.offset + Len(page)
           all == t.got \o page
<1>6. off \in Nat /\ all \in Seq(X)
  BY <1>1, <1>2, <1>4
<1> HIDE DEF off, all
<1>7. NextTurn(share, t, limit) \in
         {t, [t EXCEPT !.pc = "done"], [t EXCEPT !.pc = "error"]}
         \cup {[pc |-> c, offset |-> off, got |-> all] : c \in {"more", "done"}}
  BY <1>5 DEF off, all
<1> QED BY <1>6, <1>7 DEF Turn

\* The turns of a listing, one for each page.
Turns(r, X, shares, limit) ==
    /\ r \in [0 .. Len(shares) -> Turn(X)]
    /\ r[0] = FirstTurn
    /\ \A n \in 1 .. Len(shares) : r[n] = NextTurn(shares[n], r[n - 1], limit)

LEMMA ListingIs ==
    ASSUME NEW X, NEW shares \in Seq(Seq(X)), NEW limit \in Nat \ {0}
    PROVE  \E r : Turns(r, X, shares, limit) /\ Listing(shares, limit) = r[Len(shares)]
<1> DEFINE N == Len(shares)
           step == [x \in (1 .. N) \X Turn(X) |-> NextTurn(shares[x[1]], x[2], limit)]
           Walk(g) == g = [n \in 0 .. N |-> IF n = 0 THEN FirstTurn
                                            ELSE NextTurn(shares[n], g[n - 1], limit)]
<1>1. N \in Nat /\ FirstTurn \in Turn(X) /\ \A n \in 1 .. N : shares[n] \in Seq(X)
  <2>1. <<>> \in Seq(X)
    OBVIOUS
  <2> QED BY <2>1 DEF FirstTurn, Turn
<1>2. step \in [(1 .. N) \X Turn(X) -> Turn(X)]
  BY <1>1, TurnTyped
<1> HIDE DEF N
<1>3. PICK g \in [0 .. N -> Turn(X)] : Iterates(g, N, FirstTurn, step)
  <2> HIDE DEF step
  <2> QED BY <1>1, <1>2, RecursionExists
<1>4. ASSUME NEW n \in 1 .. N PROVE g[n] = NextTurn(shares[n], g[n - 1], limit)
  <2>1. n - 1 \in 0 .. N /\ <<n, g[n - 1]>> \in (1 .. N) \X Turn(X)
    BY <1>1
  <2>2. step[<<n, g[n - 1]>>] = NextTurn(shares[n], g[n - 1], limit)
    BY <2>1
  <2> HIDE DEF step
  <2> QED BY <1>3, <2>2 DEF Iterates
<1>5. Walk(g)
  BY <1>1, <1>3, <1>4 DEF Iterates
<1>6. Listing(shares, limit) = (CHOOSE h : Walk(h))[N]
  BY DEF Listing, NextTurn, FirstTurn, N
<1> DEFINE c == CHOOSE h : Walk(h)
<1>7. Walk(c)
  <2> HIDE DEF Walk
  <2> QED BY <1>5
<1> HIDE DEF c
<1>8. c[0] = FirstTurn /\ \A n \in 1 .. N : c[n] = NextTurn(shares[n], c[n - 1], limit)
  <2>1. c[0] = FirstTurn
    BY <1>1, <1>7
  <2>2. ASSUME NEW n \in 1 .. N PROVE c[n] = NextTurn(shares[n], c[n - 1], limit)
    <3>1. n \in 0 .. N /\ n # 0
      BY <1>1
    <3>2. c[n] = IF n = 0 THEN FirstTurn ELSE NextTurn(shares[n], c[n - 1], limit)
      BY <1>7, <3>1, Zenon
    <3> QED BY <3>1, <3>2
  <2> QED BY <2>1, <2>2
<1>9. c \in [0 .. N -> Turn(X)]
  <2> DEFINE Typed == {n \in 0 .. N : c[n] \in Turn(X)}
  <2>1. 0 \in Typed
    BY <1>1, <1>8
  <2>2. ASSUME NEW n \in 0 .. N, n \in Typed, n < N PROVE n + 1 \in Typed
    <3>1. n + 1 \in 1 .. N /\ (n + 1) - 1 = n
      BY <1>1, <2>2
    <3>2. c[n] \in Turn(X) /\ shares[n + 1] \in Seq(X) /\ c[n + 1] = NextTurn(shares[n + 1], c[n], limit)
      BY <1>1, <1>8, <2>2, <3>1
    <3>3. c[n + 1] \in Turn(X) /\ n + 1 \in 0 .. N
      BY <1>1, <3>1, <3>2, TurnTyped
    <3> QED BY <3>3
  <2>3. 0 .. N \subseteq Typed
    <3> HIDE DEF Typed
    <3> QED BY <1>1, <2>1, <2>2, IntervalInduction
  <2> QED BY <1>7, <2>3
<1> QED BY <1>6, <1>8, <1>9 DEF Turns, c, N

\* As many different entries as a share has, all of them its own, are all of it.
LEMMA AllListed ==
    ASSUME NEW X, NEW got \in Seq(X), NEW share \in Seq(X), IsInjective(got),
           ToSet(got) \subseteq ToSet(share), Len(share) <= Len(got)
    PROVE  ToSet(share) \subseteq ToSet(got)
<1> DEFINE T == ToSet(share)
<1>1. Len(share) \in Nat /\ Len(got) \in Nat
  OBVIOUS
<1>2. share \in Surjection(1 .. Len(share), T) /\ got \in Injection(1 .. Len(got), T)
  <2>1. DOMAIN share = 1 .. Len(share) /\ share = [i \in 1 .. Len(share) |-> share[i]]
    OBVIOUS
  <2>2. DOMAIN got = 1 .. Len(got) /\ got = [i \in 1 .. Len(got) |-> got[i]]
    OBVIOUS
  <2>3. (\A i \in 1 .. Len(share) : share[i] \in T) /\ (\A x \in T : \E i \in 1 .. Len(share) : share[i] = x)
    BY <2>1 DEF ToSet
  <2>4. \A i \in 1 .. Len(got) : got[i] \in T
    BY <2>2 DEF ToSet
  <2> HIDE DEF T
  <2>5. share \in [1 .. Len(share) -> T]
    BY <2>1, <2>3, Zenon
  <2>6. got \in [1 .. Len(got) -> T]
    BY <2>2, <2>4, Zenon
  <2> QED BY <2>3, <2>5, <2>6 DEF Surjection, Injection
<1>3. /\ IsFiniteSet(1 .. Len(share)) /\ Cardinality(1 .. Len(share)) = Len(share)
      /\ Cardinality(1 .. Len(got)) = Len(got)
  <2> DEFINE m == Len(share)
             n == Len(got)
  <2> HIDE DEF m, n
  <2>1. m \in Nat /\ n \in Nat /\ 1 \in Int /\ m \in Int /\ n \in Int
    BY <1>1 DEF m, n
  <2>2. /\ IsFiniteSet(1 .. m) /\ Cardinality(1 .. m) = IF 1 > m THEN 0 ELSE m - 1 + 1
        /\ Cardinality(1 .. n) = IF 1 > n THEN 0 ELSE n - 1 + 1
    BY <2>1, FS_Interval
  <2>3. (IF 1 > m THEN 0 ELSE m - 1 + 1) = m /\ (IF 1 > n THEN 0 ELSE n - 1 + 1) = n
    BY <2>1
  <2> QED BY <2>2, <2>3 DEF m, n
<1> HIDE DEF T
<1>4. IsFiniteSet(T) /\ Cardinality(T) <= Len(share)
  BY <1>2, <1>3, FS_Surjection
<1>5. Cardinality(T) \in Nat
  BY <1>4, FS_CardinalityType
<1>6. /\ Cardinality(1 .. Len(got)) <= Cardinality(T)
      /\ Cardinality(1 .. Len(got)) = Cardinality(T) <=> got \in Surjection(1 .. Len(got), T)
  BY <1>2, <1>4, FS_Injection
<1>7. got \in Surjection(1 .. Len(got), T)
  BY <1>1, <1>3, <1>4, <1>5, <1>6
<1> QED BY <1>7 DEF Surjection, ToSet, T

\* The four things a turn can do.
Over(t, u) == t.pc # "more" /\ u = t
Ends(share, t, u) == /\ t.pc = "more" /\ Len(share) <= t.offset
                     /\ u = [t EXCEPT !.pc = "done"]
Repeats(share, t, u, page) ==
    /\ t.pc = "more" /\ t.offset < Len(share)
    /\ \E i, j \in DOMAIN page : Contains(t.got, page[i]) \/ (i < j /\ page[i] = page[j])
    /\ u = [t EXCEPT !.pc = "error"]
Adds(share, t, u, page) ==
    /\ t.pc = "more" /\ t.offset < Len(share)
    /\ \A i, j \in DOMAIN page : ~Contains(t.got, page[i]) /\ (i < j => page[i] # page[j])
    /\ u = [pc |-> IF t.offset + Len(page) >= Len(share) THEN "done" ELSE "more",
            offset |-> t.offset + Len(page), got |-> t.got \o page]

LEMMA TurnCases ==
    ASSUME NEW X, NEW share \in Seq(X), NEW t \in Turn(X), NEW limit \in Nat \ {0},
           NEW u, u = NextTurn(share, t, limit),
           NEW page, page = Page(share, t.offset, limit)
    PROVE  \/ Over(t, u) \/ Ends(share, t, u)
           \/ Repeats(share, t, u, page) \/ Adds(share, t, u, page)
<1>1. t.offset \in Nat /\ Len(share) \in Nat
  BY DEF Turn
<1>2. page = <<>> <=> Len(share) <= t.offset
  BY <1>1, PageIs
<1> DEFINE err == \E i, j \in DOMAIN page : Contains(t.got, page[i]) \/ (i < j /\ page[i] = page[j])
<1>3. u = IF t.pc # "more" THEN t
          ELSE IF page = <<>> THEN [t EXCEPT !.pc = "done"]
          ELSE IF err THEN [t EXCEPT !.pc = "error"]
          ELSE [pc |-> IF t.offset + Len(page) >= Len(share) THEN "done" ELSE "more",
                offset |-> t.offset + Len(page), got |-> t.got \o page]
  BY DEF NextTurn, PageEntries, Total
<1>4. CASE t.pc # "more"
  BY <1>3, <1>4 DEF Over
<1>5. CASE t.pc = "more" /\ page = <<>>
  BY <1>2, <1>3, <1>5 DEF Ends
<1>6. CASE t.pc = "more" /\ page # <<>> /\ err
  <2>1. t.offset < Len(share)
    BY <1>1, <1>2, <1>6
  <2>2. u = [t EXCEPT !.pc = "error"]
    <3> HIDE DEF err
    <3> QED BY <1>3, <1>6
  <2> QED BY <1>6, <2>1, <2>2, Zenon DEF Repeats
<1>7. CASE t.pc = "more" /\ page # <<>> /\ ~err
  <2>1. t.offset < Len(share)
    BY <1>1, <1>2, <1>7
  <2>2. u = [pc |-> IF t.offset + Len(page) >= Len(share) THEN "done" ELSE "more",
             offset |-> t.offset + Len(page), got |-> t.got \o page]
    <3> HIDE DEF err
    <3> QED BY <1>3, <1>7
  <2>3. \A i, j \in DOMAIN page : ~Contains(t.got, page[i]) /\ (i < j => page[i] # page[j])
    BY <1>7, Zenon
  <2> QED BY <1>7, <2>1, <2>2, <2>3, Zenon DEF Adds
<1> QED BY <1>4, <1>5, <1>6, <1>7

\* What is known of the entries behind a page that was taken on.
LEMMA AddedIs ==
    ASSUME NEW X, NEW got \in Seq(X), NEW page \in Seq(X)
    PROVE  /\ got \o page \in Seq(X) /\ Len(got \o page) = Len(got) + Len(page)
           /\ \A i \in 1 .. Len(got) : (got \o page)[i] = got[i]
           /\ \A i \in 1 .. Len(page) : (got \o page)[Len(got) + i] = page[i]
           /\ ToSet(got \o page) = ToSet(got) \cup ToSet(page)
<1> DEFINE all == got \o page
<1>1. /\ Len(got) \in Nat /\ Len(page) \in Nat
      /\ all \in Seq(X) /\ Len(all) = Len(got) + Len(page)
      /\ \A i \in 1 .. Len(got) : all[i] = got[i]
      /\ \A i \in 1 .. Len(page) : all[Len(got) + i] = page[i]
  OBVIOUS
<1>2. DOMAIN all = 1 .. Len(all) /\ DOMAIN got = 1 .. Len(got) /\ DOMAIN page = 1 .. Len(page)
  BY <1>1
<1> HIDE DEF all
<1>3. ASSUME NEW x \in ToSet(all) PROVE x \in ToSet(got) \cup ToSet(page)
  <2>1. PICK i \in 1 .. Len(all) : x = all[i]
    BY <1>2 DEF ToSet
  <2>2. CASE i <= Len(got)
    <3>1. i \in 1 .. Len(got) /\ x = got[i]
      BY <1>1, <2>1, <2>2
    <3> QED BY <1>2, <3>1 DEF ToSet
  <2>3. CASE i > Len(got)
    <3>1. i - Len(got) \in 1 .. Len(page) /\ Len(got) + (i - Len(got)) = i
      BY <1>1, <2>3
    <3>2. x = page[i - Len(got)]
      BY <1>1, <2>1, <3>1
    <3> QED BY <1>2, <3>1, <3>2 DEF ToSet
  <2> QED BY <1>1, <2>2, <2>3
<1>4. ASSUME NEW x \in ToSet(got) \cup ToSet(page) PROVE x \in ToSet(all)
  <2>1. CASE x \in ToSet(got)
    <3>1. PICK i \in 1 .. Len(got) : x = got[i]
      BY <1>2, <2>1 DEF ToSet
    <3>2. i \in 1 .. Len(all) /\ x = all[i]
      BY <1>1, <3>1
    <3> QED BY <1>2, <3>2 DEF ToSet
  <2>2. CASE x \in ToSet(page)
    <3>1. PICK i \in 1 .. Len(page) : x = page[i]
      BY <1>2, <2>2 DEF ToSet
    <3>2. Len(got) + i \in 1 .. Len(all) /\ x = all[Len(got) + i]
      BY <1>1, <3>1
    <3> QED BY <1>2, <3>2 DEF ToSet
  <2> QED BY <2>1, <2>2
<1> QED BY <1>1, <1>3, <1>4 DEF all

\* Nothing is listed twice, and the next offset is the number of entries.
Single(t) == IsInjective(t.got) /\ t.offset = Len(t.got)

LEMMA SingleKept ==
    ASSUME NEW X, NEW share \in Seq(X), NEW t \in Turn(X), NEW limit \in Nat \ {0}, Single(t)
    PROVE  Single(NextTurn(share, t, limit))
<1> DEFINE page == Page(share, t.offset, limit)
           u == NextTurn(share, t, limit)
<1>1. t.offset \in Nat /\ t.got \in Seq(X) /\ page \in Seq(X)
  BY PageIs DEF Turn
<1> HIDE DEF page, u
<1>2. CASE Over(t, u)
  BY <1>2 DEF Over, u
<1>3. CASE Ends(share, t, u) \/ Repeats(share, t, u, page)
  BY <1>3 DEF Ends, Repeats, Single, Turn, u
<1>4. CASE Adds(share, t, u, page)
  <2> DEFINE got == t.got
             all == got \o page
  <2>1. /\ all \in Seq(X) /\ Len(all) = Len(got) + Len(page)
        /\ \A i \in 1 .. Len(got) : all[i] = got[i]
        /\ \A i \in 1 .. Len(page) : all[Len(got) + i] = page[i]
    BY <1>1, AddedIs
  <2>2. u.got = all /\ u.offset = Len(all)
    BY <1>4, <2>1 DEF Adds, Single
  <2>3. /\ \A i \in 1 .. Len(page), k \in 1 .. Len(got) : got[k] # page[i]
        /\ \A i, j \in 1 .. Len(page) : i < j => page[i] # page[j]
    BY <1>1, <1>4 DEF Adds, Contains
  <2>4. \A i, k \in 1 .. Len(got) : got[i] = got[k] => i = k
    BY <1>1 DEF Single, IsInjective
  <2>5. Len(got) \in Nat /\ Len(page) \in Nat
    BY <1>1
  <2> HIDE DEF got, all
  <2>6. ASSUME NEW a \in 1 .. Len(all), NEW b \in 1 .. Len(all), a < b PROVE all[a] # all[b]
    <3>1. CASE b <= Len(got)
      BY <2>1, <2>4, <2>5, <2>6, <3>1
    <3>2. CASE b > Len(got)
      <4>1. b - Len(got) \in 1 .. Len(page) /\ Len(got) + (b - Len(got)) = b
        BY <2>1, <2>5, <3>2
      <4>2. all[b] = page[b - Len(got)]
        BY <2>1, <4>1
      <4>3. CASE a <= Len(got)
        BY <2>1, <2>3, <2>5, <4>1, <4>2, <4>3
      <4>4. CASE a > Len(got)
        <5>1. a - Len(got) \in 1 .. Len(page) /\ Len(got) + (a - Len(got)) = a
          BY <2>1, <2>5, <4>4
        <5>2. all[a] = page[a - Len(got)] /\ a - Len(got) < b - Len(got)
          BY <2>1, <2>5, <2>6, <5>1
        <5> QED BY <2>3, <4>1, <4>2, <5>1, <5>2
      <4> QED BY <2>5, <4>3, <4>4
    <3> QED BY <2>5, <3>1, <3>2
  <2>7. DOMAIN all = 1 .. Len(all) /\ Len(all) \in Nat
    BY <2>1
  <2>8. ASSUME NEW a \in 1 .. Len(all), NEW b \in 1 .. Len(all), all[a] = all[b] PROVE a = b
    <3>1. ~(a < b) /\ ~(b < a)
      BY <2>6, <2>8
    <3> QED BY <2>7, <3>1
  <2> QED BY <2>2, <2>7, <2>8 DEF Single, IsInjective, u
<1> QED BY <1>2, <1>3, <1>4, TurnCases DEF page, u

\* Of a folder that grows: entries are those of the page's share, and an end is
\* no end before all that was there at first is listed.
Within(first, share, t) ==
    /\ ToSet(t.got) \subseteq ToSet(share) /\ ToSet(first) \subseteq ToSet(share)
    /\ t.pc = "done" => ToSet(first) \subseteq ToSet(t.got)

LEMMA WithinKept ==
    ASSUME NEW X, NEW share \in Seq(X), NEW t \in Turn(X), NEW limit \in Nat \ {0}, Single(t),
           NEW first \in Seq(X), ToSet(first) \subseteq ToSet(share),
           ToSet(t.got) \subseteq ToSet(share),
           t.pc = "done" => ToSet(first) \subseteq ToSet(t.got)
    PROVE  Within(first, share, NextTurn(share, t, limit))
<1> DEFINE page == Page(share, t.offset, limit)
           u == NextTurn(share, t, limit)
<1>1. /\ t.offset \in Nat /\ t.got \in Seq(X) /\ page \in Seq(X) /\ u \in Turn(X)
      /\ Len(share) \in Nat /\ Len(t.got) \in Nat /\ t.offset = Len(t.got)
      /\ \A i \in 1 .. Len(page) : /\ t.offset + i \in 1 .. Len(share)
                                   /\ page[i] = share[t.offset + i]
  <2>1. t.offset \in Nat /\ t.got \in Seq(X)
    BY DEF Turn
  <2>2. u \in Turn(X)
    BY TurnTyped
  <2>3. page \in Seq(X) /\ \A i \in 1 .. Len(page) : /\ t.offset + i \in 1 .. Len(share)
                                                       /\ page[i] = share[t.offset + i]
    <3> DEFINE o == t.offset
    <3>1. o \in Nat /\ page = Page(share, o, limit)
      BY <2>1
    <3> HIDE DEF o, page
    <3>2. page \in Seq(X) /\ \A i \in 1 .. Len(page) : o + i \in 1 .. Len(share) /\ page[i] = share[o + i]
      BY <3>1, PageIs
    <3> QED BY <3>2 DEF o
  <2> QED BY <2>1, <2>2, <2>3 DEF Single
<1>2. u.got \in Seq(X) /\ IsInjective(u.got)
  BY <1>1, SingleKept DEF Turn, Single
<1> HIDE DEF page, u
<1>3. CASE Over(t, u)
  BY <1>3 DEF Over, Within, u
<1>4. CASE Ends(share, t, u)
  <2>1. u.got = t.got
    BY <1>4 DEF Ends, Turn
  <2>2. Len(share) <= Len(t.got)
    BY <1>1, <1>4 DEF Ends
  <2>3. ToSet(share) \subseteq ToSet(t.got)
    BY <1>1, <2>2, AllListed DEF Single
  <2> QED BY <2>1, <2>3 DEF Within, u
<1>5. CASE Repeats(share, t, u, page)
  <2>1. u.got = t.got /\ u.pc = "error"
    BY <1>5 DEF Repeats, Turn
  <2> QED BY <2>1 DEF Within, u
<1>6. CASE Adds(share, t, u, page)
  <2>1. /\ u.got = t.got \o page /\ Len(u.got) = Len(t.got) + Len(page)
        /\ ToSet(u.got) = ToSet(t.got) \cup ToSet(page)
    BY <1>1, <1>6, AddedIs DEF Adds
  <2>2. ToSet(page) \subseteq ToSet(share)
    <3>1. DOMAIN page = 1 .. Len(page) /\ DOMAIN share = 1 .. Len(share)
      BY <1>1
    <3> QED BY <1>1, <3>1 DEF ToSet
  <2>3. ASSUME u.pc = "done" PROVE ToSet(share) \subseteq ToSet(u.got)
    <3>1. t.offset + Len(page) >= Len(share)
      BY <1>6, <2>3 DEF Adds
    <3>2. Len(share) <= Len(u.got)
      BY <1>1, <2>1, <3>1
    <3> QED BY <1>2, <2>1, <2>2, <3>2, AllListed
  <2> QED BY <2>1, <2>2, <2>3 DEF Within, u
<1> QED BY <1>3, <1>4, <1>5, <1>6, TurnCases DEF page, u

\* Of a folder that stays as it is: its first entries, and at the end all.
Standing(share, t) ==
    /\ t.pc # "error" /\ t.offset = Len(t.got) /\ t.offset <= Len(share)
    /\ \A i \in 1 .. Len(t.got) : t.got[i] = share[i]
    /\ t.pc = "done" => t.offset = Len(share)

LEMMA StandingKept ==
    ASSUME NEW X, NEW share \in Seq(X), IsInjective(share), NEW t \in Turn(X),
           NEW limit \in Nat \ {0}, Standing(share, t)
    PROVE  Standing(share, NextTurn(share, t, limit))
<1> DEFINE page == Page(share, t.offset, limit)
           u == NextTurn(share, t, limit)
           got == t.got
<1>1. /\ t.offset \in Nat /\ got \in Seq(X) /\ page \in Seq(X)
      /\ Len(share) \in Nat /\ Len(got) \in Nat /\ Len(page) \in Nat /\ t.offset = Len(got)
      /\ \A i \in 1 .. Len(page) : /\ Len(got) + i \in 1 .. Len(share)
                                   /\ page[i] = share[Len(got) + i]
      /\ t.offset < Len(share) => t.offset + Len(page) <= Len(share)
  <2>1. t.offset \in Nat /\ got \in Seq(X) /\ t.offset = Len(got)
    BY DEF Turn, Standing
  <2>2. /\ page \in Seq(X)
        /\ t.offset < Len(share) => t.offset + Len(page) <= Len(share)
        /\ \A i \in 1 .. Len(page) : /\ t.offset + i \in 1 .. Len(share)
                                     /\ page[i] = share[t.offset + i]
    <3> DEFINE o == t.offset
    <3>1. o \in Nat /\ page = Page(share, o, limit)
      BY <2>1
    <3> HIDE DEF o, page
    <3>2. /\ page \in Seq(X)
          /\ o < Len(share) => o + Len(page) <= Len(share)
          /\ \A i \in 1 .. Len(page) : o + i \in 1 .. Len(share) /\ page[i] = share[o + i]
      BY <3>1, PageIs
    <3> QED BY <3>2 DEF o
  <2> HIDE DEF page, got
  <2>3. Len(share) \in Nat /\ Len(got) \in Nat /\ Len(page) \in Nat
    BY <2>1, <2>2
  <2> QED BY <2>1, <2>2, <2>3
<1> HIDE DEF page, u
<1>2. CASE Over(t, u)
  BY <1>2 DEF Over, u
<1>3. CASE Ends(share, t, u)
  BY <1>1, <1>3 DEF Ends, Standing, Turn, u
<1>4. CASE Repeats(share, t, u, page)
  <2>1. \A i, j \in 1 .. Len(share) : share[i] = share[j] => i = j
    BY DEF IsInjective
  <2>2. PICK i \in 1 .. Len(page), j \in 1 .. Len(page) :
           (\E k \in 1 .. Len(got) : got[k] = page[i]) \/ (i < j /\ page[i] = page[j])
    BY <1>1, <1>4 DEF Repeats, Contains
  <2>3. ASSUME NEW k \in 1 .. Len(got), got[k] = page[i] PROVE FALSE
    <3>1. share[k] = share[Len(got) + i] /\ k \in 1 .. Len(share) /\ Len(got) + i \in 1 .. Len(share)
      BY <1>1, <2>3 DEF Standing
    <3>2. k = Len(got) + i
      BY <2>1, <3>1
    <3> QED BY <1>1, <3>2
  <2>4. ASSUME i < j, page[i] = page[j] PROVE FALSE
    <3>1. /\ share[Len(got) + i] = share[Len(got) + j]
          /\ Len(got) + i \in 1 .. Len(share) /\ Len(got) + j \in 1 .. Len(share)
      BY <1>1, <2>4
    <3>2. Len(got) + i = Len(got) + j
      BY <2>1, <3>1
    <3> QED BY <1>1, <2>4, <3>2
  <2> QED BY <2>2, <2>3, <2>4
<1>5. CASE Adds(share, t, u, page)
  <2> DEFINE all == got \o page
  <2>1. /\ all \in Seq(X) /\ Len(all) = Len(got) + Len(page)
        /\ \A i \in 1 .. Len(got) : all[i] = got[i]
        /\ \A i \in 1 .. Len(page) : all[Len(got) + i] = page[i]
    BY <1>1, AddedIs
  <2> HIDE DEF all
  <2>2. /\ u.got = all /\ u.offset = Len(all) /\ Len(all) <= Len(share)
        /\ u.pc \in {"done", "more"} /\ (u.pc = "done" => Len(all) >= Len(share))
    BY <1>1, <1>5, <2>1 DEF Adds, all
  <2>3. ASSUME NEW i \in 1 .. Len(all) PROVE all[i] = share[i]
    <3>1. CASE i <= Len(got)
      BY <1>1, <2>1, <3>1 DEF Standing
    <3>2. CASE i > Len(got)
      <4>1. i - Len(got) \in 1 .. Len(page) /\ Len(got) + (i - Len(got)) = i
        BY <1>1, <2>1, <3>2
      <4> QED BY <1>1, <2>1, <4>1
    <3> QED BY <1>1, <3>1, <3>2
  <2> QED BY <1>1, <2>1, <2>2, <2>3 DEF Standing, u
<1> QED BY <1>2, <1>3, <1>4, <1>5, TurnCases DEF page, u

\* A listing that ends without an error repeats nothing, and lacks nothing that
\* was in the folder throughout while it grew; one of a folder that stays as it is
\* gives the folder.  No share lists an entry twice.  (list_contents)
THEOREM ListingIsWhole ==
    ASSUME NEW X, NEW shares \in Seq(Seq(X)), \A n \in 1 .. Len(shares) : IsInjective(shares[n]),
           NEW limit \in Nat \ {0}
    PROVE  ListingLaw(shares, limit)
<1> DEFINE N == Len(shares)
           first == shares[1]
           grows == \A n \in 1 .. N - 1 : ToSet(shares[n]) \subseteq ToSet(shares[n + 1])
           stands == \A n \in 1 .. N : shares[n] = first
<1>1. N \in Nat /\ DOMAIN shares = 1 .. N /\ \A n \in 1 .. N : shares[n] \in Seq(X)
  OBVIOUS
<1>2. PICK r : Turns(r, X, shares, limit) /\ Listing(shares, limit) = r[N]
  BY ListingIs
<1> HIDE DEF N
<1>3. /\ r[0] = FirstTurn /\ \A n \in 0 .. N : r[n] \in Turn(X)
      /\ \A n \in 1 .. N : r[n] = NextTurn(shares[n], r[n - 1], limit)
  BY <1>2 DEF Turns, N
<1>4. ASSUME NEW n \in 0 .. N, n < N
      PROVE  /\ n + 1 \in 1 .. N /\ shares[n + 1] \in Seq(X) /\ IsInjective(shares[n + 1])
             /\ r[n] \in Turn(X) /\ r[n + 1] = NextTurn(shares[n + 1], r[n], limit)
  <2>1. n + 1 \in 1 .. N /\ (n + 1) - 1 = n
    BY <1>1, <1>4
  <2> QED BY <1>1, <1>3, <2>1 DEF N
<1>5. ASSUME NEW n \in 0 .. N PROVE Single(r[n])
  <2> DEFINE S == {k \in 0 .. N : Single(r[k])}
  <2>1. 0 \in S
    BY <1>1, <1>3 DEF FirstTurn, Single, IsInjective
  <2>2. ASSUME NEW k \in 0 .. N, k \in S, k < N PROVE k + 1 \in S
    BY <1>4, <2>2, SingleKept
  <2>3. 0 .. N \subseteq S
    <3> HIDE DEF S
    <3> QED BY <1>1, <2>1, <2>2, IntervalInduction
  <2> QED BY <2>3
<1>6. ASSUME grows, r[N].pc = "done" PROVE ToSet(first) \subseteq ToSet(r[N].got)
  <2> DEFINE S == {k \in 0 .. N : k = 0 \/ Within(first, shares[k], r[k])}
  <2>1. ASSUME NEW k \in 0 .. N, k \in S, k < N PROVE k + 1 \in S
    <3>1. /\ Single(r[k]) /\ k + 1 \in 1 .. N /\ shares[k + 1] \in Seq(X)
          /\ r[k] \in Turn(X) /\ r[k + 1] = NextTurn(shares[k + 1], r[k], limit)
      BY <1>4, <1>5, <2>1
    <3>2. /\ first \in Seq(X) /\ ToSet(first) \subseteq ToSet(shares[k + 1])
          /\ ToSet(r[k].got) \subseteq ToSet(shares[k + 1])
          /\ r[k].pc = "done" => ToSet(first) \subseteq ToSet(r[k].got)
      <4>1. first \in Seq(X)
        BY <1>1, <2>1
      <4>2. CASE k = 0
        <5>1. r[k].got = <<>> /\ r[k].pc = "more" /\ shares[k + 1] = first
          BY <1>3, <4>2 DEF FirstTurn
        <5> QED BY <4>1, <5>1 DEF ToSet
      <4>3. CASE k # 0
        <5>1. k \in 1 .. N - 1 /\ Within(first, shares[k], r[k])
          BY <1>1, <2>1, <4>3
        <5>2. ToSet(shares[k]) \subseteq ToSet(shares[k + 1])
          BY <1>6, <5>1
        <5> QED BY <4>1, <5>1, <5>2 DEF Within
      <4> QED BY <4>2, <4>3
    <3> HIDE DEF first
    <3>3. Within(first, shares[k + 1], r[k + 1])
      BY <3>1, <3>2, WithinKept
    <3> QED BY <1>1, <3>1, <3>3
  <2>2. 0 \in S
    BY <1>1
  <2>3. 0 .. N \subseteq S
    <3> HIDE DEF S
    <3> QED BY <1>1, <2>1, <2>2, IntervalInduction
  <2>4. N # 0
    BY <1>3, <1>6 DEF FirstTurn
  <2>5. Within(first, shares[N], r[N])
    BY <1>1, <2>3, <2>4
  <2> QED BY <1>6, <2>5 DEF Within
<1>7. ASSUME stands PROVE r[N].pc # "error" /\ (r[N].pc = "done" => r[N].got = first)
  <2>1. CASE N = 0
    BY <1>3, <2>1 DEF FirstTurn
  <2>2. CASE N # 0
    <3>1. first \in Seq(X) /\ IsInjective(first) /\ Len(first) \in Nat
      BY <1>1, <2>2 DEF N
    <3> HIDE DEF first
    <3> DEFINE S == {k \in 0 .. N : Standing(first, r[k])}
    <3>2. 0 \in S
      BY <1>1, <1>3, <3>1 DEF FirstTurn, Standing
    <3>3. ASSUME NEW k \in 0 .. N, k \in S, k < N PROVE k + 1 \in S
      <4>1. k + 1 \in 1 .. N /\ r[k] \in Turn(X) /\ r[k + 1] = NextTurn(first, r[k], limit)
        BY <1>4, <1>7, <3>3
      <4>2. Standing(first, r[k + 1])
        BY <3>1, <3>3, <4>1, StandingKept
      <4> QED BY <1>1, <4>1, <4>2
    <3>4. 0 .. N \subseteq S
      <4> HIDE DEF S
      <4> QED BY <1>1, <3>2, <3>3, IntervalInduction
    <3>5. Standing(first, r[N]) /\ r[N].got \in Seq(X)
      BY <1>1, <1>3, <3>4 DEF Turn
    <3>6. ASSUME r[N].pc = "done" PROVE r[N].got = first
      <4>1. Len(r[N].got) = Len(first) /\ \A i \in 1 .. Len(first) : r[N].got[i] = first[i]
        BY <3>5, <3>6 DEF Standing
      <4> QED BY <3>1, <3>5, <4>1, SeqEqual
    <3> QED BY <3>5, <3>6 DEF Standing
  <2> QED BY <2>1, <2>2
<1>8. IsInjective(r[N].got)
  BY <1>1, <1>5 DEF Single
<1> QED BY <1>1, <1>2, <1>6, <1>7, <1>8 DEF ListingLaw, N

-----------------------------------------------------------------------------
(* A stored text *)

\* What has been read when the reading has come to line e.
ReadTo(lines, at) ==
    /\ at \in [line_start : Nat, content : SUBSET Nat, line_end : Nat, total_lines : Nat]
    /\ at.line_end <= lines /\ at.content = 0 .. at.line_end - 1

\* A window that starts within the text brings what follows, at least one line of it.
LEMMA WindowIs ==
    ASSUME NEW lines \in Nat, NEW start \in 0 .. lines, NEW max_lines \in Int
    PROVE  LET w == Window(lines, start, max_lines)
           IN /\ w \in [line_start : Nat, content : SUBSET Nat, line_end : Nat, total_lines : Nat]
              /\ w.line_end \in start .. lines /\ w.content = start .. w.line_end - 1
              /\ start < lines => start < w.line_end
<1> DEFINE size == Greater(1, Lesser(max_lines, MaxLimit))
           content == {n \in start .. start + size - 1 : n < lines}
           last == IF start + size - 1 < lines - 1 THEN start + size - 1 ELSE lines - 1
           w == Window(lines, start, max_lines)
<1>1. size \in Nat \ {0} /\ start \in Nat
  BY QueryAssumption DEF Greater, Lesser
<1>2. Greater(0, start) = start
  BY <1>1 DEF Greater
<1> HIDE DEF size
<1>3. content = start .. last /\ start \in Int /\ last \in Int /\ last + 1 \in start .. lines /\ (start < lines => start <= last)
  BY <1>1
<1>4. content \subseteq Nat
  BY <1>1
<1>5. w = [line_start |-> start, content |-> content,
           line_end |-> start + Cardinality(content), total_lines |-> lines]
  BY <1>2 DEF Window, size
<1> HIDE DEF content, last
<1>6. Cardinality(content) = IF start > last THEN 0 ELSE last - start + 1
  BY <1>3, FS_Interval
<1>7. start + Cardinality(content) = last + 1
  BY <1>1, <1>3, <1>6
<1>8. content = start .. (start + Cardinality(content)) - 1
  BY <1>1, <1>3, <1>7
<1> DEFINE end == start + Cardinality(content)
<1>9. end \in Nat /\ end \in start .. lines /\ (start < lines => start < end) /\ content = start .. end - 1
  BY <1>1, <1>3, <1>7, <1>8
<1> HIDE DEF end
<1>10. w = [line_start |-> start, content |-> content, line_end |-> end, total_lines |-> lines]
  BY <1>5 DEF end
<1> HIDE DEF w
<1>11. /\ w \in [line_start : Nat, content : SUBSET Nat, line_end : Nat, total_lines : Nat]
       /\ w.line_end = end /\ w.content = content
  BY <1>1, <1>4, <1>9, <1>10
<1> QED BY <1>9, <1>11 DEF w

\* read_tool_output gives a text of any length whole, in windows of any size.
\* (_read_window)
THEOREM TextsAreReadWhole ==
    ASSUME NEW lines \in Nat, NEW max_lines \in Int
    PROVE  PagingLaw(lines, max_lines)
<1> DEFINE N == lines
           A == {at \in [line_start : Nat, content : SUBSET Nat, line_end : Nat, total_lines : Nat] :
                    ReadTo(lines, at)}
           first == Window(lines, 0, max_lines)
           To(n, x) ==
               IF x.line_end = lines THEN x
               ELSE LET w == Window(lines, x.line_end, max_lines) IN [w EXCEPT !.content = @ \cup x.content]
<1>1. N \in Nat /\ first \in A /\ (first.line_end = lines \/ 0 < first.line_end)
  <2>1. 0 \in 0 .. lines
    OBVIOUS
  <2>2. /\ first \in [line_start : Nat, content : SUBSET Nat, line_end : Nat, total_lines : Nat]
        /\ first.line_end \in 0 .. lines /\ first.content = 0 .. first.line_end - 1
        /\ 0 < lines => 0 < first.line_end
    BY <2>1, WindowIs
  <2> HIDE DEF first
  <2> QED BY <2>2 DEF ReadTo
<1>a. ASSUME NEW n \in 1 .. N, NEW x \in A
      PROVE  To(n, x) \in A /\ (To(n, x).line_end = lines \/ x.line_end < To(n, x).line_end)
  <2>1. CASE x.line_end = lines
    BY <2>1
  <2>2. CASE x.line_end # lines
    <3> DEFINE w == Window(lines, x.line_end, max_lines)
               y == [w EXCEPT !.content = w.content \cup x.content]
    <3>1. x.line_end \in 0 .. lines /\ x.line_end < lines /\ x.content = 0 .. x.line_end - 1
      BY <2>2 DEF ReadTo
    <3>2. /\ w \in [line_start : Nat, content : SUBSET Nat, line_end : Nat, total_lines : Nat]
          /\ w.line_end \in x.line_end .. lines /\ w.content = x.line_end .. w.line_end - 1
          /\ x.line_end < w.line_end
      BY <3>1, WindowIs
    <3>3. To(n, x) = y
      BY <2>2
    <3> HIDE DEF w, To
    <3>4. y \in [line_start : Nat, content : SUBSET Nat, line_end : Nat, total_lines : Nat]
          /\ y.line_end = w.line_end /\ y.content = w.content \cup x.content
      BY <3>1, <3>2
    <3> HIDE DEF y
    <3>5. y.content = 0 .. y.line_end - 1
      BY <3>1, <3>2, <3>4
    <3> QED BY <3>1, <3>2, <3>3, <3>4, <3>5 DEF ReadTo
  <2> QED BY <2>1, <2>2
<1>2. \A n \in 1 .. N, x \in A : To(n, x) \in A
  BY <1>a
<1>b. Paging(lines, max_lines) = (CHOOSE h : h = [n \in 0 .. N |-> IF n = 0 THEN first ELSE To(n, h[n - 1])])[N]
  BY DEF Paging
<1>c. \A x \in A : x.line_end \in 0 .. lines /\ x.content = 0 .. x.line_end - 1
  BY DEF ReadTo
<1> HIDE DEF N, A, first, To
<1> DEFINE step == [x \in (1 .. N) \X A |-> To(x[1], x[2])]
           Walk(h) == h = [n \in 0 .. N |-> IF n = 0 THEN first ELSE To(n, h[n - 1])]
           c == CHOOSE h : Walk(h)
<1>3. step \in [(1 .. N) \X A -> A]
  BY <1>2
<1>4. PICK g \in [0 .. N -> A] : Iterates(g, N, first, step)
  <2> HIDE DEF step
  <2> QED BY <1>1, <1>3, RecursionExists
<1>5. Walk(g)
  <2>1. ASSUME NEW n \in 0 .. N PROVE g[n] = IF n = 0 THEN first ELSE To(n, g[n - 1])
    <3>1. CASE n = 0
      BY <1>4, <3>1 DEF Iterates
    <3>2. CASE n # 0
      <4>1. n \in 1 .. N /\ n - 1 \in 0 .. N
        BY <1>1, <3>2
      <4>2. g[n] = step[<<n, g[n - 1]>>]
        BY <1>4, <4>1 DEF Iterates
      <4> QED BY <3>2, <4>1, <4>2
    <3> QED BY <3>1, <3>2
  <2> QED BY <2>1
<1>6. Walk(c)
  <2> HIDE DEF Walk
  <2> QED BY <1>5
<1> HIDE DEF c
<1>7. c[0] = first /\ \A n \in 1 .. N : c[n] = To(n, c[n - 1])
  <2>1. \A n \in 0 .. N : c[n] = IF n = 0 THEN first ELSE To(n, c[n - 1])
    BY <1>6, Zenon
  <2> QED BY <1>1, <2>1
<1>8. c \in [0 .. N -> A]
  <2> DEFINE Typed == {n \in 0 .. N : c[n] \in A}
  <2>1. 0 \in Typed
    BY <1>1, <1>7
  <2>2. ASSUME NEW n \in 0 .. N, n \in Typed, n < N PROVE n + 1 \in Typed
    <3>1. n + 1 \in 1 .. N /\ (n + 1) - 1 = n
      BY <1>1, <2>2
    <3>2. c[n + 1] = To(n + 1, c[n])
      BY <1>7, <3>1
    <3> QED BY <1>1, <1>2, <2>2, <3>1, <3>2
  <2>3. 0 .. N \subseteq Typed
    <3> HIDE DEF Typed
    <3> QED BY <1>1, <2>1, <2>2, IntervalInduction
  <2>4. c = [n \in 0 .. N |-> c[n]]
    BY <1>6, Zenon
  <2> QED BY <2>3, <2>4
<1>9. Paging(lines, max_lines) = c[N]
  BY <1>b, Zenon DEF c
<1> DEFINE Past(n) == c[n].line_end = lines \/ n < c[n].line_end
           S == {n \in 0 .. N : Past(n)}
<1>10. 0 \in S
  BY <1>1, <1>7
<1>11. ASSUME NEW n \in 0 .. N, n \in S, n < N PROVE n + 1 \in S
  <2>1. n + 1 \in 1 .. N /\ (n + 1) - 1 = n /\ c[n] \in A
    BY <1>1, <1>8, <1>11
  <2>2. c[n + 1] = To(n + 1, c[n])
    BY <1>7, <2>1
  <2>3. c[n + 1] \in A /\ (c[n + 1].line_end = lines \/ c[n].line_end < c[n + 1].line_end)
    BY <1>a, <2>1, <2>2
  <2>4. c[n].line_end \in 0 .. lines /\ c[n + 1].line_end \in 0 .. lines
    BY <1>c, <2>1, <2>3
  <2> QED BY <1>1, <1>11, <2>1, <2>3, <2>4 DEF N
<1>12. N \in S
  <2> HIDE DEF S
  <2>1. 0 .. N \subseteq S
    BY <1>1, <1>10, <1>11, IntervalInduction
  <2> QED BY <1>1, <2>1
<1>13. c[N].line_end = lines /\ c[N].content = 0 .. lines - 1
  BY <1>1, <1>c, <1>8, <1>12 DEF N
<1> QED BY <1>9, <1>13 DEF PagingLaw

-----------------------------------------------------------------------------
(* The manifests of the datasets *)

Hash == Nat \ {Missing, UnreadableFile}
Manifest == [parses : BOOLEAN, fits : BOOLEAN, sha : Hash, pins : Seq(Hash)]

\* What lies at the paths of n files: no file has the hash of a placeholder.
OnDisk(n) == [1 .. n -> (Hash \ {Placeholder}) \cup {Missing, UnreadableFile}]

\* verify's exit code for one manifest, without the counts.
LEMMA VerifyExitIs ==
    ASSUME NEW m \in Manifest, NEW on_disk \in OnDisk(Len(m.pins)), NEW strict \in BOOLEAN,
           Validates(m)
    PROVE  VerifyExit(<<[manifest |-> m, on_disk |-> on_disk]>>, strict) =
              IF \E i \in DOMAIN m.pins : /\ on_disk[i] # Missing
                                          /\ m.pins[i] # Placeholder
                                          /\ on_disk[i] # m.pins[i] THEN 1
              ELSE IF strict /\ \E i \in DOMAIN m.pins : on_disk[i] = Missing THEN 2
              ELSE 0
<1> DEFINE D == {i \in DOMAIN m.pins : /\ on_disk[i] # Missing
                                       /\ m.pins[i] # Placeholder
                                       /\ on_disk[i] # m.pins[i]}
           G == {i \in DOMAIN m.pins : on_disk[i] = Missing}
           all == <<[manifest |-> m, on_disk |-> on_disk]>>
           one == VerifyOne(m, on_disk)
<1>1. one = [mismatches |-> D, missing |-> G]
  BY DEF VerifyOne
<1> HIDE DEF D, G, one
<1>2. all # <<>> /\ DOMAIN all = {1} /\ all[1].manifest = m /\ all[1].on_disk = on_disk
  OBVIOUS
<1> HIDE DEF all
<1>3. VerifyExit(all, strict) =
         CASE one.mismatches # {} -> 1
           [] ~(one.mismatches # {}) /\ strict /\ one.missing # {} -> 2
           [] OTHER -> 0
  BY <1>2 DEF VerifyExit, one
<1>4. one.mismatches = D /\ one.missing = G
  BY <1>1
<1>5. VerifyExit(all, strict) = IF D # {} THEN 1 ELSE IF strict /\ G # {} THEN 2 ELSE 0
  BY <1>3, <1>4
<1> QED BY <1>5 DEF D, G, all

\* A manifest with other hashes.
LEMMA RewrittenIs ==
    ASSUME NEW m \in Manifest, NEW p, NEW s
    PROVE  [m EXCEPT !.pins = p, !.sha = s]
              = [parses |-> m.parses, fits |-> m.fits, sha |-> s, pins |-> p]
<1>1. m = [parses |-> m.parses, fits |-> m.fits, sha |-> m.sha, pins |-> m.pins]
  BY DEF Manifest
<1> DEFINE r == [m EXCEPT !.pins = p, !.sha = s]
<1>2. r = [m EXCEPT !.pins = p, !.sha = s]
  OBVIOUS
<1> HIDE DEF r
<1>3. r = [parses |-> m.parses, fits |-> m.fits, sha |-> s, pins |-> p]
  BY <1>1, <1>2
<1> QED BY <1>2, <1>3

\* Pinning again what has just been pinned changes nothing.
LEMMA RepinnedIs ==
    ASSUME NEW m \in Manifest, NEW on_disk \in OnDisk(Len(m.pins)),
           UnreadableFile \notin Range(on_disk),
           NEW r, r = Repinned(m, on_disk)
    PROVE  /\ r \in Manifest /\ Len(r.pins) = Len(m.pins) /\ r.parses = m.parses
           /\ \A i \in 1 .. Len(m.pins) :
                 r.pins[i] = IF on_disk[i] = Missing THEN m.pins[i] ELSE on_disk[i]
           /\ Repinned(r, on_disk) = r
<1> DEFINE N == Len(m.pins)
           P == Present(on_disk)
           pins == [i \in 1 .. N |-> IF on_disk[i] = Missing THEN m.pins[i] ELSE on_disk[i]]
           sha == IF P = {} THEN m.sha ELSE on_disk[Min(P)]
<1>1. /\ N \in Nat /\ m.pins \in Seq(Hash) /\ DOMAIN m.pins = 1 .. N /\ DOMAIN on_disk = 1 .. N
      /\ m.sha \in Hash
      /\ \A i \in 1 .. N : m.pins[i] \in Hash
  BY DEF Manifest, OnDisk
<1>2. \A i \in 1 .. N : on_disk[i] \in Hash \cup {Missing}
  BY <1>1 DEF OnDisk, Range
<1>3. pins \in Seq(Hash) /\ Len(pins) = N
  <2>1. \A i \in 1 .. N : pins[i] \in Hash
    BY <1>1, <1>2
  <2> HIDE DEF N
  <2> QED BY <1>1, <2>1
<1>4. P # {} => Min(P) \in P
  <2>1. P \subseteq Nat
    BY <1>1 DEF Present
  <2>2. P # {} => \E x \in P : \A y \in P : x <= y
    <3> HIDE DEF P
    <3> QED BY <2>1, SmallestExists
  <2> QED BY <2>2 DEF Min
<1>5. sha \in Hash
  <2>1. ASSUME NEW i \in P PROVE on_disk[i] \in Hash
    BY <1>1, <1>2 DEF Present
  <2> QED BY <1>1, <1>4, <2>1
<1>6. r = [m EXCEPT !.pins = pins, !.sha = sha]
  BY <1>1 DEF Repinned
<1>7. r = [parses |-> m.parses, fits |-> m.fits, sha |-> sha, pins |-> pins]
  <2> HIDE DEF pins, sha
  <2> QED BY <1>6, RewrittenIs
<1>8. r \in Manifest
  <2> HIDE DEF pins, sha
  <2>1. m.parses \in BOOLEAN /\ m.fits \in BOOLEAN
    BY DEF Manifest
  <2> QED BY <1>3, <1>5, <1>7, <2>1 DEF Manifest
<1>9. Repinned(r, on_disk) = r
  <2> DEFINE again == [i \in 1 .. N |-> IF on_disk[i] = Missing THEN pins[i] ELSE on_disk[i]]
  <2>1. again = pins
    OBVIOUS
  <2>2. DOMAIN r.pins = 1 .. N /\ r.pins = pins /\ r.sha = sha
    <3>1. DOMAIN pins = 1 .. N
      OBVIOUS
    <3> HIDE DEF pins, sha
    <3> QED BY <1>7, <3>1
  <2>3. Repinned(r, on_disk) =
           [r EXCEPT !.pins = again, !.sha = IF P = {} THEN sha ELSE on_disk[Min(P)]]
    BY <2>2 DEF Repinned
  <2>4. Repinned(r, on_disk) = [r EXCEPT !.pins = pins, !.sha = sha]
    BY <2>1, <2>3
  <2> HIDE DEF pins, sha
  <2>5. [r EXCEPT !.pins = pins, !.sha = sha]
           = [parses |-> r.parses, fits |-> r.fits, sha |-> sha, pins |-> pins]
    BY <1>8, RewrittenIs
  <2>6. r.parses = m.parses /\ r.fits = m.fits
    BY <1>7
  <2> QED BY <1>7, <2>4, <2>5, <2>6
<1> QED BY <1>1, <1>3, <1>7, <1>8, <1>9

\* Whatever recompute_manifest replaces a manifest by, verify_manifest accepts, and
\* what it cannot replace stays as it was.  (_recompute, _verify_one)
THEOREM ManifestsStayTrue ==
    ASSUME NEW m \in Manifest, NEW on_disk \in OnDisk(Len(m.pins)), NEW writable \in BOOLEAN
    PROVE  ManifestLaw(m, on_disk, writable)
<1> DEFINE done == Recompute(m, on_disk, writable)
           r == Repinned(m, on_disk)
           now == [manifest |-> r, on_disk |-> on_disk]
           gone == Missing \in Range(on_disk)
<1>1. /\ Len(m.pins) \in Nat /\ DOMAIN m.pins = 1 .. Len(m.pins) /\ DOMAIN on_disk = 1 .. Len(m.pins)
      /\ \A i \in 1 .. Len(m.pins) : on_disk[i] # Placeholder
  BY DEF Manifest, OnDisk, Hash, Placeholder, Missing, UnreadableFile
<1>2. /\ done.code \in {0, 1} /\ (done.code # 0 => done.manifest = m)
      /\ done.code = 0 => /\ done = [code |-> 0, manifest |-> r] /\ m.parses
                          /\ UnreadableFile \notin Range(on_disk)
                          /\ r = m \/ Validates(r)
  <2> HIDE DEF r
  <2> QED BY DEF Recompute, r
<1> HIDE DEF done, r
<1>3. ASSUME done.code = 0, Validates(m) \/ done.manifest # m
      PROVE  /\ done = [code |-> 0, manifest |-> r]
             /\ VerifyExit(<<now>>, FALSE) = 0
             /\ VerifyExit(<<now>>, TRUE) = IF gone THEN 2 ELSE 0
             /\ \A i \in DOMAIN on_disk : on_disk[i] # Missing => r.pins[i] # Placeholder
             /\ Recompute(r, on_disk, FALSE) = done
  <2>1. /\ UnreadableFile \notin Range(on_disk) /\ Validates(r)
        /\ m.parses /\ done = [code |-> 0, manifest |-> r]
    BY <1>2, <1>3
  <2>2. /\ r \in Manifest /\ Len(r.pins) = Len(m.pins) /\ r.parses
        /\ \A i \in 1 .. Len(m.pins) :
              r.pins[i] = IF on_disk[i] = Missing THEN m.pins[i] ELSE on_disk[i]
        /\ Repinned(r, on_disk) = r
    BY <2>1, RepinnedIs DEF r
  <2>3. DOMAIN r.pins = 1 .. Len(m.pins)
    BY <2>2 DEF Manifest
  <2>4. ~\E i \in DOMAIN r.pins : /\ on_disk[i] # Missing
                                  /\ r.pins[i] # Placeholder
                                  /\ on_disk[i] # r.pins[i]
    BY <2>2, <2>3
  <2>5. gone <=> \E i \in DOMAIN r.pins : on_disk[i] = Missing
    BY <1>1, <2>3 DEF Range
  <2>6. VerifyExit(<<now>>, FALSE) = 0 /\ VerifyExit(<<now>>, TRUE) = IF gone THEN 2 ELSE 0
    <3> HIDE DEF gone
    <3>1. on_disk \in OnDisk(Len(r.pins))
      BY <2>2
    <3> QED BY <2>1, <2>2, <2>4, <2>5, <3>1, VerifyExitIs
  <2>7. \A i \in DOMAIN on_disk : on_disk[i] # Missing => r.pins[i] # Placeholder
    BY <1>1, <2>2
  <2>8. Recompute(r, on_disk, FALSE) = done
    BY <2>1, <2>2 DEF Recompute
  <2> QED BY <2>1, <2>6, <2>7, <2>8
<1>4. \A d : d = [code |-> 0, manifest |-> r] => d.manifest = r
  OBVIOUS
<1> QED BY <1>2, <1>3, <1>4 DEF ManifestLaw, done

-----------------------------------------------------------------------------
(* The sanitizer and the citation gate *)

Marker == [c |-> "marker", at |-> 0]

\* What may stand in a text that is shown for raw.
KeptOf(raw) == {e \in [c : Range(raw) \cup {"marker"}, at : Nat] :
                 e.at > 0 => e.at \in 1 .. Len(raw) /\ raw[e.at] = e.c}

\* What one operation puts for a character.
PutFor(op, e) == IF e.c = op.of THEN Map(op.by, LAMBDA m : [c |-> m, at |-> 0]) ELSE <<e>>

LEMMA PutTyped ==
    ASSUME NEW E, Marker \in E, NEW op, op.by \in {<<>>, <<"marker">>}, NEW e \in E
    PROVE  PutFor(op, e) \in Seq(E)
<1>1. <<>> \in Seq(E) /\ <<e>> \in Seq(E) /\ <<Marker>> \in Seq(E)
  OBVIOUS
<1>2. Map(<<>>, LAMBDA m : [c |-> m, at |-> 0]) = <<>>
  BY DEF Map
<1>3. Map(<<"marker">>, LAMBDA m : [c |-> m, at |-> 0]) = <<Marker>>
  BY DEF Map, Marker
<1> QED BY <1>1, <1>2, <1>3 DEF PutFor

LEMMA StripTyped ==
    ASSUME NEW E, Marker \in E, NEW op, op.by \in {<<>>, <<"marker">>},
           NEW result \in [text : Seq(E), events : Nat]
    PROVE  Strip(result, op) \in [text : Seq(E), events : Nat]
<1> DEFINE s == result.text
           N == Len(s)
           A == Seq(E)
           first == <<>>
           To(n, x) == x \o PutFor(op, s[n])
<1>1. s \in Seq(E) /\ N \in Nat /\ first \in A
  OBVIOUS
<1>2. \A n \in 1 .. N, x \in A : To(n, x) \in A
  <2>1. \A n \in 1 .. N : s[n] \in E
    BY <1>1
  <2> HIDE DEF s
  <2>2. \A n \in 1 .. N : PutFor(op, s[n]) \in A
    BY <2>1, PutTyped
  <2> QED BY <2>2
<1> HIDE DEF s, N, A, first, To
<1> DEFINE step == [x \in (1 .. N) \X A |-> To(x[1], x[2])]
           Walk(h) == h = [n \in 0 .. N |-> IF n = 0 THEN first ELSE To(n, h[n - 1])]
           c == CHOOSE h : Walk(h)
<1>3. step \in [(1 .. N) \X A -> A]
  BY <1>2
<1>4. PICK g \in [0 .. N -> A] : Iterates(g, N, first, step)
  <2> HIDE DEF step
  <2> QED BY <1>1, <1>3, RecursionExists
<1>5. Walk(g)
  <2>1. ASSUME NEW n \in 0 .. N PROVE g[n] = IF n = 0 THEN first ELSE To(n, g[n - 1])
    <3>1. CASE n = 0
      BY <1>4, <3>1 DEF Iterates
    <3>2. CASE n # 0
      <4>1. n \in 1 .. N /\ n - 1 \in 0 .. N
        BY <1>1, <3>2
      <4>2. g[n] = step[<<n, g[n - 1]>>]
        BY <1>4, <4>1 DEF Iterates
      <4> QED BY <3>2, <4>1, <4>2
    <3> QED BY <3>1, <3>2
  <2> QED BY <2>1
<1>6. Walk(c)
  <2> HIDE DEF Walk
  <2> QED BY <1>5
<1> HIDE DEF c
<1>7. c[0] = first /\ \A n \in 1 .. N : c[n] = To(n, c[n - 1])
  <2>1. \A n \in 0 .. N : c[n] = IF n = 0 THEN first ELSE To(n, c[n - 1])
    BY <1>6, Zenon
  <2> QED BY <1>1, <2>1
<1>8. c \in [0 .. N -> A]
  <2> DEFINE Typed == {n \in 0 .. N : c[n] \in A}
  <2>1. 0 \in Typed
    BY <1>1, <1>7
  <2>2. ASSUME NEW n \in 0 .. N, n \in Typed, n < N PROVE n + 1 \in Typed
    <3>1. n + 1 \in 1 .. N /\ (n + 1) - 1 = n
      BY <1>1, <2>2
    <3>2. c[n + 1] = To(n + 1, c[n])
      BY <1>7, <3>1
    <3> QED BY <1>1, <1>2, <2>2, <3>1, <3>2
  <2>3. 0 .. N \subseteq Typed
    <3> HIDE DEF Typed
    <3> QED BY <1>1, <2>1, <2>2, IntervalInduction
  <2>4. c = [n \in 0 .. N |-> c[n]]
    BY <1>6, Zenon
  <2> QED BY <2>3, <2>4
<1>9. Strip(result, op).text = c[N]
  BY DEF Strip, Walked, PutFor, N, s, c, first, To
<1>10. c[N] \in Seq(E)
  BY <1>1, <1>8 DEF A
<1>11. Strip(result, op).events \in Nat
  <2> DEFINE H == {i \in DOMAIN result.text : result.text[i].c = op.of}
  <2>1. H \in SUBSET (1 .. N) /\ result.events \in Nat
    BY DEF N, s
  <2> HIDE DEF H
  <2>2. IsFiniteSet(1 .. N)
    BY <1>1, FS_Interval
  <2>3. IsFiniteSet(H)
    BY <2>1, <2>2, FS_Subset
  <2>4. Cardinality(H) \in Nat
    BY <2>3, FS_CardinalityType
  <2>5. Strip(result, op).events = result.events + Cardinality(H)
    BY DEF Strip, H
  <2> QED BY <2>1, <2>4, <2>5
<1>12. Strip(result, op) = [text |-> Strip(result, op).text, events |-> Strip(result, op).events]
  BY DEF Strip
<1> QED BY <1>9, <1>10, <1>11, <1>12

\* What is shown of a text: its own characters, each at its place, and markers.
LEMMA ShownIsKept ==
    ASSUME NEW C, NEW raw \in Seq(C)
    PROVE  Sanitize(raw).text \in Seq(KeptOf(raw))
<1> DEFINE N == Len(Ops)
           A == [text : Seq(KeptOf(raw)), events : Nat]
           whole == [i \in DOMAIN raw |-> [c |-> raw[i], at |-> i]]
           first == [text |-> whole, events |-> 0]
           To(n, x) == Strip(x, Ops[n])
<1>0. Marker \in KeptOf(raw)
  BY DEF Marker, KeptOf
<1>1. N \in Nat /\ first \in A
  <2>1. N \in Nat
    BY DEF Ops
  <2>2. Len(raw) \in Nat /\ DOMAIN raw = 1 .. Len(raw)
    OBVIOUS
  <2>3. ASSUME NEW i \in 1 .. Len(raw) PROVE [c |-> raw[i], at |-> i] \in KeptOf(raw)
    BY <2>2 DEF KeptOf, Range
  <2>4. whole \in Seq(KeptOf(raw))
    BY <2>2, <2>3
  <2> HIDE DEF whole
  <2> QED BY <2>1, <2>4
<1>2. \A n \in 1 .. N, x \in A : To(n, x) \in A
  <2>1. ASSUME NEW n \in 1 .. N PROVE Ops[n].by \in {<<>>, <<"marker">>}
    <3>1. n \in 1 .. 6
      BY DEF Ops
    <3>2. n = 1 \/ n = 2 \/ n = 3 \/ n = 4 \/ n = 5 \/ n = 6
      BY <3>1
    <3> QED BY <3>2 DEF Ops
  <2> QED BY <1>0, <2>1, StripTyped
<1> HIDE DEF N, A, first, To
<1> DEFINE step == [x \in (1 .. N) \X A |-> To(x[1], x[2])]
           Walk(h) == h = [n \in 0 .. N |-> IF n = 0 THEN first ELSE To(n, h[n - 1])]
           c == CHOOSE h : Walk(h)
<1>3. step \in [(1 .. N) \X A -> A]
  BY <1>2
<1>4. PICK g \in [0 .. N -> A] : Iterates(g, N, first, step)
  <2> HIDE DEF step
  <2> QED BY <1>1, <1>3, RecursionExists
<1>5. Walk(g)
  <2>1. ASSUME NEW n \in 0 .. N PROVE g[n] = IF n = 0 THEN first ELSE To(n, g[n - 1])
    <3>1. CASE n = 0
      BY <1>4, <3>1 DEF Iterates
    <3>2. CASE n # 0
      <4>1. n \in 1 .. N /\ n - 1 \in 0 .. N
        BY <1>1, <3>2
      <4>2. g[n] = step[<<n, g[n - 1]>>]
        BY <1>4, <4>1 DEF Iterates
      <4> QED BY <3>2, <4>1, <4>2
    <3> QED BY <3>1, <3>2
  <2> QED BY <2>1
<1>6. Walk(c)
  <2> HIDE DEF Walk
  <2> QED BY <1>5
<1> HIDE DEF c
<1>7. c[0] = first /\ \A n \in 1 .. N : c[n] = To(n, c[n - 1])
  <2>1. \A n \in 0 .. N : c[n] = IF n = 0 THEN first ELSE To(n, c[n - 1])
    BY <1>6, Zenon
  <2> QED BY <1>1, <2>1
<1>8. c \in [0 .. N -> A]
  <2> DEFINE Typed == {n \in 0 .. N : c[n] \in A}
  <2>1. 0 \in Typed
    BY <1>1, <1>7
  <2>2. ASSUME NEW n \in 0 .. N, n \in Typed, n < N PROVE n + 1 \in Typed
    <3>1. n + 1 \in 1 .. N /\ (n + 1) - 1 = n
      BY <1>1, <2>2
    <3>2. c[n + 1] = To(n + 1, c[n])
      BY <1>7, <3>1
    <3> QED BY <1>1, <1>2, <2>2, <3>1, <3>2
  <2>3. 0 .. N \subseteq Typed
    <3> HIDE DEF Typed
    <3> QED BY <1>1, <2>1, <2>2, IntervalInduction
  <2>4. c = [n \in 0 .. N |-> c[n]]
    BY <1>6, Zenon
  <2> QED BY <2>3, <2>4
<1>9. Sanitize(raw) = c[N]
  BY DEF Sanitize, Walked, N, c, first, To
<1> QED BY <1>1, <1>8, <1>9 DEF A

\* What the model quotes of a text as it was shown it, whole and without a marker,
\* passes the citation gate, whatever the text.  (sanitize, verify_citation)
THEOREM QuotesAreAccepted ==
    ASSUME NEW C, NEW raw \in Seq(C), NEW from \in Nat \ {0}, NEW to \in Nat
    PROVE  QuoteLaw(raw, from, to)
<1> DEFINE shown == Sanitize(raw).text
           piece == SubSeq(shown, from, to)
           quote == [i \in DOMAIN piece |-> piece[i].c]
<1>1. shown \in Seq(KeptOf(raw)) /\ Len(shown) \in Nat /\ Len(raw) \in Nat
  BY ShownIsKept
<1> HIDE DEF shown
<1> SUFFICES ASSUME from <= to, to <= Len(shown),
                    \A i \in 1 .. Len(piece) :
                       piece[i].at > 0 /\ (i > 1 => piece[i].at = piece[i - 1].at + 1)
             PROVE  VerifyCitation(quote, {raw}) = "none"
  BY DEF QuoteLaw, shown
<1> DEFINE n == Len(piece)
           first == piece[1].at
<1>2. /\ piece \in Seq(KeptOf(raw)) /\ n = to - from + 1 /\ n \in Nat \ {0}
  <2>1. \A i \in from .. to : shown[i] \in KeptOf(raw)
    BY <1>1
  <2> QED BY <1>1, <2>1, SubSeqProperties
<1>3. \A i \in 1 .. n : piece[i] \in KeptOf(raw)
  <2> HIDE DEF piece
  <2> QED BY <1>2
<1> HIDE DEF piece
<1>4. \A i \in 1 .. n : piece[i].at \in 1 .. Len(raw) /\ raw[piece[i].at] = piece[i].c
  BY <1>3 DEF KeptOf
<1>5. \A i \in 1 .. n : piece[i].at = first + i - 1
  <2> DEFINE S == {k \in 0 .. n : k > 0 => piece[k].at = first + k - 1}
  <2>1. 0 \in S
    BY <1>2
  <2>2. ASSUME NEW k \in 0 .. n, k \in S, k < n PROVE k + 1 \in S
    <3>1. k + 1 \in 1 .. n /\ (k + 1) - 1 = k
      BY <1>2, <2>2
    <3>2. CASE k = 0
      BY <1>2, <1>4, <3>1, <3>2
    <3>3. CASE k # 0
      <4>1. piece[k + 1].at = piece[k].at + 1 /\ piece[k].at = first + k - 1 /\ first \in Nat
        BY <1>2, <1>4, <2>2, <3>1, <3>3
      <4> QED BY <2>2, <3>1, <4>1
    <3> QED BY <3>2, <3>3
  <2>3. 0 .. n \subseteq S
    <3> HIDE DEF S
    <3> QED BY <1>2, <2>1, <2>2, IntervalInduction
  <2> QED BY <1>2, <2>3
<1>6. first \in 1 .. Len(raw) /\ first + n - 1 <= Len(raw) /\ DOMAIN piece = 1 .. n
  <2>1. DOMAIN piece = 1 .. n
    BY <1>2
  <2>2. 1 \in 1 .. n /\ n \in 1 .. n
    BY <1>2
  <2>3. first \in 1 .. Len(raw) /\ piece[n].at \in 1 .. Len(raw) /\ piece[n].at = first + n - 1
    BY <1>4, <1>5, <2>2
  <2> QED BY <1>1, <2>1, <2>3
<1>7. \A i \in 1 .. n : piece[i].c = raw[first + i - 1]
  BY <1>4, <1>5
<1> DEFINE found == SubSeq(raw, first, first + n - 1)
<1>8. found \in Seq(C) /\ Len(found) = n /\ \A i \in 1 .. n : found[i] = raw[first + i - 1]
  <2>1. \A i \in first .. first + n - 1 : raw[i] \in C
    BY <1>1, <1>6
  <2> HIDE DEF n, first
  <2> QED BY <1>1, <1>2, <1>6, <2>1, SubSeqProperties
<1>9. quote = found /\ Len(quote) = n
  <2> HIDE DEF found, first
  <2>1. quote = [i \in 1 .. n |-> found[i]]
    BY <1>6, <1>7, <1>8
  <2>2. found = [i \in 1 .. n |-> found[i]]
    BY <1>2, <1>8
  <2> QED BY <1>8, <2>1, <2>2
<1> HIDE DEF quote, n, first
<1>10. OccursAt(quote, raw, first)
  BY <1>6, <1>9 DEF OccursAt
<1> QED BY <1>6, <1>10 DEF VerifyCitation

-----------------------------------------------------------------------------
(* The entity gate *)

LEMMA OccursIs ==
    ASSUME NEW D, NEW t \in Seq(D), t # <<>>, NEW h \in Seq(D), NEW i \in 1 .. Len(h)
    PROVE  OccursAt(t, h, i) <=> /\ i + Len(t) - 1 <= Len(h)
                                 /\ \A k \in 1 .. Len(t) : h[i + k - 1] = t[k]
<1> DEFINE last == i + Len(t) - 1
           cut == SubSeq(h, i, last)
<1>1. Len(t) \in Nat \ {0} /\ Len(h) \in Nat /\ i \in Nat \ {0}
  BY EmptySeq
<1> SUFFICES ASSUME last <= Len(h)
             PROVE  cut = t <=> \A k \in 1 .. Len(t) : h[i + k - 1] = t[k]
  BY DEF OccursAt
<1>2. cut \in Seq(D) /\ Len(cut) = Len(t) /\ \A k \in 1 .. Len(t) : cut[k] = h[i + k - 1]
  <2>1. \A j \in i .. last : h[j] \in D
    BY <1>1
  <2>2. last \in Nat /\ i <= last /\ last - i + 1 = Len(t)
    BY <1>1
  <2> HIDE DEF last
  <2>3. cut \in Seq(D) /\ Len(cut) = Len(t) /\ \A k \in 1 .. last - i + 1 : cut[k] = h[i + k - 1]
    BY <1>1, <2>1, <2>2, SubSeqProperties
  <2> QED BY <2>2, <2>3
<1> HIDE DEF cut, last
<1>3. cut = t <=> \A k \in 1 .. Len(t) : cut[k] = t[k]
  BY <1>2, SeqEqual
<1> QED BY <1>2, <1>3

\* Two texts with a line break in between.
LEMMA JoinIs ==
    ASSUME NEW D, NEW a \in Seq(D), NEW b \in Seq(D)
    PROVE  /\ a \o <<"nl">> \o b \in Seq(D \cup {"nl"})
           /\ Len(a \o <<"nl">> \o b) = Len(a) + 1 + Len(b)
           /\ \A j \in 1 .. Len(a) + 1 + Len(b) :
                 (a \o <<"nl">> \o b)[j] = IF j <= Len(a) THEN a[j]
                                           ELSE IF j = Len(a) + 1 THEN "nl" ELSE b[j - Len(a) - 1]
<1> DEFINE E == D \cup {"nl"}
           one == <<"nl">>
           head == a \o one
<1>1. a \in Seq(E) /\ b \in Seq(E) /\ one \in Seq(E) /\ Len(one) = 1 /\ one[1] = "nl"
      /\ Len(a) \in Nat /\ Len(b) \in Nat
  OBVIOUS
<1> HIDE DEF E, one
<1>2. /\ head \in Seq(E) /\ Len(head) = Len(a) + Len(one)
      /\ \A j \in 1 .. Len(a) + Len(one) : head[j] = IF j <= Len(a) THEN a[j] ELSE one[j - Len(a)]
  BY <1>1, ConcatProperties, Zenon
<1>7. head \in Seq(E) /\ b \in Seq(E)
  BY <1>1, <1>2
<1> HIDE DEF head
<1>3. /\ head \o b \in Seq(E) /\ Len(head \o b) = Len(head) + Len(b)
      /\ \A j \in 1 .. Len(head) + Len(b) :
            (head \o b)[j] = IF j <= Len(head) THEN head[j] ELSE b[j - Len(head)]
  BY <1>7, ConcatProperties, Zenon
<1> DEFINE both == head \o b
<1> HIDE DEF both
<1>4. ASSUME NEW j \in 1 .. Len(a) + 1 + Len(b)
      PROVE  both[j] = IF j <= Len(a) THEN a[j]
                              ELSE IF j = Len(a) + 1 THEN "nl" ELSE b[j - Len(a) - 1]
  <2> DEFINE w == both[j]
  <2>1. w = IF j <= Len(head) THEN head[j] ELSE b[j - Len(head)]
    BY <1>1, <1>2, <1>3 DEF both
  <2> HIDE DEF w
  <2>2. CASE j <= Len(a)
    BY <1>1, <1>2, <2>1, <2>2 DEF w
  <2>3. CASE j = Len(a) + 1
    BY <1>1, <1>2, <2>1, <2>3 DEF w
  <2>4. CASE j > Len(a) + 1
    BY <1>1, <1>2, <2>1, <2>4 DEF w
  <2> QED BY <1>1, <2>2, <2>3, <2>4
<1>5. both \in Seq(E) /\ Len(both) = Len(a) + 1 + Len(b)
  BY <1>1, <1>2, <1>3 DEF both
<1>6. both = a \o <<"nl">> \o b
  BY DEF both, head, one
<1> QED BY <1>4, <1>5, <1>6, Zenon DEF E

\* A text without a line break stands in two texts with one in between exactly when
\* it stands in one of them.
LEMMA StandsInJoin ==
    ASSUME NEW D, "nl" \in D, NEW t \in Seq(D), t # <<>>, \A k \in 1 .. Len(t) : t[k] # "nl",
           NEW a \in Seq(D), NEW b \in Seq(D)
    PROVE  StandsIn(t, a \o <<"nl">> \o b) <=> StandsIn(t, a) \/ StandsIn(t, b)
<1> DEFINE h == a \o <<"nl">> \o b
           la == Len(a)
           lb == Len(b)
           lt == Len(t)
           HasAt(s, i) == /\ i + lt - 1 <= Len(s) /\ \A k \in 1 .. lt : s[i + k - 1] = t[k]
                          /\ i > 1 => s[i - 1] \notin Word
                          /\ i + lt <= Len(s) => s[i + lt] \notin Word
<1>1. la \in Nat /\ lb \in Nat /\ lt \in Nat \ {0}
  BY EmptySeq
<1>2. /\ h \in Seq(D) /\ Len(h) = la + 1 + lb
      /\ \A j \in 1 .. la + 1 + lb :
            h[j] = IF j <= la THEN a[j] ELSE IF j = la + 1 THEN "nl" ELSE b[j - la - 1]
  <2>1. D \cup {"nl"} = D
    OBVIOUS
  <2> QED BY <2>1, JoinIs
<1> HIDE DEF h
<1>3. ASSUME NEW s \in Seq(D)
      PROVE  StandsIn(t, s) <=> \E i \in 1 .. Len(s) : HasAt(s, i)
  <2>1. \A i \in 1 .. Len(s) :
           OccursAt(t, s, i) <=> i + lt - 1 <= Len(s) /\ \A k \in 1 .. lt : s[i + k - 1] = t[k]
    BY OccursIs
  <2> QED BY <2>1 DEF StandsIn
<1>4. ASSUME NEW j \in 1 .. la PROVE h[j] = a[j]
  BY <1>1, <1>2
<1>5. h[la + 1] = "nl"
  BY <1>1, <1>2
<1>6. ASSUME NEW j \in 1 .. lb PROVE h[j + la + 1] = b[j]
  <2>1. j + la + 1 \in 1 .. la + 1 + lb /\ ~(j + la + 1 <= la) /\ j + la + 1 # la + 1 /\ (j + la + 1) - la - 1 = j
    BY <1>1
  <2> QED BY <1>2, <2>1
<1> HIDE DEF la, lb, lt
<1>7. ASSUME NEW i \in 1 .. Len(h), HasAt(h, i)
      PROVE  (\E j \in 1 .. la : HasAt(a, j)) \/ (\E j \in 1 .. lb : HasAt(b, j))
  <2>1. CASE i <= la
    <3>1. i + lt - 1 <= la
      <4> SUFFICES ASSUME i + lt - 1 > la PROVE FALSE
        BY <1>1, <1>2
      <4>1. la + 2 - i \in 1 .. lt /\ i + (la + 2 - i) - 1 = la + 1
        BY <1>1, <1>2, <2>1
      <4>2. t[la + 2 - i] = "nl"
        BY <1>5, <1>7, <4>1
      <4> QED BY <4>1, <4>2 DEF lt
    <3>2. \A k \in 1 .. lt : a[i + k - 1] = t[k]
      <4> TAKE k \in 1 .. lt
      <4>1. i + k - 1 \in 1 .. la
        BY <1>1, <1>2, <2>1, <3>1
      <4> QED BY <1>4, <1>7, <4>1
    <3>3. i > 1 => a[i - 1] \notin Word
      BY <1>1, <1>2, <1>4, <1>7, <2>1
    <3>4. i + lt <= la => a[i + lt] \notin Word
      <4> SUFFICES ASSUME i + lt <= la PROVE a[i + lt] \notin Word
        OBVIOUS
      <4>1. i + lt \in 1 .. la /\ i + lt <= Len(h)
        BY <1>1, <1>2
      <4> QED BY <1>4, <1>7, <4>1
    <3>5. i \in 1 .. la
      BY <1>1, <1>2, <2>1
    <3> QED BY <3>1, <3>2, <3>3, <3>4, <3>5 DEF la
  <2>2. CASE i = la + 1
    <3>1. 1 \in 1 .. lt /\ i + 1 - 1 = la + 1
      BY <1>1, <2>2
    <3> QED BY <1>5, <1>7, <3>1 DEF lt
  <2>3. CASE i > la + 1
    <3> DEFINE j == i - la - 1
    <3>1. j \in 1 .. lb /\ j + lt - 1 <= lb /\ i = j + la + 1
      BY <1>1, <1>2, <1>7, <2>3
    <3> HIDE DEF j
    <3>2. \A k \in 1 .. lt : b[j + k - 1] = t[k]
      <4> TAKE k \in 1 .. lt
      <4>1. j + k - 1 \in 1 .. lb /\ (j + k - 1) + la + 1 = i + k - 1
        BY <1>1, <3>1
      <4> QED BY <1>6, <1>7, <4>1
    <3>3. j > 1 => b[j - 1] \notin Word
      <4> SUFFICES ASSUME j > 1 PROVE b[j - 1] \notin Word
        OBVIOUS
      <4>1. j - 1 \in 1 .. lb /\ (j - 1) + la + 1 = i - 1 /\ i > 1
        BY <1>1, <3>1
      <4> QED BY <1>6, <1>7, <4>1
    <3>4. j + lt <= lb => b[j + lt] \notin Word
      <4> SUFFICES ASSUME j + lt <= lb PROVE b[j + lt] \notin Word
        OBVIOUS
      <4>1. j + lt \in 1 .. lb /\ (j + lt) + la + 1 = i + lt /\ i + lt <= Len(h)
        BY <1>1, <1>2, <3>1
      <4> QED BY <1>6, <1>7, <4>1
    <3> QED BY <3>1, <3>2, <3>3, <3>4 DEF lb
  <2> QED BY <1>1, <1>2, <2>1, <2>2, <2>3
<1>8. ASSUME NEW i \in 1 .. la, HasAt(a, i) PROVE \E j \in 1 .. Len(h) : HasAt(h, j)
  <2>1. i \in 1 .. Len(h) /\ i + lt - 1 <= la /\ i + lt - 1 <= Len(h)
    BY <1>1, <1>2, <1>8 DEF la
  <2>2. \A k \in 1 .. lt : h[i + k - 1] = t[k]
    <3> TAKE k \in 1 .. lt
    <3>1. i + k - 1 \in 1 .. la
      BY <1>1, <2>1
    <3> QED BY <1>4, <1>8, <3>1
  <2>3. i > 1 => h[i - 1] \notin Word
    <3> SUFFICES ASSUME i > 1 PROVE h[i - 1] \notin Word
      OBVIOUS
    <3>1. i - 1 \in 1 .. la
      BY <1>1
    <3> QED BY <1>4, <1>8, <3>1
  <2>4. h[i + lt] \notin Word
    <3>1. CASE i + lt <= la
      <4>1. i + lt \in 1 .. la
        BY <1>1, <3>1
      <4> QED BY <1>4, <1>8, <3>1, <4>1 DEF la
    <3>2. CASE i + lt = la + 1
      BY <1>5, <3>2 DEF Word
    <3> QED BY <1>1, <2>1, <3>1, <3>2
  <2> QED BY <2>1, <2>2, <2>3, <2>4
<1>9. ASSUME NEW j \in 1 .. lb, HasAt(b, j) PROVE \E i \in 1 .. Len(h) : HasAt(h, i)
  <2> DEFINE i == j + la + 1
  <2>1. i \in 1 .. Len(h) /\ j + lt - 1 <= lb /\ i + lt - 1 <= Len(h)
    BY <1>1, <1>2, <1>9 DEF lb
  <2>2. \A k \in 1 .. lt : h[i + k - 1] = t[k]
    <3> TAKE k \in 1 .. lt
    <3>1. j + k - 1 \in 1 .. lb /\ (j + k - 1) + la + 1 = i + k - 1
      BY <1>1, <2>1
    <3> QED BY <1>6, <1>9, <3>1
  <2>3. h[i - 1] \notin Word
    <3>1. CASE j = 1
      <4>1. i - 1 = la + 1
        BY <1>1, <3>1
      <4> QED BY <1>5, <4>1 DEF Word
    <3>2. CASE j > 1
      <4>1. j - 1 \in 1 .. lb /\ (j - 1) + la + 1 = i - 1
        BY <1>1, <3>2
      <4> QED BY <1>6, <1>9, <3>2, <4>1
    <3> QED BY <1>1, <3>1, <3>2
  <2>4. i + lt <= Len(h) => h[i + lt] \notin Word
    <3> SUFFICES ASSUME i + lt <= Len(h) PROVE h[i + lt] \notin Word
      OBVIOUS
    <3>1. j + lt \in 1 .. lb /\ (j + lt) + la + 1 = i + lt /\ j + lt <= lb
      BY <1>1, <1>2
    <3> QED BY <1>6, <1>9, <3>1 DEF lb
  <2> HIDE DEF i
  <2> QED BY <2>1, <2>2, <2>3, <2>4
<1> QED BY <1>2, <1>3, <1>7, <1>8, <1>9 DEF h, la, lb

\* A text as it is compared, character by character; a line break stays one and
\* nothing becomes one.
FoldedChar(kind, x) == IF kind \in PathKinds THEN PathNormalise(x) ELSE Casefold(x)
Wide(C) == C \cup {"x", "/", "nl"}

LEMMA FoldedIs ==
    ASSUME NEW C, NEW s \in Seq(C), NEW kind
    PROVE  /\ Folded(s, kind) \in Seq(Wide(C)) /\ Len(Folded(s, kind)) = Len(s)
           /\ \A i \in 1 .. Len(s) : Folded(s, kind)[i] = FoldedChar(kind, s[i])
<1> DEFINE f == [i \in 1 .. Len(s) |-> FoldedChar(kind, s[i])]
<1>1. Len(s) \in Nat /\ DOMAIN s = 1 .. Len(s) /\ \A i \in 1 .. Len(s) : s[i] \in C
  OBVIOUS
<1>2. Folded(s, kind) = f
  BY <1>1 DEF Folded, Map, FoldedChar
<1>3. \A i \in 1 .. Len(s) : FoldedChar(kind, s[i]) \in Wide(C)
  BY <1>1 DEF FoldedChar, PathNormalise, Casefold, Wide
<1>4. f \in Seq(Wide(C)) /\ Len(f) = Len(s)
  <2> HIDE DEF f
  <2>1. \A i \in 1 .. Len(s) : f[i] \in Wide(C)
    BY <1>3 DEF f
  <2>2. f \in [1 .. Len(s) -> Wide(C)]
    BY <2>1 DEF f
  <2> QED BY <1>1, <2>2
<1> QED BY <1>2, <1>4

LEMMA BreaksKept ==
    ASSUME NEW kind, NEW x
    PROVE  FoldedChar(kind, "nl") = "nl" /\ (x # "nl" => FoldedChar(kind, x) # "nl")
BY DEF FoldedChar, PathNormalise, Casefold

LEMMA FoldedJoin ==
    ASSUME NEW C, NEW a \in Seq(C), NEW b \in Seq(C), NEW kind
    PROVE  Folded(a \o <<"nl">> \o b, kind) = Folded(a, kind) \o <<"nl">> \o Folded(b, kind)
<1> DEFINE j == a \o <<"nl">> \o b
           fa == Folded(a, kind)
           fb == Folded(b, kind)
           k == fa \o <<"nl">> \o fb
           fj == Folded(j, kind)
<1>1. /\ Len(a) \in Nat /\ Len(b) \in Nat
      /\ fa \in Seq(Wide(C)) /\ Len(fa) = Len(a) /\ \A i \in 1 .. Len(a) : fa[i] = FoldedChar(kind, a[i])
      /\ fb \in Seq(Wide(C)) /\ Len(fb) = Len(b) /\ \A i \in 1 .. Len(b) : fb[i] = FoldedChar(kind, b[i])
  BY FoldedIs
<1> HIDE DEF fa, fb
<1>2. /\ j \in Seq(C \cup {"nl"}) /\ Len(j) = Len(a) + 1 + Len(b)
      /\ \A i \in 1 .. Len(a) + 1 + Len(b) :
            j[i] = IF i <= Len(a) THEN a[i] ELSE IF i = Len(a) + 1 THEN "nl" ELSE b[i - Len(a) - 1]
  BY JoinIs, Zenon
<1>3. /\ k \in Seq(Wide(C) \cup {"nl"}) /\ Len(k) = Len(fa) + 1 + Len(fb)
      /\ \A i \in 1 .. Len(fa) + 1 + Len(fb) :
            k[i] = IF i <= Len(fa) THEN fa[i] ELSE IF i = Len(fa) + 1 THEN "nl" ELSE fb[i - Len(fa) - 1]
  BY <1>1, JoinIs, Zenon
<1> HIDE DEF j, k
<1>4. /\ fj \in Seq(Wide(C \cup {"nl"})) /\ Len(fj) = Len(j)
      /\ \A i \in 1 .. Len(j) : fj[i] = FoldedChar(kind, j[i])
  <2> DEFINE D == C \cup {"nl"}
  <2>1. j \in Seq(D)
    BY <1>2
  <2> HIDE DEF D
  <2>2. /\ fj \in Seq(Wide(D)) /\ Len(fj) = Len(j)
        /\ \A i \in 1 .. Len(j) : fj[i] = FoldedChar(kind, j[i])
    BY <2>1, FoldedIs
  <2> QED BY <2>2 DEF D
<1> HIDE DEF fj
<1>5. Len(fj) = Len(k) /\ Len(k) \in Nat
  BY <1>1, <1>2, <1>3, <1>4
<1>6. ASSUME NEW i \in 1 .. Len(k) PROVE fj[i] = k[i]
  <2>0. i \in 1 .. Len(a) + 1 + Len(b) /\ i \in 1 .. Len(j)
    BY <1>1, <1>2, <1>3
  <2>1. CASE i <= Len(a)
    <3>1. i \in 1 .. Len(a)
      BY <1>1, <2>0, <2>1
    <3> QED BY <1>1, <1>2, <1>3, <1>4, <2>0, <2>1, <3>1
  <2>2. CASE i = Len(a) + 1
    <3>1. j[i] = "nl" /\ k[i] = "nl"
      BY <1>1, <1>2, <1>3, <2>0, <2>2
    <3> QED BY <1>4, <2>0, <3>1, BreaksKept
  <2>3. CASE i > Len(a) + 1
    <3>1. i - Len(a) - 1 \in 1 .. Len(b) /\ ~(i <= Len(a)) /\ i # Len(a) + 1
      BY <1>1, <2>0, <2>3
    <3>2. j[i] = b[i - Len(a) - 1] /\ k[i] = fb[i - Len(a) - 1]
      BY <1>1, <1>2, <1>3, <2>0, <3>1
    <3> QED BY <1>1, <1>4, <2>0, <3>1, <3>2
  <2> QED BY <1>1, <2>0, <2>1, <2>2, <2>3
<1>7. fj = k
  <2>1. fj \in Seq(Wide(C \cup {"nl"})) /\ k \in Seq(Wide(C \cup {"nl"}))
    <3>1. Wide(C) \cup {"nl"} = Wide(C \cup {"nl"})
      BY DEF Wide
    <3> QED BY <1>3, <1>4, <3>1
  <2> QED BY <1>5, <1>6, <2>1, SeqEqual
<1> QED BY <1>7 DEF fj, k, j, fa, fb

LEMMA StandsInMore ==
    ASSUME NEW E, NEW x \in Seq(E), NEW q \in Seq(E), NEW kind,
           NEW t \in Seq(Wide(E)), t # <<>>, \A k \in 1 .. Len(t) : t[k] # "nl"
    PROVE  StandsIn(t, Folded(x \o <<"nl">> \o q, kind))
              <=> StandsIn(t, Folded(x, kind)) \/ StandsIn(t, Folded(q, kind))
<1> DEFINE W == Wide(E)
           fx == Folded(x, kind)
           fq == Folded(q, kind)
<1>1. "nl" \in W /\ t \in Seq(W)
  BY DEF Wide
<1>2. fx \in Seq(W) /\ fq \in Seq(W)
  BY FoldedIs
<1>3. Folded(x \o <<"nl">> \o q, kind) = fx \o <<"nl">> \o fq
  <2>1. Folded(x \o <<"nl">> \o q, kind) = Folded(x, kind) \o <<"nl">> \o Folded(q, kind)
    BY ONLY x \in Seq(E), q \in Seq(E), FoldedJoin
  <2> QED BY <2>1
<1> HIDE DEF W, fx, fq
<1>4. StandsIn(t, fx \o <<"nl">> \o fq) <=> StandsIn(t, fx) \/ StandsIn(t, fq)
  BY <1>1, <1>2, StandsInJoin, Zenon
<1> QED BY <1>3, <1>4 DEF fx, fq

\* A name without a line break stands in the corpus exactly when it stands in one
\* of the quotes.
LEMMA StandsInCorpus ==
    ASSUME NEW C, NEW quotes \in Seq(Seq(C)), NEW kind, NEW t \in Seq(C), t # <<>>,
           \A k \in 1 .. Len(t) : t[k] # "nl"
    PROVE  StandsIn(Folded(t, kind), Folded(Corpus(quotes), kind))
              <=> \E i \in DOMAIN quotes : StandsIn(Folded(t, kind), Folded(quotes[i], kind))
<1> DEFINE s == Tail(quotes)
           N == Len(s)
           E == C \cup {"nl"}
           A == Seq(E)
           first == Head(quotes)
           To(n, x) == x \o <<"nl">> \o s[n]
           ft == Folded(t, kind)
<1>0. ft \in Seq(Wide(E)) /\ ft # <<>> /\ \A k \in 1 .. Len(ft) : ft[k] # "nl"
  <2>1. Len(t) \in Nat \ {0}
    BY EmptySeq
  <2>2. t \in Seq(E)
    OBVIOUS
  <2> HIDE DEF E
  <2>3. ft \in Seq(Wide(E)) /\ Len(ft) = Len(t) /\ \A i \in 1 .. Len(t) : ft[i] = FoldedChar(kind, t[i])
    BY <2>2, FoldedIs
  <2> HIDE DEF ft
  <2> QED BY <2>1, <2>3, BreaksKept
<1>a. CASE quotes = <<>>
  <2>0. Corpus(quotes) = <<>>
    BY <1>a, Zenon DEF Corpus
  <2>1. Corpus(quotes) \in Seq(C) /\ Len(Corpus(quotes)) = 0
    BY <2>0
  <2>2. Len(Folded(Corpus(quotes), kind)) = 0
    BY <2>1, FoldedIs
  <2>3. ~StandsIn(ft, Folded(Corpus(quotes), kind))
    BY <2>2 DEF StandsIn
  <2>4. DOMAIN quotes = {}
    BY <1>a
  <2> QED BY <2>3, <2>4
<1> SUFFICES ASSUME quotes # <<>>
             PROVE  StandsIn(ft, Folded(Corpus(quotes), kind))
                       <=> \E i \in DOMAIN quotes : StandsIn(ft, Folded(quotes[i], kind))
  BY <1>a
<1>b. /\ s \in Seq(Seq(C)) /\ Len(quotes) \in Nat /\ DOMAIN quotes = 1 .. N + 1 /\ N \in Nat
      /\ first = quotes[1] /\ \A n \in 1 .. N : s[n] = quotes[n + 1]
  <2> DEFINE X == Seq(C)
  <2>1. quotes \in Seq(X) /\ quotes # <<>>
    OBVIOUS
  <2> HIDE DEF X
  <2>2. s \in Seq(X) /\ Len(s) = Len(quotes) - 1 /\ \A n \in 1 .. Len(s) : s[n] = quotes[n + 1]
    BY <2>1, HeadTailProperties
  <2>3. Len(quotes) \in Nat \ {0} /\ DOMAIN quotes = 1 .. Len(quotes) /\ first = quotes[1]
    BY <2>1, EmptySeq
  <2> QED BY <2>2, <2>3 DEF X
<1>c. \A i \in 1 .. N + 1 : quotes[i] \in A
  <2>1. \A i \in 1 .. N + 1 : quotes[i] \in Seq(C)
    BY <1>b
  <2> QED BY <2>1
<1>1. N \in Nat /\ first \in A
  BY <1>b, <1>c
<1>2. \A n \in 1 .. N, x \in A : To(n, x) \in A
  <2> TAKE n \in 1 .. N, x \in A
  <2>1. s[n] \in A
    BY <1>b, <1>c
  <2>2. To(n, x) \in Seq(E \cup {"nl"})
    <3> HIDE DEF E, s
    <3> QED BY <2>1, JoinIs DEF A
  <2> QED BY <2>2
<1> HIDE DEF s, N, A, first, To, ft
<1> DEFINE step == [x \in (1 .. N) \X A |-> To(x[1], x[2])]
           Walk(h) == h = [n \in 0 .. N |-> IF n = 0 THEN first ELSE To(n, h[n - 1])]
           c == CHOOSE h : Walk(h)
<1>3. step \in [(1 .. N) \X A -> A]
  BY <1>2
<1>4. PICK g \in [0 .. N -> A] : Iterates(g, N, first, step)
  <2> HIDE DEF step
  <2> QED BY <1>1, <1>3, RecursionExists
<1>5. Walk(g)
  <2>1. ASSUME NEW n \in 0 .. N PROVE g[n] = IF n = 0 THEN first ELSE To(n, g[n - 1])
    <3>1. CASE n = 0
      BY <1>4, <3>1 DEF Iterates
    <3>2. CASE n # 0
      <4>1. n \in 1 .. N /\ n - 1 \in 0 .. N
        BY <1>1, <3>2
      <4>2. g[n] = step[<<n, g[n - 1]>>]
        BY <1>4, <4>1 DEF Iterates
      <4> QED BY <3>2, <4>1, <4>2
    <3> QED BY <3>1, <3>2
  <2> QED BY <2>1
<1>6. Walk(c)
  <2> HIDE DEF Walk
  <2> QED BY <1>5
<1> HIDE DEF c
<1>7. c[0] = first /\ \A n \in 1 .. N : c[n] = To(n, c[n - 1])
  <2>1. \A n \in 0 .. N : c[n] = IF n = 0 THEN first ELSE To(n, c[n - 1])
    BY <1>6, Zenon
  <2> QED BY <1>1, <2>1
<1>8. c \in [0 .. N -> A]
  <2> DEFINE Typed == {n \in 0 .. N : c[n] \in A}
  <2>1. 0 \in Typed
    BY <1>1, <1>7
  <2>2. ASSUME NEW n \in 0 .. N, n \in Typed, n < N PROVE n + 1 \in Typed
    <3>1. n + 1 \in 1 .. N /\ (n + 1) - 1 = n
      BY <1>1, <2>2
    <3>2. c[n + 1] = To(n + 1, c[n])
      BY <1>7, <3>1
    <3> QED BY <1>1, <1>2, <2>2, <3>1, <3>2
  <2>3. 0 .. N \subseteq Typed
    <3> HIDE DEF Typed
    <3> QED BY <1>1, <2>1, <2>2, IntervalInduction
  <2>4. c = [n \in 0 .. N |-> c[n]]
    BY <1>6, Zenon
  <2> QED BY <2>3, <2>4
<1>9. Corpus(quotes) = c[N]
  BY Zenon DEF Corpus, Walked, N, c, first, To, s
<1>10. ASSUME NEW n \in 1 .. N
       PROVE  StandsIn(ft, Folded(c[n], kind))
                 <=> StandsIn(ft, Folded(c[n - 1], kind)) \/ StandsIn(ft, Folded(quotes[n + 1], kind))
  <2>1. n - 1 \in 0 .. N /\ n + 1 \in 1 .. N + 1
    BY <1>1
  <2>2. c[n - 1] \in Seq(E) /\ quotes[n + 1] \in Seq(E)
    BY <1>c, <1>8, <2>1 DEF A
  <2>3. c[n] = c[n - 1] \o <<"nl">> \o quotes[n + 1]
    BY <1>b, <1>7, Zenon DEF To
  <2> HIDE DEF E
  <2> QED BY <1>0, <2>2, <2>3, StandsInMore, Zenon
<1> DEFINE Stands(i) == StandsIn(ft, Folded(quotes[i], kind))
           Told == {n \in 0 .. N : StandsIn(ft, Folded(c[n], kind)) <=> \E i \in 1 .. n + 1 : Stands(i)}
<1>11. 0 \in Told
  BY <1>1, <1>b, <1>7
<1>12. ASSUME NEW n \in 0 .. N, n \in Told, n < N PROVE n + 1 \in Told
  <2>1. n + 1 \in 1 .. N /\ (n + 1) - 1 = n
    BY <1>1, <1>12
  <2>2. StandsIn(ft, Folded(c[n + 1], kind)) <=> (\E i \in 1 .. n + 1 : Stands(i)) \/ Stands((n + 1) + 1)
    BY <1>10, <1>12, <2>1
  <2> HIDE DEF Stands
  <2>3. (\E i \in 1 .. (n + 1) + 1 : Stands(i)) <=> (\E i \in 1 .. n + 1 : Stands(i)) \/ Stands((n + 1) + 1)
    <3>1. 1 .. (n + 1) + 1 = (1 .. n + 1) \cup {(n + 1) + 1}
      OBVIOUS
    <3> QED BY <3>1
  <2> QED BY <1>1, <2>1, <2>2, <2>3
<1>13. N \in Told
  <2> HIDE DEF Told
  <2>1. 0 .. N \subseteq Told
    BY <1>1, <1>11, <1>12, IntervalInduction
  <2> QED BY <1>1, <2>1
<1> QED BY <1>9, <1>13, <1>b DEF ft

\* What the patterns and the language model find: a text of some characters, none
\* of them a line break, over a stretch that is not empty.
Match(C, K) == {m \in [kind : K, text : Seq(C) \ {<<>>}, from : Nat, to : Nat] :
                   m.from < m.to /\ \A k \in 1 .. Len(m.text) : m.text[k] # "nl"}

LEMMA OverlapIs ==
    ASSUME NEW C, NEW K, NEW m \in Match(C, K), NEW n \in Match(C, K)
    PROVE  (Overlaps(m, n) <=> Overlaps(n, m)) /\ Overlaps(m, m)
BY DEF Match, Overlaps

\* The matches that are taken are the named ones.
LEMMA TakenIs ==
    ASSUME NEW C, NEW K, NEW matches \in Seq(Match(C, K))
    PROVE  Taken(matches) \in Seq(Match(C, K)) /\ Range(Taken(matches)) = Named(matches)
<1> DEFINE M == Match(C, K)
           N == Len(matches)
           A == Seq(M)
           first == <<>>
           To(n, x) == Take(x, matches[n])
<1>0. \A n \in 1 .. N : matches[n] \in M
  OBVIOUS
<1>1. N \in Nat /\ first \in A
  OBVIOUS
<1>2. \A n \in 1 .. N, x \in A : To(n, x) \in A
  <2> TAKE n \in 1 .. N, x \in A
  <2>1. Append(x, matches[n]) \in A
    BY <1>0
  <2> QED BY <2>1, Zenon DEF Take
<1>a. Taken(matches) = (CHOOSE h : h = [n \in 0 .. N |-> IF n = 0 THEN first ELSE To(n, h[n - 1])])[N]
  BY DEF Taken, Walked
<1>b. DOMAIN matches = 1 .. N
  OBVIOUS
<1> HIDE DEF M, N, A, first, To
<1> DEFINE step == [x \in (1 .. N) \X A |-> To(x[1], x[2])]
           Walk(h) == h = [n \in 0 .. N |-> IF n = 0 THEN first ELSE To(n, h[n - 1])]
           c == CHOOSE h : Walk(h)
<1>3. step \in [(1 .. N) \X A -> A]
  BY <1>2
<1>4. PICK g \in [0 .. N -> A] : Iterates(g, N, first, step)
  <2> HIDE DEF step
  <2> QED BY <1>1, <1>3, RecursionExists
<1>5. Walk(g)
  <2>1. ASSUME NEW n \in 0 .. N PROVE g[n] = IF n = 0 THEN first ELSE To(n, g[n - 1])
    <3>1. CASE n = 0
      BY <1>4, <3>1 DEF Iterates
    <3>2. CASE n # 0
      <4>1. n \in 1 .. N /\ n - 1 \in 0 .. N
        BY <1>1, <3>2
      <4>2. g[n] = step[<<n, g[n - 1]>>]
        BY <1>4, <4>1 DEF Iterates
      <4> QED BY <3>2, <4>1, <4>2
    <3> QED BY <3>1, <3>2
  <2> QED BY <2>1
<1>6. Walk(c)
  <2> HIDE DEF Walk
  <2> QED BY <1>5
<1> HIDE DEF c
<1>7. c[0] = first /\ \A n \in 1 .. N : c[n] = To(n, c[n - 1])
  <2>1. \A n \in 0 .. N : c[n] = IF n = 0 THEN first ELSE To(n, c[n - 1])
    BY <1>6, Zenon
  <2> QED BY <1>1, <2>1
<1>8. c \in [0 .. N -> A]
  <2> DEFINE Typed == {n \in 0 .. N : c[n] \in A}
  <2>1. 0 \in Typed
    BY <1>1, <1>7
  <2>2. ASSUME NEW n \in 0 .. N, n \in Typed, n < N PROVE n + 1 \in Typed
    <3>1. n + 1 \in 1 .. N /\ (n + 1) - 1 = n
      BY <1>1, <2>2
    <3>2. c[n + 1] = To(n + 1, c[n])
      BY <1>7, <3>1
    <3> QED BY <1>1, <1>2, <2>2, <3>1, <3>2
  <2>3. 0 .. N \subseteq Typed
    <3> HIDE DEF Typed
    <3> QED BY <1>1, <2>1, <2>2, IntervalInduction
  <2>4. c = [n \in 0 .. N |-> c[n]]
    BY <1>6, Zenon
  <2> QED BY <2>3, <2>4
<1>9. Taken(matches) = c[N]
  BY <1>a, Zenon DEF c
<1> DEFINE Of(n) == Range(c[n])
           Seen(n) == {matches[j] : j \in 1 .. n}
           Good(n) == /\ Of(n) \subseteq Seen(n)
                      /\ \A m \in Seen(n) : m \in Of(n) \/ \E p \in Of(n) : Overlaps(m, p)
                      /\ \A p, q \in Of(n) : p = q \/ ~Overlaps(p, q)
<1>10. Good(0)
  <2>1. Seen(0) = {} /\ Of(0) = {}
    BY <1>7 DEF first, Range
  <2> HIDE DEF Seen, Of
  <2> QED BY <2>1
<1>11. ASSUME NEW n \in 0 .. N, n < N, Good(n) PROVE Good(n + 1)
  <2> DEFINE m == matches[n + 1]
  <2>1. n + 1 \in 1 .. N /\ (n + 1) - 1 = n /\ n \in Nat
    BY <1>1, <1>11
  <2>2. c[n] \in Seq(M) /\ m \in M
    BY <1>0, <1>8, <2>1 DEF A
  <2>3. c[n + 1] = Take(c[n], m)
    BY <1>7, <2>1 DEF To
  <2>4. Seen(n + 1) = Seen(n) \cup {m}
    <3>1. 1 .. n + 1 = (1 .. n) \cup {n + 1}
      BY <2>1
    <3> QED BY <3>1
  <2>5. Seen(n) \subseteq M
    BY <1>0, <1>1
  <2>6. \A p \in Of(n) : (Overlaps(m, p) <=> Overlaps(p, m)) /\ p \in M
    BY <1>11, <2>2, <2>5, OverlapIs DEF M
  <2>7. Overlaps(m, m)
    BY <2>2, OverlapIs DEF M
  <2>8. CASE \E p \in Of(n) : Overlaps(m, p)
    <3>1. Of(n + 1) = Of(n)
      BY <2>3, <2>8 DEF Take
    <3> HIDE DEF Of, Seen, m
    <3> QED BY <1>11, <2>4, <2>8, <3>1
  <2>9. CASE ~\E p \in Of(n) : Overlaps(m, p)
    <3>1. Of(n + 1) = Of(n) \cup {m}
      <4>1. c[n + 1] = Append(c[n], m)
        BY <2>3, <2>9 DEF Take
      <4> HIDE DEF m
      <4> QED BY <2>2, <4>1, RangeOfAppend
    <3> HIDE DEF Of, Seen, m
    <3> QED BY <1>11, <2>4, <2>6, <2>9, <3>1
  <2> QED BY <2>8, <2>9
<1> DEFINE S == {n \in 0 .. N : Good(n)}
<1>12. Good(N)
  <2> HIDE DEF Good
  <2>1. 0 \in S
    BY <1>1, <1>10
  <2>2. ASSUME NEW n \in 0 .. N, n \in S, n < N PROVE n + 1 \in S
    BY <1>1, <1>11, <2>2
  <2>3. 0 .. N \subseteq S
    <3> HIDE DEF S
    <3> QED BY <1>1, <2>1, <2>2, IntervalInduction
  <2> QED BY <1>1, <2>3
<1>13. Seen(N) = Range(matches)
  BY <1>b DEF Range
<1>14. Named(matches) = {m \in Seen(N) : \A n \in Of(N) : n = m \/ ~Overlaps(m, n)}
  BY <1>9, <1>13 DEF Named
<1>15. Of(N) = Named(matches)
  <2> HIDE DEF Of, Seen
  <2>1. ASSUME NEW m \in Of(N) PROVE m \in Named(matches)
    BY <1>12, <1>14
  <2>2. ASSUME NEW m \in Named(matches) PROVE m \in Of(N)
    BY <1>12, <1>14
  <2> QED BY <2>1, <2>2
<1> QED BY <1>1, <1>8, <1>9, <1>15 DEF A, M

\* Entities of one key are looked up as one text.
LEMMA SameIsSame ==
    ASSUME NEW C, NEW K, NEW m \in Match(C, K), NEW n \in Match(C, K), SameEntity(m, n)
    PROVE  Folded(m.text, m.kind) = Folded(n.text, n.kind)
<1> DEFINE fm == Map(m.text, Casefold)
           fn == Map(n.text, Casefold)
<1>1. /\ fm = fn /\ m.kind = n.kind
      /\ DOMAIN fm = DOMAIN m.text /\ DOMAIN fn = DOMAIN n.text
      /\ \A i \in DOMAIN m.text : fm[i] = Casefold(m.text[i])
      /\ \A i \in DOMAIN n.text : fn[i] = Casefold(n.text[i])
  BY DEF SameEntity, Map
<1> HIDE DEF fm, fn
<1>2. \A x, y : Casefold(x) = Casefold(y) => PathNormalise(x) = PathNormalise(y)
  BY DEF Casefold, PathNormalise
<1>3. DOMAIN m.text = DOMAIN n.text
      /\ \A i \in DOMAIN m.text : PathNormalise(m.text[i]) = PathNormalise(n.text[i])
  BY <1>1, <1>2
<1>4. [i \in DOMAIN m.text |-> PathNormalise(m.text[i])] = [i \in DOMAIN n.text |-> PathNormalise(n.text[i])]
  BY <1>3
<1>5. CASE m.kind \in PathKinds
  BY <1>1, <1>4, <1>5 DEF Folded, Map
<1>6. CASE m.kind \notin PathKinds
  BY <1>1, <1>6 DEF Folded, fm, fn
<1> QED BY <1>5, <1>6

\* What is kept of the taken matches stands for all of them.
LEMMA DedupeKeeps ==
    ASSUME NEW X, NEW taken \in Seq(X)
    PROVE  /\ Dedupe(taken) \subseteq Range(taken)
           /\ \A m \in Range(taken) : \E d \in Dedupe(taken) : SameEntity(d, m)
<1>1. DOMAIN taken = 1 .. Len(taken) /\ Len(taken) \in Nat
  OBVIOUS
<1>2. Dedupe(taken) \subseteq Range(taken)
  BY DEF Dedupe, Range
<1>3. ASSUME NEW m \in Range(taken) PROVE \E d \in Dedupe(taken) : SameEntity(d, m)
  <2> DEFINE Same == {k \in DOMAIN taken : SameEntity(taken[k], m)}
  <2>1. Same \in SUBSET Nat /\ Same # {}
    <3>1. PICK k \in DOMAIN taken : taken[k] = m
      BY DEF Range
    <3>2. SameEntity(taken[k], m)
      BY <3>1 DEF SameEntity
    <3> QED BY <1>1, <3>1, <3>2
  <2>2. PICK k \in Same : \A n \in Same : k <= n
    <3> HIDE DEF Same
    <3> QED BY <2>1, SmallestExists
  <2>3. \A j \in 1 .. k - 1 : ~SameEntity(taken[j], taken[k])
    <3> SUFFICES ASSUME NEW j \in 1 .. k - 1, SameEntity(taken[j], taken[k]) PROVE FALSE
      OBVIOUS
    <3>1. SameEntity(taken[j], m)
      BY <2>2 DEF SameEntity
    <3>2. j \in DOMAIN taken /\ ~(k <= j)
      BY <1>1, <2>2
    <3> QED BY <2>2, <3>1, <3>2
  <2>4. taken[k] \in Dedupe(taken)
    BY <2>2, <2>3, Zenon DEF Dedupe
  <2> QED BY <2>2, <2>4
<1> QED BY <1>2, <1>3

\* A quote of its own text is accepted.
LEMMA QuotesOfAll ==
    ASSUME NEW C, NEW q \in Seq(C) \ {<<>>}
    PROVE  VerifyCitation(q, {q}) = "none"
<1>1. Len(q) \in Nat \ {0} /\ 1 + Len(q) - 1 = Len(q)
  BY EmptySeq
<1>2. SubSeq(q, 1, Len(q)) = q
  BY SubSeqFull
<1>3. OccursAt(q, q, 1)
  BY <1>1, <1>2 DEF OccursAt
<1> QED BY <1>1, <1>3 DEF VerifyCitation

\* An observation is recorded exactly when each entity that it names stands in one
\* of its quotes, whatever the patterns find and whatever is quoted.
\* (_run_pipeline, verify_entities)
THEOREM EntitiesAreQuoted ==
    ASSUME NEW C, NEW K, NEW matches \in Seq(Match(C, K)), NEW quotes \in Seq(Seq(C) \ {<<>>})
    PROVE  EntityLaw(matches, quotes)
<1> DEFINE records == [i \in DOMAIN quotes |-> {quotes[i]}]
           T == Taken(matches)
           Stands(m) == \E i \in DOMAIN quotes : StandsIn(Folded(m.text, m.kind), Folded(quotes[i], m.kind))
           Carried(m) == EntityInCorpus(m, Corpus(quotes))
<1>1. \A i \in DOMAIN quotes : quotes[i] \in Seq(C) \ {<<>>} /\ VerifyCitation(quotes[i], records[i]) = "none"
  <2>1. \A i \in DOMAIN quotes : quotes[i] \in Seq(C) \ {<<>>} /\ records[i] = {quotes[i]}
    OBVIOUS
  <2> QED BY <2>1, QuotesOfAll
<1>2. quotes \in Seq(Seq(C))
  <2> DEFINE X == Seq(C)
  <2>1. quotes \in Seq(X \ {<<>>})
    OBVIOUS
  <2> HIDE DEF X
  <2>2. quotes \in Seq(X)
    BY <2>1
  <2> QED BY <2>2 DEF X
<1>3. Verdict(matches, quotes, records) = "none" <=> Hallucinated(matches, quotes) = {}
  BY <1>1, Zenon DEF Verdict
<1>4. T \in Seq(Match(C, K)) /\ Range(T) = Named(matches)
  BY TakenIs
<1>5. ASSUME NEW m \in Match(C, K) PROVE Carried(m) <=> Stands(m)
  <2>1. m.text \in Seq(C) /\ m.text # <<>> /\ \A k \in 1 .. Len(m.text) : m.text[k] # "nl"
    BY DEF Match
  <2> QED BY <1>2, <2>1, StandsInCorpus, Zenon DEF EntityInCorpus
<1>6. Range(T) \subseteq Match(C, K)
  BY <1>4 DEF Range
<1> HIDE DEF T
<1>7. Hallucinated(matches, quotes) = {m \in Dedupe(T) : ~Carried(m)}
  BY DEF Hallucinated, T
<1>8. ASSUME NEW d \in Match(C, K), NEW m \in Match(C, K), SameEntity(d, m), Carried(d) PROVE Carried(m)
  <2>1. Folded(d.text, d.kind) = Folded(m.text, m.kind) /\ d.kind = m.kind
    BY <1>8, SameIsSame DEF SameEntity
  <2> QED BY <1>8, <2>1 DEF EntityInCorpus
<1> HIDE DEF Carried, Stands
<1>9. Hallucinated(matches, quotes) = {} <=> \A m \in Range(T) : Carried(m)
  BY <1>4, <1>6, <1>7, <1>8, DedupeKeeps
<1>10. Verdict(matches, quotes, records) = "none" <=> \A m \in Named(matches) : Stands(m)
  BY <1>3, <1>4, <1>5, <1>6, <1>9
<1> HIDE DEF records
<1> QED BY <1>10 DEF EntityLaw, records, Stands

-----------------------------------------------------------------------------
(* The run's readings of the manifests and of the gates *)

LEMMA ReportLaws == ReportInputs => input.law \in {"claims", "summary", "techniques", "pdf"}
<1> DEFINE Goal == input.law \in {"claims", "summary", "techniques", "pdf"}
<1>1. \A o, a : input = [law |-> "claims", obs |-> o, approved |-> a] => Goal
  OBVIOUS
<1>2. \A o, a, l : input = [law |-> "summary", obs |-> o, approved |-> a, limit |-> l] => Goal
  OBVIOUS
<1>3. \A r : input = [law |-> "techniques", records |-> r] => Goal
  OBVIOUS
<1>4. \A o, a, t, e :
         input = [law |-> "pdf", obs |-> o, approved |-> a, trail |-> t, env |-> e] => Goal
  OBVIOUS
<1> HIDE DEF Goal
<1>5. ReportInputs => Goal
  BY <1>1, <1>2, <1>3, <1>4, Zenon DEF ReportInputs
<1> QED BY <1>5 DEF Goal

\* The inputs of the run that are a manifest.
PinsInput ==
    input.law = "pins" => /\ input.manifest \in Manifest
                          /\ input.on_disk \in OnDisk(Len(input.manifest.pins))
                          /\ input.writable \in BOOLEAN

LEMMA PinsInputInit == Inputs => PinsInput
<1> SUFFICES ASSUME Inputs PROVE PinsInput
  OBVIOUS
<1>1. CASE EvidenceInputs
  BY <1>1 DEF EvidenceInputs, PinsInput
<1>2. CASE ReportInputs
  BY <1>2, ReportLaws DEF PinsInput
<1>3. CASE FindingInputs
  BY <1>3 DEF FindingInputs, PinsInput
<1>5. CASE PrepareInputs \/ AccuracyInputs \/ GateInputs \/ ListingInputs \/ input = [law |-> "download"]
  BY <1>5 DEF PrepareInputs, AccuracyInputs, GateInputs, ListingInputs, PinsInput
<1>4. ASSUME NEW n \in 0 .. 2, NEW pins \in [1 .. n -> 0 .. 2], NEW sha \in 0 .. 2,
             NEW on_disk \in [1 .. n -> {Missing, UnreadableFile, 1, 2}],
             NEW parses \in BOOLEAN, NEW fits \in BOOLEAN, NEW writable \in BOOLEAN,
             input = [law |-> "pins", on_disk |-> on_disk, writable |-> writable,
                      manifest |-> [parses |-> parses, fits |-> fits, sha |-> sha, pins |-> pins]]
      PROVE  PinsInput
  <2> DEFINE m == [parses |-> parses, fits |-> fits, sha |-> sha, pins |-> pins]
  <2>1. input.manifest = m /\ input.on_disk = on_disk /\ input.writable = writable
    BY <1>4
  <2>2. 0 .. 2 \subseteq Hash /\ n \in Nat
    BY DEF Hash, Missing, UnreadableFile
  <2>3. pins \in Seq(Hash) /\ Len(pins) = n
    BY <2>2
  <2>4. m \in Manifest /\ m.pins = pins
    BY <2>2, <2>3 DEF Manifest
  <2>5. on_disk \in OnDisk(n)
    BY DEF OnDisk, Hash, Missing, UnreadableFile, Placeholder
  <2> HIDE DEF m
  <2> QED BY <2>1, <2>3, <2>4, <2>5 DEF PinsInput
<1> QED BY <1>1, <1>2, <1>3, <1>4, <1>5 DEF Inputs, PinsInputs

\* The run's reading of it: what recompute pins, verify accepts, whatever is on disk.
THEOREM PinsHold == Spec => []PinsStayTrue
<1>1. Init => PinsInput
  BY PinsInputInit DEF Init
<1>2. PinsInput /\ [Next]_<<input, dvars>> => PinsInput'
  BY DEF Next, PinsInput
<1>3. PinsInput => PinsStayTrue
  BY ManifestsStayTrue DEF PinsInput, PinsStayTrue
<1> QED BY <1>1, <1>2, <1>3, PTL DEF Spec

Kinds == {"WINDOWS_PATH", "ACCOUNT"}

GateInput ==
    /\ input.law = "entity" => /\ input.matches \in Seq(Match(Plain, Kinds))
                               /\ input.quotes \in Seq(Seq(Plain) \ {<<>>})
    /\ input.law = "quote" => /\ input.raw \in Seq(Plain \cup Stripped)
                              /\ input.from \in Nat \ {0} /\ input.to \in Nat

LEMMA BoundedIsSeq ==
    ASSUME NEW S, NEW n \in Nat, NEW s \in BoundedSeq(S, n)
    PROVE  s \in Seq(S)
BY DEF BoundedSeq, SeqOf

LEMMA MatchesTyped == Matches \subseteq Match(Plain, Kinds)
<1> DEFINE Names == {<<"x">>, <<"X">>, <<"x", "\\", "x">>, <<"x", "/", "x">>, <<"x", ".", "x">>}
           One(k, t, a, l) == [kind |-> k, text |-> t, from |-> a, to |-> a + l]
<1>a. Matches = {One(k, t, a, l) : k \in Kinds, t \in Names, a \in {1, 3}, l \in {2, 3}}
  BY DEF Matches, Kinds
<1>b. SUFFICES ASSUME NEW k \in Kinds, NEW t \in Names, NEW a \in {1, 3}, NEW l \in {2, 3}
               PROVE  One(k, t, a, l) \in Match(Plain, Kinds)
  <2> HIDE DEF One, Names
  <2> QED BY <1>a
<1> DEFINE m == One(k, t, a, l)
<1>1. t \in Seq(Plain) /\ t # <<>> /\ \A i \in 1 .. Len(t) : t[i] # "nl"
  <2>1. ASSUME NEW c \in Plain \ {"nl"}, t = <<c>> PROVE t \in Seq(Plain) /\ t # <<>> /\ \A i \in 1 .. Len(t) : t[i] # "nl"
    BY <2>1
  <2>2. ASSUME NEW c \in Plain \ {"nl"}, NEW d \in Plain \ {"nl"}, NEW e \in Plain \ {"nl"}, t = <<c, d, e>>
        PROVE  t \in Seq(Plain) /\ t # <<>> /\ \A i \in 1 .. Len(t) : t[i] # "nl"
    BY <2>2
  <2>3. {"x", "X", ".", "\\", "/"} \subseteq Plain \ {"nl"}
    BY DEF Plain
  <2> QED BY <2>1, <2>2, <2>3
<1>2. a \in Nat /\ a + l \in Nat /\ a < a + l
  OBVIOUS
<1> HIDE DEF m
<1>3. m.kind = k /\ m.text = t /\ m.from = a /\ m.to = a + l
      /\ m \in [kind : Kinds, text : Seq(Plain) \ {<<>>}, from : Nat, to : Nat]
  BY <1>1, <1>2 DEF m
<1> QED BY <1>1, <1>2, <1>3 DEF Match, m

LEMMA QuotesTyped == Quotes \subseteq Seq(Plain) \ {<<>>}
BY DEF Quotes, Plain

LEMMA GateInputInit == Inputs => GateInput
<1> SUFFICES ASSUME Inputs PROVE GateInput
  OBVIOUS
<1>1. CASE EvidenceInputs
  BY <1>1 DEF EvidenceInputs, GateInput
<1>2. CASE ReportInputs
  BY <1>2, ReportLaws DEF GateInput
<1>3. CASE FindingInputs
  BY <1>3 DEF FindingInputs, GateInput
<1>4. CASE PrepareInputs \/ AccuracyInputs \/ ListingInputs \/ PinsInputs \/ input = [law |-> "download"]
  BY <1>4 DEF PrepareInputs, AccuracyInputs, ListingInputs, PinsInputs, GateInput
<1>5. ASSUME NEW matches \in BoundedSeq(Matches, 2), NEW quotes \in BoundedSeq(Quotes, 2) \ {<<>>},
             input = [law |-> "entity", matches |-> matches, quotes |-> quotes]
      PROVE  GateInput
  <2>1. matches \in Seq(Matches) /\ quotes \in Seq(Quotes)
    BY BoundedIsSeq
  <2>2. matches \in Seq(Match(Plain, Kinds)) /\ quotes \in Seq(Seq(Plain) \ {<<>>})
    BY <2>1, MatchesTyped, QuotesTyped
  <2> QED BY <1>5, <2>2 DEF GateInput
<1>6. ASSUME NEW raw \in BoundedSeq({"x", "X", "role", "phrase", "zero"}, 4),
             NEW from \in 1 .. 4, NEW to \in 1 .. 4,
             input = [law |-> "quote", raw |-> raw, from |-> from, to |-> to]
      PROVE  GateInput
  <2>1. raw \in Seq({"x", "X", "role", "phrase", "zero"})
    BY BoundedIsSeq
  <2>2. raw \in Seq(Plain \cup Stripped)
    BY <2>1 DEF Plain, Stripped
  <2> QED BY <1>6, <2>2 DEF GateInput
<1>7. CASE GateInputs
  BY <1>5, <1>6, <1>7 DEF GateInputs
<1> QED BY <1>1, <1>2, <1>3, <1>4, <1>7 DEF Inputs

\* The run's reading of both: the gates of an observation refuse nothing faithful
\* and let nothing pass that its quotes do not carry.
THEOREM GatesHold == Spec => []GatesAreFaithful
<1>1. Init => GateInput
  BY GateInputInit DEF Init
<1>2. GateInput /\ [Next]_<<input, dvars>> => GateInput'
  BY DEF Next, GateInput
<1>3. GateInput => GatesAreFaithful
  BY EntitiesAreQuoted, QuotesAreAccepted DEF GateInput, GatesAreFaithful
<1> QED BY <1>1, <1>2, <1>3, PTL DEF Spec

-----------------------------------------------------------------------------
\* A finite set as a sequence: each member once.
LEMMA SetToSeqIs ==
    ASSUME NEW S, IsFiniteSet(S)
    PROVE  /\ SetToSeq(S) \in Seq(S) /\ Len(SetToSeq(S)) = Cardinality(S) /\ Range(SetToSeq(S)) = S
           /\ Cardinality(S) \in Nat /\ DOMAIN SetToSeq(S) = 1 .. Cardinality(S)
           /\ \A i, j \in 1 .. Cardinality(S) : SetToSeq(S)[i] = SetToSeq(S)[j] => i = j
<1> DEFINE N == Cardinality(S)
           s == SetToSeq(S)
<1>1. N \in Nat /\ ExistsBijection(1 .. N, S)
  BY FS_CardinalityType
<1>2. PICK f \in [1 .. N -> S] : IsInjective(f) /\ \A x \in S : \E i \in 1 .. N : f[i] = x
  <2>1. PICK f \in Bijection(1 .. N, S) : TRUE
    BY <1>1 DEF ExistsBijection
  <2>2. f \in [1 .. N -> S] /\ (\A a, b \in 1 .. N : f[a] = f[b] => a = b)
        /\ \A x \in S : \E i \in 1 .. N : f[i] = x
    BY <2>1 DEF Bijection, Injection, Surjection, IsInjective
  <2> QED BY <2>2 DEF IsInjective
<1>3. s \in [1 .. N -> S] /\ IsInjective(s)
  <2> HIDE DEF N
  <2> QED BY <1>2, Zenon DEF SetToSeq, N
<1> HIDE DEF s
<1>4. \A a, b \in 1 .. N : s[a] = s[b] => a = b
  BY <1>3 DEF IsInjective
<1>5. s \in Injection(1 .. N, S)
  BY <1>3, <1>4 DEF Injection, IsInjective
<1>6. IsFiniteSet(1 .. N) /\ Cardinality(1 .. N) = N
  <2>1. 1 \in Int /\ N \in Int
    BY <1>1
  <2>2. Cardinality(1 .. N) = IF 1 > N THEN 0 ELSE N - 1 + 1
    BY <2>1, FS_Interval
  <2>3. IsFiniteSet(1 .. N)
    BY <2>1, FS_Interval
  <2> QED BY <1>1, <2>2, <2>3
<1>7. s \in Surjection(1 .. N, S)
  BY <1>5, <1>6, FS_Injection
<1>8. Range(s) = S
  <2>1. \A x \in S : \E i \in 1 .. N : s[i] = x
    BY <1>7 DEF Surjection
  <2> QED BY <1>3, <2>1 DEF Range
<1>9. s \in Seq(S) /\ Len(s) = N /\ DOMAIN s = 1 .. N
  BY <1>1, <1>3
<1> QED BY <1>1, <1>4, <1>8, <1>9 DEF s

-----------------------------------------------------------------------------
(* A finding's tier and its challenges *)

Spans(R) == Seq([record : R, wellformed : BOOLEAN])

\* The records of the index that spans cite.
CitedRecords(spans, index) == RecordIds(spans) \cap DOMAIN index
Views(spans, index) == {Categorize(index[r]) : r \in CitedRecords(spans, index)}

LEMMA TierIs ==
    ASSUME NEW R, NEW spans \in Spans(R), NEW index
    PROVE  LET K == CitedRecords(spans, index)
               V == Views(spans, index)
               c == ClassifyWithIndex(RecordIds(spans), index)
           IN /\ IsFiniteSet(K) /\ IsFiniteSet(V)
              /\ c.categories = V
              /\ c.tier = IF Cardinality(V) >= 2 THEN "CONFIRMED"
                          ELSE IF Cardinality(K) >= 2 THEN "INFERRED" ELSE "UNVERIFIED"
<1> DEFINE K == CitedRecords(spans, index)
           V == Views(spans, index)
           W == {k \in DOMAIN spans : spans[k].wellformed}
           f == SetToSeq(K)
           tools == [k \in 1 .. Cardinality(K) |-> index[f[k]]]
<1>1. IsFiniteSet(W)
  <2>1. DOMAIN spans = 1 .. Len(spans) /\ Len(spans) \in Nat
    BY DEF Spans
  <2>2. IsFiniteSet(1 .. Len(spans))
    BY <2>1, FS_Interval
  <2>3. W \in SUBSET (1 .. Len(spans))
    BY <2>1
  <2> HIDE DEF W
  <2> QED BY <2>2, <2>3, FS_Subset
<1>2. IsFiniteSet(K)
  <2> DEFINE recordOf == [k \in W |-> spans[k].record]
  <2>1. RecordIds(spans) = {recordOf[k] : k \in W}
    BY DEF RecordIds
  <2> HIDE DEF recordOf, W
  <2>2. IsFiniteSet({recordOf[k] : k \in W})
    BY <1>1, ImageFinite
  <2> QED BY <2>1, <2>2, FS_Intersection DEF CitedRecords
<1>3. IsFiniteSet(V)
  <2> DEFINE viewOf == [r \in K |-> Categorize(index[r])]
  <2>1. V = {viewOf[r] : r \in K}
    BY DEF Views
  <2> HIDE DEF K, V, viewOf
  <2>2. IsFiniteSet({viewOf[r] : r \in K})
    BY <1>2, ImageFinite
  <2> QED BY <2>1, <2>2
<1>4. /\ Range(f) = K /\ Len(f) = Cardinality(K) /\ Cardinality(K) \in Nat
      /\ DOMAIN f = 1 .. Cardinality(K)
  <2> HIDE DEF K
  <2> QED BY <1>2, SetToSeqIs
<1>5. ClassifyWithIndex(RecordIds(spans), index) = ClassifyTools(tools)
  BY Zenon DEF ClassifyWithIndex, CitedRecords
<1> HIDE DEF K, V, f
<1>6. Len(tools) = Cardinality(K)
  BY <1>4
<1>7. Range(tools) = {index[r] : r \in K}
  <2>1. DOMAIN tools = 1 .. Cardinality(K) /\ \A k \in 1 .. Cardinality(K) : tools[k] = index[f[k]]
    OBVIOUS
  <2> HIDE DEF tools
  <2>2. Range(tools) = {index[f[k]] : k \in 1 .. Cardinality(K)}
    BY <2>1 DEF Range
  <2>3. K = {f[k] : k \in 1 .. Cardinality(K)}
    BY <1>4 DEF Range
  <2> QED BY <2>2, <2>3
<1>8. {Categorize(t) : t \in Range(tools)} = V
  BY <1>7 DEF V, Views, K
<1> HIDE DEF tools
<1>9. ClassifyTools(tools) = [categories |-> V,
         tier |-> IF Cardinality(V) >= 2 THEN "CONFIRMED"
                  ELSE IF Cardinality(K) >= 2 THEN "INFERRED" ELSE "UNVERIFIED"]
  BY <1>6, <1>8, Zenon DEF ClassifyTools
<1> QED BY <1>2, <1>3, <1>5, <1>9 DEF K, V

\* A finding is CONFIRMED by two records of different kinds and by nothing less, and
\* INFERRED from two different records: whatever spans it cites, and whatever the
\* index has.  A citation more never takes from the tier.
\* (classify_with_index, _tier_for_spans)
THEOREM TiersAreEarned ==
    ASSUME NEW R, NEW spans \in Spans(R), NEW index
    PROVE  TierLaw(spans, index)
<1> DEFINE K == CitedRecords(spans, index)
           V == Views(spans, index)
<1>1. /\ IsFiniteSet(K) /\ IsFiniteSet(V)
      /\ ClassifyWithIndex(RecordIds(spans), index).categories = V
      /\ Tier(spans, index) = IF Cardinality(V) >= 2 THEN "CONFIRMED"
                                     ELSE IF Cardinality(K) >= 2 THEN "INFERRED" ELSE "UNVERIFIED"
  BY TierIs DEF Tier
<1>2. /\ Cardinality(K) >= 2 <=> \E a, b \in K : a # b
      /\ Cardinality(V) >= 2 <=> \E a, b \in V : a # b
  <2> HIDE DEF K, V
  <2> QED BY <1>1, TwoOrMore
<1>3. (\E a, b \in V : a # b) <=> \E r, s \in K : Categorize(index[r]) # Categorize(index[s])
  BY DEF Views
<1>4. Tier(spans, index) = "CONFIRMED" <=>
         \E r, s \in K : Categorize(index[r]) # Categorize(index[s])
  <2> HIDE DEF K, V
  <2> QED BY <1>1, <1>2, <1>3
<1>5. Tier(spans, index) = "UNVERIFIED" <=> \A r, s \in K : r = s
  <2>1. (\A r, s \in K : r = s) => ~\E r, s \in K : Categorize(index[r]) # Categorize(index[s])
    OBVIOUS
  <2> HIDE DEF K, V
  <2> QED BY <1>1, <1>2, <1>3, <2>1
<1>6. ASSUME NEW k \in DOMAIN spans
      PROVE  TierRank(Tier(RemoveAt(spans, k), index)) <= TierRank(Tier(spans, index))
  <2> DEFINE t == RemoveAt(spans, k)
             L == CitedRecords(t, index)
             W == Views(t, index)
  <2>1. t \in Spans(R) /\ \A i \in DOMAIN t : \E j \in DOMAIN spans : t[i] = spans[j]
    <3> DEFINE Cite == [record : R, wellformed : BOOLEAN]
               n == Len(spans)
               a == SubSeq(spans, 1, k - 1)
               b == SubSeq(spans, k + 1, n)
    <3>0. spans \in Seq(Cite)
      BY DEF Spans
    <3>1. n \in Nat /\ DOMAIN spans = 1 .. n /\ k \in 1 .. n /\ \A i \in 1 .. n : spans[i] \in Cite
      <4> HIDE DEF Cite
      <4> QED BY <3>0
    <3>2. /\ a \in Spans(R) /\ Len(a) = k - 1 /\ \A i \in 1 .. k - 1 : a[i] = spans[i]
      <4>1. 1 \in Int /\ k - 1 \in Int /\ \A i \in 1 .. k - 1 : spans[i] \in Cite
        <5> HIDE DEF Cite, n
        <5> QED BY <3>1
      <4> QED BY <3>1, <4>1, SubSeqProperties DEF Spans
    <3>3. /\ b \in Spans(R) /\ Len(b) = n - k /\ \A i \in 1 .. n - k : b[i] = spans[k + i]
      <4>1. k + 1 \in Int /\ n \in Int /\ \A i \in k + 1 .. n : spans[i] \in Cite
        <5> HIDE DEF Cite, n
        <5> QED BY <3>1
      <4>2. Len(b) = (IF k + 1 <= n THEN n - (k + 1) + 1 ELSE 0) /\ b \in Seq(Cite)
            /\ \A i \in 1 .. n - (k + 1) + 1 : b[i] = spans[k + 1 + i - 1]
        <5> HIDE DEF n
        <5> QED BY <4>1, SubSeqProperties
      <4>3. n - (k + 1) + 1 = n - k /\ Len(b) = n - k
        BY <3>1, <4>2
      <4>4. \A i \in 1 .. n - k : k + 1 + i - 1 = k + i
        BY <3>1
      <4> QED BY <4>2, <4>3, <4>4 DEF Spans
    <3> HIDE DEF a, b
    <3>4. t = a \o b
      BY DEF RemoveAt, a, b
    <3>5. /\ t \in Spans(R) /\ DOMAIN t = 1 .. n - 1
          /\ \A i \in 1 .. n - 1 : t[i] = IF i <= k - 1 THEN a[i] ELSE b[i - (k - 1)]
      <4>1. /\ a \o b \in Seq(Cite) /\ Len(a \o b) = Len(a) + Len(b)
            /\ \A i \in 1 .. Len(a) + Len(b) : (a \o b)[i] = IF i <= Len(a) THEN a[i] ELSE b[i - Len(a)]
        BY <3>2, <3>3, ConcatProperties DEF Spans
      <4>2. Len(a) + Len(b) = n - 1 /\ Len(a) = k - 1
        BY <3>1, <3>2, <3>3
      <4>3. DOMAIN (a \o b) = 1 .. Len(a \o b)
        BY <4>1
      <4> HIDE DEF Cite, n
      <4> QED BY <3>4, <4>1, <4>2, <4>3 DEF Spans, Cite
    <3> HIDE DEF t, n
    <3>6. ASSUME NEW i \in 1 .. n - 1 PROVE \E j \in DOMAIN spans : t[i] = spans[j]
      <4>1. CASE i <= k - 1
        <5>1. i \in 1 .. k - 1 /\ i \in 1 .. n
          BY <3>1, <4>1
        <5> QED BY <3>1, <3>2, <3>5, <4>1, <5>1
      <4>2. CASE ~(i <= k - 1)
        <5>1. i - (k - 1) \in 1 .. n - k /\ k + (i - (k - 1)) \in 1 .. n
          BY <3>1, <4>2
        <5> QED BY <3>1, <3>3, <3>5, <4>2, <5>1
      <4> QED BY <4>1, <4>2
    <3> QED BY <3>5, <3>6
  <2> HIDE DEF t
  <2>2. L \subseteq K
    <3>1. RecordIds(t) \subseteq RecordIds(spans)
      BY <2>1 DEF RecordIds
    <3> QED BY <3>1 DEF CitedRecords
  <2>3. W \subseteq V
    BY <2>2 DEF Views
  <2>4. /\ IsFiniteSet(L) /\ IsFiniteSet(W)
        /\ Tier(t, index) = IF Cardinality(W) >= 2 THEN "CONFIRMED"
                                   ELSE IF Cardinality(L) >= 2 THEN "INFERRED" ELSE "UNVERIFIED"
    BY <2>1, TierIs DEF Tier
  <2> HIDE DEF K, V, L, W
  <2>5. Cardinality(L) \in Nat /\ Cardinality(K) \in Nat /\ Cardinality(W) \in Nat /\ Cardinality(V) \in Nat
    BY <1>1, <2>4, FS_CardinalityType
  <2>6. Cardinality(L) <= Cardinality(K) /\ Cardinality(W) <= Cardinality(V)
    BY <1>1, <2>2, <2>3, FS_Subset
  <2>7. TierRank("UNVERIFIED") = 0 /\ TierRank("INFERRED") = 1 /\ TierRank("CONFIRMED") = 2
    BY DEF TierRank
  <2>8. CASE Cardinality(W) >= 2
    BY <1>1, <2>4, <2>5, <2>6, <2>7, <2>8 DEF t
  <2>9. CASE ~(Cardinality(W) >= 2) /\ Cardinality(L) >= 2
    BY <1>1, <2>4, <2>5, <2>6, <2>7, <2>9 DEF t
  <2>10. CASE ~(Cardinality(W) >= 2) /\ ~(Cardinality(L) >= 2)
    <3>1. Tier(t, index) = "UNVERIFIED"
      BY <2>4, <2>10
    <3>2. TierRank(Tier(spans, index)) \in 0 .. 2
      BY <1>1, <2>7
    <3> QED BY <2>7, <3>1, <3>2 DEF t
  <2> QED BY <2>8, <2>9, <2>10
<1>7. K = {spans[k].record : k \in {k \in DOMAIN spans : spans[k].wellformed}} \cap DOMAIN index
  BY DEF CitedRecords, RecordIds
<1>8. V = {Categorize(index[r]) : r \in K}
  BY DEF Views
<1> HIDE DEF K, V
<1> QED BY <1>1, <1>4, <1>5, <1>6, <1>7, <1>8, Zenon DEF TierLaw

LEMMA RaisedIs ==
    ASSUME NEW claim, NEW cited
    PROVE  Range(Challenges(claim, cited)) =
              {d \in {"EXECUTION_OVERCLAIM", "GHOST_PROCESS", "TIMESTAMP_PARADOX"} :
                  Detected(d, claim, cited)}
<1> DEFINE D == Detectors
           X == {"EXECUTION_OVERCLAIM", "GHOST_PROCESS", "TIMESTAMP_PARADOX"}
           S == {d \in Range(D) : Detected(d, claim, cited)}
<1>1. D \in Seq(X) /\ Range(D) = X
  <2>1. D = <<"EXECUTION_OVERCLAIM", "GHOST_PROCESS", "TIMESTAMP_PARADOX">>
    BY DEF Detectors
  <2>2. D \in Seq(X)
    BY <2>1
  <2>3. DOMAIN D = 1 .. 3 /\ 1 .. 3 = {1, 2, 3} /\ D[1] = "EXECUTION_OVERCLAIM"
        /\ D[2] = "GHOST_PROCESS" /\ D[3] = "TIMESTAMP_PARADOX"
    BY <2>1
  <2> HIDE DEF D
  <2> QED BY <2>2, <2>3 DEF Range
<1>3. Challenges(claim, cited) = Among(D, S)
  BY DEF Challenges
<1> HIDE DEF D, S
<1>4. Range(Among(D, S)) = Range(D) \cap S
  BY <1>1, AmongIs
<1>5. Range(D) \cap S = {d \in X : Detected(d, claim, cited)}
  BY <1>1 DEF S
<1> QED BY <1>3, <1>4, <1>5

\* A written time: a day, a day and a minute, or those and a second.
Stamp(T) == {s \in [time : Seq(T), zulu : BOOLEAN] : Len(s.time) \in 1 .. 3}

\* The challenges of a claim are what its citations leave open: whatever is cited
\* besides, a claim that its citations bear out is not challenged, and one made
\* without them is.
\* (run_contradiction_detectors)
THEOREM ChallengesAreBorneOut ==
    ASSUME NEW T, NEW X, NEW claim, claim.stamps \subseteq Stamp(T),
           NEW cited \in Seq(X), \A e \in X : e.stamps \subseteq Stamp(T)
    PROVE  ChallengeLaw(claim, cited)
<1> DEFINE RaisedBy(c) == Range(Challenges(claim, c))
           written == StampsOf(cited)
<1>1. \A c : /\ "EXECUTION_OVERCLAIM" \in RaisedBy(c) <=> DetectExecutionOverclaim(claim, c)
             /\ "GHOST_PROCESS" \in RaisedBy(c) <=> DetectGhostProcess(claim, c)
             /\ "TIMESTAMP_PARADOX" \in RaisedBy(c) <=> DetectTimestampParadox(claim, c)
             /\ RaisedBy(c) \subseteq {"EXECUTION_OVERCLAIM", "GHOST_PROCESS", "TIMESTAMP_PARADOX"}
  <2>1. \A c : Detected("EXECUTION_OVERCLAIM", claim, c) = DetectExecutionOverclaim(claim, c)
    BY DEF Detected
  <2>2. \A c : Detected("GHOST_PROCESS", claim, c) = DetectGhostProcess(claim, c)
    BY DEF Detected
  <2>3. \A c : Detected("TIMESTAMP_PARADOX", claim, c) = DetectTimestampParadox(claim, c)
    BY DEF Detected
  <2> QED BY <2>1, <2>2, <2>3, RaisedIs
<1>2. ASSUME NEW a, NEW borne, borne = Append(cited, [shows |-> {a}, stamps |-> {}])
      PROVE  /\ \A w : Shows(borne, w) <=> Shows(cited, w) \/ w = a
             /\ StampsOf(borne) = written
  <2> DEFINE e == [shows |-> {a}, stamps |-> {}]
             Y == X \cup {e}
  <2>1. e.shows = {a} /\ e.stamps = {} /\ e \in Y
    OBVIOUS
  <2> HIDE DEF e
  <2>2. cited \in Seq(Y)
    OBVIOUS
  <2>3. Range(borne) = Range(cited) \cup {e}
    <3>1. borne = Append(cited, e)
      BY <1>2 DEF e
    <3> HIDE DEF Y
    <3> QED BY <2>1, <2>2, <3>1, RangeOfAppend
  <2>5. ASSUME NEW w PROVE Shows(borne, w) <=> Shows(cited, w) \/ w = a
    BY <2>1, <2>3 DEF Shows
  <2>6. StampsOf(borne) = written
    BY <2>1, <2>3 DEF StampsOf
  <2> QED BY <2>5, <2>6
<1> HIDE DEF RaisedBy
<1>3. ASSUME NEW extra \in {"execution", "memory"}, NEW borne,
             borne = Append(cited, [shows |-> {extra}, stamps |-> {}])
      PROVE  RaisedBy(borne) = RaisedBy(cited) \ (IF extra = "execution" THEN {"EXECUTION_OVERCLAIM"}
                                              ELSE {"GHOST_PROCESS"})
  <2>1. \A w : Shows(borne, w) <=> Shows(cited, w) \/ w = extra
    BY <1>2, <1>3
  <2>2. StampsOf(borne) = StampsOf(cited)
    BY <1>2, <1>3
  <2>3. "TIMESTAMP_PARADOX" \in RaisedBy(borne) <=> "TIMESTAMP_PARADOX" \in RaisedBy(cited)
    BY <1>1, <2>2 DEF DetectTimestampParadox
  <2>4. "EXECUTION_OVERCLAIM" \in RaisedBy(borne) <=>
           "EXECUTION_OVERCLAIM" \in RaisedBy(cited) /\ extra # "execution"
    <3>1. "presence" # extra
      OBVIOUS
    <3> QED BY <1>1, <2>1, <3>1 DEF DetectExecutionOverclaim
  <2>5. "GHOST_PROCESS" \in RaisedBy(borne) <=> "GHOST_PROCESS" \in RaisedBy(cited) /\ extra # "memory"
    BY <1>1, <2>1 DEF DetectGhostProcess
  <2>6. CASE extra = "execution"
    BY <1>1, <2>3, <2>4, <2>5, <2>6
  <2>7. CASE extra = "memory"
    BY <1>1, <2>3, <2>4, <2>5, <2>7
  <2> QED BY <2>6, <2>7
<1>4. /\ claim.running => "GHOST_PROCESS" \in RaisedBy(cited) \/ Shows(cited, "memory")
      /\ "GHOST_PROCESS" \in RaisedBy(cited) => claim.running
  BY <1>1 DEF DetectGhostProcess
<1>5. /\ claim.execution /\ Shows(cited, "presence") =>
            "EXECUTION_OVERCLAIM" \in RaisedBy(cited) \/ Shows(cited, "execution")
      /\ "EXECUTION_OVERCLAIM" \in RaisedBy(cited) => claim.execution /\ Shows(cited, "presence")
  BY <1>1 DEF DetectExecutionOverclaim
<1>6. claim.stamps \subseteq written => "TIMESTAMP_PARADOX" \notin RaisedBy(cited)
  <2> SUFFICES ASSUME claim.stamps \subseteq written
               PROVE  TimestampsIn(claim.stamps) \subseteq TimestampsIn(written)
    BY <1>1 DEF DetectTimestampParadox
  <2> HIDE DEF written
  <2> QED BY DEF TimestampsIn
<1>7. written \subseteq Stamp(T)
  <2>1. Range(cited) \subseteq X
    BY DEF Range
  <2> QED BY <2>1 DEF StampsOf, Range
<1>8. ASSUME NEW s \in Stamp(T), s.zulu, Len(s.time) = 3
      PROVE  SubSeq(s.time, 1, 2)[1] = s.time[1]
  <2>1. s.time \in Seq(T)
    BY DEF Stamp
  <2>2. 1 \in Int /\ 2 \in Int /\ \A i \in 1 .. 2 : s.time[i] \in T
    BY <1>8, <2>1
  <2>3. \A i \in 1 .. 2 - 1 + 1 : SubSeq(s.time, 1, 2)[i] = s.time[1 + i - 1]
    BY <2>2, SubSeqProperties
  <2> QED BY <2>3
<1>9. ASSUME NEW s \in claim.stamps, ~s.zulu \/ Len(s.time) = 3,
             \A w \in written : w.time[1] # s.time[1]
      PROVE  "TIMESTAMP_PARADOX" \in RaisedBy(cited)
  <2>1. \E t \in TimestampsIn(claim.stamps) : t[1] = s.time[1]
    <3>1. CASE ~s.zulu
      BY <3>1 DEF TimestampsIn
    <3>2. CASE s.zulu
      <4>1. SubSeq(s.time, 1, 2) \in TimestampsIn(claim.stamps)
        BY <1>9, <3>2 DEF TimestampsIn
      <4>2. SubSeq(s.time, 1, 2)[1] = s.time[1]
        BY <1>8, <1>9, <3>2
      <4> QED BY <4>1, <4>2
    <3> QED BY <3>1, <3>2
  <2>2. ASSUME NEW t \in TimestampsIn(written) PROVE t[1] # s.time[1]
    <3>1. PICK w \in written : \/ ~w.zulu /\ t = w.time
                               \/ w.zulu /\ Len(w.time) = 3 /\ t = SubSeq(w.time, 1, 2)
      BY <2>2, Zenon DEF TimestampsIn
    <3>2. t[1] = w.time[1]
      BY <1>7, <1>8, <3>1
    <3> QED BY <1>9, <3>2
  <2>3. DetectTimestampParadox(claim, cited)
    BY <2>1, <2>2 DEF DetectTimestampParadox
  <2> QED BY <1>1, <2>3
<1> QED BY <1>3, <1>4, <1>5, <1>6, <1>9, Zenon DEF ChallengeLaw, RaisedBy

-----------------------------------------------------------------------------
(* The scorer and the two reports *)

\* A path that a finding cites, with what the evidence says of it; a finding as a
\* runner leaves it, over the ground-truth substrings X.
Path(X) == [names : SUBSET X, probe : Probe]
Claimed(X) == [shape : {"dict", "bad_paths", "junk"}, names : SUBSET X, cites : Seq(Path(X))]

LEMMA FirstIs ==
    ASSUME NEW n \in Nat, NEW S \in SUBSET (1 .. n), S # {}
    PROVE  First(S) \in S
<1>1. S \in SUBSET Nat
  OBVIOUS
<1>2. \E m \in S : \A k \in S : m <= k
  BY <1>1, SmallestExists
<1> QED BY <1>2, Zenon DEF First

LEMMA SafeFindingsTyped ==
    ASSUME NEW X, NEW raw \in Seq(Claimed(X))
    PROVE  SafeFindings(raw) \in Seq(Claimed(X))
<1> DEFINE objects == Among(raw, {f \in Range(raw) : f.shape # "junk"})
           safe == [i \in DOMAIN objects |->
                      IF objects[i].shape = "bad_paths" THEN [objects[i] EXCEPT !.cites = <<>>]
                      ELSE objects[i]]
<1>1. objects \in Seq(Claimed(X))
  BY AmongIs
<1>2. SafeFindings(raw) = safe
  BY Zenon DEF SafeFindings
<1> HIDE DEF objects
<1>3. DOMAIN objects = 1 .. Len(objects) /\ Len(objects) \in Nat
      /\ \A i \in DOMAIN objects : objects[i] \in Claimed(X)
  BY <1>1
<1>4. \A f \in Claimed(X) : [f EXCEPT !.cites = <<>>] \in Claimed(X)
  <2> DEFINE S == Seq(Path(X))
  <2>1. <<>> \in S
    OBVIOUS
  <2>2. Claimed(X) = [shape : {"dict", "bad_paths", "junk"}, names : SUBSET X, cites : S]
    BY DEF Claimed
  <2> HIDE DEF S
  <2> QED BY <2>1, <2>2
<1>5. \A i \in 1 .. Len(objects) : safe[i] \in Claimed(X)
  BY <1>3, <1>4
<1>6. safe \in [1 .. Len(objects) -> Claimed(X)]
  BY <1>3, <1>5
<1> HIDE DEF safe
<1> QED BY <1>2, <1>3, <1>6

\* Whether the evidence, or a command that ran too long, stands behind a finding.
Backed(f) == \E c \in Range(f.cites) : c.probe \in {"hit", "timeout"}
Credited(f, truth) == {k \in DOMAIN truth : truth[k] \cap Said(f) # {}}

LEMMA ClassifiedIs ==
    ASSUME NEW class, NEW gt, NEW argv, NEW hits
    PROVE  /\ Classified(class, gt, argv, hits).class = class
           /\ Classified(class, gt, argv, hits).gt = gt
           /\ argv \in BOOLEAN /\ argv /\ hits # {} => Paired(Classified(class, gt, argv, hits))
<1> DEFINE c == Classified(class, gt, argv, hits)
<1>1. c.class = class /\ c.gt = gt /\ c.argv = argv /\ c.hits = hits
  BY DEF Classified
<1> HIDE DEF c
<1>2. ASSUME argv \in BOOLEAN, argv, hits # {} PROVE Paired(c)
  BY <1>1, <1>2, Zenon DEF Paired
<1> QED BY <1>1, <1>2, Zenon DEF c

\* The verdict on a finding, from what its paths show in any order.
LEMMA ClassifyIs ==
    ASSUME NEW X, NEW f \in Claimed(X), NEW Y, NEW truth \in Seq(Y)
    PROVE  LET c == Classify(f, truth)
           IN /\ c.class = IF Backed(f)
                           THEN IF Credited(f, truth) # {} THEN "TRUE_POSITIVE" ELSE "FALSE_POSITIVE"
                           ELSE "HALLUCINATION"
              /\ Paired(c)
              /\ c.gt = 0 \/ c.gt \in Credited(f, truth)
<1> DEFINE probes == [i \in DOMAIN f.cites |-> Verified(f.cites[i])]
           best == probes[Best(probes)]
           matches == Credited(f, truth)
           N == Len(f.cites)
           hits == {i \in DOMAIN probes : probes[i].hits > 0}
           late == {i \in DOMAIN probes : probes[i].hits = -1}
<1>1. N \in Nat /\ DOMAIN f.cites = 1 .. N /\ (f.cites = <<>> <=> N = 0)
      /\ \A i \in 1 .. N : f.cites[i].probe \in Probe
  <2>1. f.cites \in Seq(Path(X))
    BY DEF Claimed
  <2>2. \A p \in Path(X) : p.probe \in Probe
    BY DEF Path
  <2> QED BY <2>1, <2>2
<1>2. \A i \in 1 .. N : probes[i].hits \in {0, 1, -1}
                       /\ (probes[i].hits # 0 <=> f.cites[i].probe \in {"hit", "timeout"})
                       /\ (probes[i].hits # 0 => probes[i].argv)
                       /\ probes[i].argv \in BOOLEAN
  <2> SUFFICES ASSUME NEW i \in 1 .. N
               PROVE  LET v == Verified(f.cites[i])
                      IN /\ v.hits \in {0, 1, -1}
                         /\ (v.hits # 0 <=> f.cites[i].probe \in {"hit", "timeout"})
                         /\ (v.hits # 0 => v.argv) /\ v.argv \in BOOLEAN
    BY <1>1
  <2> DEFINE p == f.cites[i].probe
  <2>1. p \in {"refused", "miss", "hit", "timeout"}
    BY <1>1 DEF Probe
  <2>2. Verified(f.cites[i]) = [argv |-> p # "refused",
             hits |-> CASE p = "hit" -> 1 [] p = "timeout" -> -1 [] OTHER -> 0]
    BY DEF Verified
  <2> HIDE DEF p
  <2>3. CASE p = "hit"
    <3>1. Verified(f.cites[i]).hits = 1
      BY <2>2, <2>3
    <3>2. Verified(f.cites[i]).argv = (p # "refused")
      BY <2>2
    <3>3. Verified(f.cites[i]).argv /\ Verified(f.cites[i]).argv \in BOOLEAN
      BY <2>3, <3>2
    <3> QED BY <2>3, <3>1, <3>3 DEF p
  <2>4. CASE p = "timeout"
    <3>1. Verified(f.cites[i]).hits = -1
      BY <2>2, <2>4
    <3>2. Verified(f.cites[i]).argv = (p # "refused")
      BY <2>2
    <3>3. Verified(f.cites[i]).argv /\ Verified(f.cites[i]).argv \in BOOLEAN
      BY <2>4, <3>2
    <3> QED BY <2>4, <3>1, <3>3 DEF p
  <2>5. CASE p = "miss" \/ p = "refused"
    <3>1. Verified(f.cites[i]).hits = 0 /\ Verified(f.cites[i]).argv \in BOOLEAN
      BY <2>2, <2>5
    <3> QED BY <2>5, <3>1 DEF p
  <2> QED BY <2>1, <2>3, <2>4, <2>5
<1>3. DOMAIN probes = 1 .. N
  BY <1>1
<1>4. Classify(f, truth) =
         CASE f.cites = <<>> -> Classified("HALLUCINATION", 0, FALSE, {0})
           [] f.cites # <<>> /\ best.hits = 0 -> Classified("HALLUCINATION", 0, best.argv, {0})
           [] f.cites # <<>> /\ best.hits # 0 /\ matches # {} ->
                Classified("TRUE_POSITIVE", First(matches), best.argv, {best.hits})
           [] OTHER -> Classified("FALSE_POSITIVE", 0, best.argv, {best.hits})
  BY Zenon DEF Classify, Credited
<1>5. Best(probes) = IF hits # {} THEN First(hits) ELSE IF late # {} THEN First(late) ELSE 1
  BY Zenon DEF Best
<1> HIDE DEF probes
<1>6. hits \in SUBSET (1 .. N) /\ late \in SUBSET (1 .. N)
  BY <1>3
<1>7. ASSUME N # 0
      PROVE  Best(probes) \in 1 .. N /\ (best.hits # 0 <=> \E i \in 1 .. N : probes[i].hits # 0)
  <2>1. CASE hits # {}
    <3>1. First(hits) \in hits
      BY <1>1, <1>6, <2>1, FirstIs
    <3>2. Best(probes) \in hits
      BY <1>5, <2>1, <3>1
    <3>3. Best(probes) \in 1 .. N /\ best.hits > 0
      BY <1>3, <3>2
    <3>4. best.hits # 0
      BY <1>2, <3>3
    <3> QED BY <3>3, <3>4
  <2>2. CASE hits = {} /\ late # {}
    <3>1. First(late) \in late
      BY <1>1, <1>6, <2>2, FirstIs
    <3>2. Best(probes) \in late
      BY <1>5, <2>2, <3>1
    <3>3. Best(probes) \in 1 .. N /\ best.hits # 0
      BY <1>3, <3>2
    <3> QED BY <3>3
  <2>3. CASE hits = {} /\ late = {}
    <3>1. Best(probes) = 1 /\ 1 \in 1 .. N
      BY <1>1, <1>5, <1>7, <2>3
    <3>2. \A i \in 1 .. N : probes[i].hits = 0
      BY <1>2, <1>3, <2>3
    <3> QED BY <3>1, <3>2
  <2> QED BY <2>1, <2>2, <2>3
<1>8. Backed(f) <=> \E i \in 1 .. N : probes[i].hits # 0
  BY <1>1, <1>2 DEF Backed, Range
<1>9. matches # {} => First(matches) \in matches
  <2>1. Len(truth) \in Nat /\ matches \in SUBSET (1 .. Len(truth))
    BY DEF Credited
  <2> HIDE DEF matches
  <2> QED BY <2>1, FirstIs
<1> HIDE DEF best, hits, late, matches, N
<1>10. CASE f.cites = <<>>
  <2>1. ~Backed(f)
    BY <1>1, <1>8, <1>10
  <2>2. Classify(f, truth) = Classified("HALLUCINATION", 0, FALSE, {0})
    BY <1>4, <1>10
  <2> QED BY <2>1, <2>2 DEF Classified, Paired
<1>11. CASE f.cites # <<>> /\ best.hits = 0
  <2>1. ~Backed(f) /\ Best(probes) \in 1 .. N
    BY <1>1, <1>7, <1>8, <1>11
  <2>2. Classify(f, truth) = Classified("HALLUCINATION", 0, best.argv, {0})
    BY <1>4, <1>11
  <2>3. best.argv \in BOOLEAN
    BY <1>2, <2>1 DEF best
  <2> QED BY <2>1, <2>2, <2>3 DEF Classified, Paired
<1>12. CASE f.cites # <<>> /\ best.hits # 0
  <2>1. Backed(f) /\ Best(probes) \in 1 .. N
    BY <1>1, <1>7, <1>8, <1>12
  <2>2. best.argv /\ best.argv \in BOOLEAN
    BY <1>2, <1>12, <2>1 DEF best
  <2>3. CASE matches # {}
    <3>1. Classify(f, truth) = Classified("TRUE_POSITIVE", First(matches), best.argv, {best.hits})
      BY <1>4, <1>12, <2>3
    <3>2. First(matches) \in Credited(f, truth) /\ Credited(f, truth) # {}
      BY <1>9, <2>3 DEF matches
    <3>3. {best.hits} # {}
      OBVIOUS
    <3> DEFINE v == Classify(f, truth)
               w == Classified("TRUE_POSITIVE", First(matches), best.argv, {best.hits})
    <3>4. Paired(w)
      BY <2>2, <3>3, ClassifiedIs
    <3>5. w.class = "TRUE_POSITIVE" /\ w.gt = First(matches)
      BY ClassifiedIs
    <3>6. v.class = "TRUE_POSITIVE" /\ v.gt = First(matches) /\ Paired(v)
      BY <3>1, <3>4, <3>5
    <3> QED BY <2>1, <3>2, <3>6 DEF v
  <2>4. CASE matches = {}
    <3>1. Classify(f, truth) = Classified("FALSE_POSITIVE", 0, best.argv, {best.hits})
      BY <1>4, <1>12, <2>4
    <3>2. Credited(f, truth) = {}
      BY <2>4 DEF matches
    <3>3. {best.hits} # {}
      OBVIOUS
    <3> DEFINE v == Classify(f, truth)
               w == Classified("FALSE_POSITIVE", 0, best.argv, {best.hits})
    <3>4. Paired(w)
      BY <2>2, <3>3, ClassifiedIs
    <3>5. w.class = "FALSE_POSITIVE" /\ w.gt = 0
      BY ClassifiedIs
    <3>6. v.class = "FALSE_POSITIVE" /\ v.gt = 0 /\ Paired(v)
      BY <3>1, <3>4, <3>5
    <3> QED BY <2>1, <3>2, <3>6 DEF v
  <2> QED BY <2>3, <2>4
<1> QED BY <1>10, <1>11, <1>12

\* A finding with its paths the other way round.
LEMMA ReverseIs ==
    ASSUME NEW S, NEW s \in Seq(S)
    PROVE  Reverse(s) \in Seq(S) /\ Range(Reverse(s)) = Range(s)
<1> DEFINE n == Len(s)
           r == [i \in 1 .. n |-> s[(n - i) + 1]]
<1>1. n \in Nat /\ DOMAIN s = 1 .. n /\ \A i \in 1 .. n : s[i] \in S
  OBVIOUS
<1>2. Reverse(s) = r
  BY Zenon DEF Reverse
<1> HIDE DEF n
<1>3. \A i \in 1 .. n : (n - i) + 1 \in 1 .. n /\ (n - ((n - i) + 1)) + 1 = i
  BY <1>1
<1>4. r \in [1 .. n -> S]
  BY <1>1, <1>3
<1>5. \A i \in 1 .. n : r[i] = s[(n - i) + 1] /\ r[(n - i) + 1] = s[i]
  BY <1>3
<1>6. DOMAIN r = 1 .. n
  OBVIOUS
<1> HIDE DEF r
<1>7. Range(r) = Range(s)
  BY <1>1, <1>3, <1>5, <1>6 DEF Range
<1> QED BY <1>1, <1>2, <1>4, <1>7

LEMMA ReversedIs ==
    ASSUME NEW X, NEW f \in Claimed(X), NEW g, g = [f EXCEPT !.cites = Reverse(@)]
    PROVE  g \in Claimed(X) /\ Range(g.cites) = Range(f.cites) /\ g.names = f.names
<1> DEFINE S == Seq(Path(X))
<1>1. Claimed(X) = [shape : {"dict", "bad_paths", "junk"}, names : SUBSET X, cites : S]
  BY DEF Claimed
<1>2. Reverse(f.cites) \in S /\ Range(Reverse(f.cites)) = Range(f.cites)
  <2>1. f.cites \in S
    BY <1>1
  <2> QED BY <2>1, ReverseIs
<1> HIDE DEF S
<1>3. g = [f EXCEPT !.cites = Reverse(f.cites)]
  BY <1>1
<1> QED BY <1>1, <1>2, <1>3

\* Every finding is counted under one of the three verdicts.
LEMMA VerdictsCounted ==
    ASSUME NEW n \in Nat, NEW v, \A i \in 1 .. n : v[i].class \in {"TRUE_POSITIVE", "FALSE_POSITIVE", "HALLUCINATION"}
    PROVE  Cardinality({i \in 1 .. n : v[i].class = "TRUE_POSITIVE"})
           + Cardinality({i \in 1 .. n : v[i].class = "FALSE_POSITIVE"})
           + Cardinality({i \in 1 .. n : v[i].class = "HALLUCINATION"}) = n
<1> DEFINE T == {i \in 1 .. n : v[i].class = "TRUE_POSITIVE"}
           F == {i \in 1 .. n : v[i].class = "FALSE_POSITIVE"}
           H == {i \in 1 .. n : v[i].class = "HALLUCINATION"}
<1>1. T \cup F \cup H = 1 .. n /\ T \cap F = {} /\ (T \cup F) \cap H = {}
  OBVIOUS
<1>2. T \in SUBSET (1 .. n) /\ F \in SUBSET (1 .. n) /\ H \in SUBSET (1 .. n)
  OBVIOUS
<1>3. IsFiniteSet(1 .. n) /\ Cardinality(1 .. n) = n
  <2>1. 1 \in Int /\ n \in Int
    OBVIOUS
  <2>2. IsFiniteSet(1 .. n) /\ Cardinality(1 .. n) = IF 1 > n THEN 0 ELSE n - 1 + 1
    BY <2>1, FS_Interval
  <2> QED BY <2>2
<1> HIDE DEF T, F, H
<1>4. IsFiniteSet(T) /\ IsFiniteSet(F) /\ IsFiniteSet(H)
  BY <1>2, <1>3, FS_Subset
<1>5. Cardinality({}) = 0
  BY FS_EmptySet
<1>6. Cardinality(T \cup F) = Cardinality(T) + Cardinality(F) - Cardinality(T \cap F) /\ IsFiniteSet(T \cup F)
  BY <1>4, FS_Union
<1>7. Cardinality((T \cup F) \cup H) = Cardinality(T \cup F) + Cardinality(H) - Cardinality((T \cup F) \cap H)
  BY <1>4, <1>6, FS_Union
<1>8. Cardinality(T) \in Nat /\ Cardinality(F) \in Nat /\ Cardinality(H) \in Nat
  BY <1>4, FS_CardinalityType
<1>9. Cardinality(T) + Cardinality(F) + Cardinality(H) = n
  <2>1. Cardinality(T \cap F) = 0 /\ Cardinality((T \cup F) \cap H) = 0
    BY <1>1, <1>5
  <2>2. Cardinality((T \cup F) \cup H) = n
    BY <1>1, <1>3
  <2> QED BY <1>6, <1>7, <1>8, <2>1, <2>2
<1> QED BY <1>9 DEF T, F, H

\* The scorer's verdicts fit its own validators whatever the findings and the ground
\* truth; the order of a finding's paths does not matter, nothing is both credited
\* and missing, and `score_case` finds what the scorer does not miss.
\* (classify_finding, compute_false_negatives, build_metrics, score_case)
THEOREM VerdictsFit ==
    ASSUME NEW X, NEW raw \in Seq(Claimed(X)), NEW Y, NEW truth \in Seq(Y)
    PROVE  ScoringLaw(truth, raw)
<1> DEFINE findings == SafeFindings(raw)
           verdicts == [i \in DOMAIN findings |-> Classify(findings[i], truth)]
           missing == FalseNegatives(truth, findings)
           N == Len(findings)
<1>1. /\ findings \in Seq(Claimed(X)) /\ DOMAIN findings = 1 .. N /\ N \in Nat
      /\ \A i \in 1 .. N : findings[i] \in Claimed(X)
  <2>1. findings \in Seq(Claimed(X))
    BY SafeFindingsTyped
  <2> HIDE DEF findings
  <2> QED BY <2>1
<1> HIDE DEF findings, N
<1>2. missing = {k \in DOMAIN truth : \A i \in 1 .. N : truth[k] \cap Said(findings[i]) = {}}
  BY <1>1 DEF FalseNegatives
<1>3. \A i \in 1 .. N : /\ verdicts[i].class = IF Backed(findings[i])
                           THEN IF Credited(findings[i], truth) # {} THEN "TRUE_POSITIVE" ELSE "FALSE_POSITIVE"
                           ELSE "HALLUCINATION"
                        /\ Paired(verdicts[i])
                        /\ verdicts[i].gt = 0 \/ verdicts[i].gt \in Credited(findings[i], truth)
  <2> TAKE i \in 1 .. N
  <2>1. verdicts[i] = Classify(findings[i], truth) /\ findings[i] \in Claimed(X)
    BY <1>1
  <2> HIDE DEF verdicts
  <2> QED BY <2>1, ClassifyIs
<1>4. DOMAIN verdicts = 1 .. N
  BY <1>1
<1>5. ASSUME NEW i \in 1 .. N
      PROVE  verdicts[i].gt \notin missing
  <2>1. 0 \notin DOMAIN truth
    OBVIOUS
  <2>2. \A k \in Credited(findings[i], truth) : k \notin missing
    BY <1>2 DEF Credited
  <2> HIDE DEF verdicts, missing
  <2>3. missing \subseteq DOMAIN truth
    BY <1>2
  <2> QED BY <1>3, <2>1, <2>2, <2>3
<1>6. ASSUME NEW i \in 1 .. N
      PROVE  Classify([findings[i] EXCEPT !.cites = Reverse(@)], truth).class = verdicts[i].class
  <2> DEFINE g == [findings[i] EXCEPT !.cites = Reverse(@)]
  <2>1. g \in Claimed(X) /\ Range(g.cites) = Range(findings[i].cites) /\ g.names = findings[i].names
    BY <1>1, ReversedIs
  <2> HIDE DEF g
  <2>2. (Backed(g) <=> Backed(findings[i])) /\ Credited(g, truth) = Credited(findings[i], truth)
    BY <2>1 DEF Backed, Credited, Said
  <2>3. Classify(g, truth).class = IF Backed(g)
                           THEN IF Credited(g, truth) # {} THEN "TRUE_POSITIVE" ELSE "FALSE_POSITIVE"
                           ELSE "HALLUCINATION"
    BY <2>1, ClassifyIs
  <2>4. Classify(g, truth).class = verdicts[i].class
    BY <1>3, <2>2, <2>3
  <2> QED BY <2>4 DEF g
<1>7. Reportable(Metrics(truth, [findings |-> raw, time |-> {}]))
  <2> DEFINE m == Metrics(truth, [findings |-> raw, time |-> {}])
             CountOf(class) == Cardinality({i \in 1 .. N : verdicts[i].class = class})
  <2>1. m.tp = CountOf("TRUE_POSITIVE") /\ m.fp = CountOf("FALSE_POSITIVE")
        /\ m.hall = CountOf("HALLUCINATION") /\ m.total = N
    BY <1>1 DEF Metrics, findings, N
  <2>2. \A i \in 1 .. N : verdicts[i].class \in {"TRUE_POSITIVE", "FALSE_POSITIVE", "HALLUCINATION"}
    BY <1>3
  <2> HIDE DEF m, verdicts
  <2>3. CountOf("TRUE_POSITIVE") + CountOf("FALSE_POSITIVE") + CountOf("HALLUCINATION") = N
    BY <1>1, <2>2, VerdictsCounted
  <2> HIDE DEF CountOf
  <2>4. m.tp + m.fp + m.hall = m.total
    BY <2>1, <2>3
  <2> QED BY <2>4 DEF Reportable, m
<1>8. CaseHits(truth, findings) = DOMAIN truth \ missing
  <2>1. Range(Scorable(findings)) = {f \in Range(findings) : f.names # {} \/ f.cites # <<>>}
    <3>1. Range(Scorable(findings)) = Range(findings) \cap {o \in Range(findings) : o.names # {} \/ o.cites # <<>>}
      BY <1>1, AmongIs DEF Scorable
    <3> QED BY <3>1
  <2>2. Range(findings) = {findings[i] : i \in 1 .. N}
    BY <1>1 DEF Range
  <2>3. ASSUME NEW f, f.names = {}, f.cites = <<>> PROVE Said(f) = {}
    <3>1. Range(<<>>) = {}
      BY DEF Range
    <3> QED BY <2>3, <3>1 DEF Said
  <2>4. ASSUME NEW k \in DOMAIN truth
        PROVE  (\E f \in Range(Scorable(findings)) : truth[k] \cap Said(f) # {})
                  <=> \E i \in 1 .. N : truth[k] \cap Said(findings[i]) # {}
    <3>1. ASSUME NEW i \in 1 .. N, truth[k] \cap Said(findings[i]) # {}
          PROVE  findings[i] \in Range(Scorable(findings))
      <4>1. Said(findings[i]) # {}
        BY <3>1
      <4>2. findings[i].names # {} \/ findings[i].cites # <<>>
        BY <2>3, <4>1
      <4> QED BY <2>1, <2>2, <4>2
    <3>2. \A f \in Range(Scorable(findings)) : \E i \in 1 .. N : f = findings[i]
      BY <2>1, <2>2
    <3> QED BY <3>1, <3>2
  <2> QED BY <1>2, <2>4 DEF CaseHits
<1>9. ASSUME NEW i \in Examples(truth, findings), NEW c \in Range(findings[i].cites)
      PROVE  c.probe \in {"refused", "miss"}
  <2>1. i \in 1 .. N /\ Classify(findings[i], truth).class = "HALLUCINATION"
    BY <1>1, <1>9 DEF Examples
  <2>2. ~Backed(findings[i])
    BY <1>1, <2>1, ClassifyIs
  <2>3. c \in Path(X)
    <3>1. findings[i].cites \in Seq(Path(X))
      BY <1>1, <2>1 DEF Claimed
    <3> QED BY <3>1 DEF Range
  <2>4. c.probe \in {"refused", "miss", "hit", "timeout"}
    BY <2>3 DEF Path, Probe
  <2> QED BY <2>2, <2>4 DEF Backed
<1> HIDE DEF verdicts, missing
<1>10. \A i \in DOMAIN verdicts : /\ Paired(verdicts[i]) /\ verdicts[i].gt \notin missing
           /\ Classify([findings[i] EXCEPT !.cites = Reverse(@)], truth).class = verdicts[i].class
  BY <1>3, <1>4, <1>5, <1>6
<1> QED BY <1>7, <1>8, <1>9, <1>10, Zenon DEF ScoringLaw, verdicts, missing, findings

\* When the newest scoring file was made of the newest result files, the two reports
\* show the same differences, those of the two sides' rates, and a runner that
\* reports success left a result that does; whatever the two runs did.
\* (build_delta_report, baseline_comparison.run, run_baseline, run_silentwitness)
THEOREM DeltasAreTrue == ASSUME NEW truth, NEW runs PROVE DeltaLaw(truth, runs)
<1> DEFINE b == BaselineMain(runs.baseline)
           s == SilentWitnessMain(runs.silentwitness)
           dir == Folder(truth, b.file, s.file)
<1>1. /\ b.file = {} \/ \E x : b.file = {x} /\ (b.exit = 0 => x.exit = 0)
      /\ b.exit = 0 => b.file # {}
  <2> DEFINE r == runs.baseline
             ending == [findings |-> r.findings, pivots |-> 0, exit |-> r.code, time |-> {}]
  <2>1. BaselineResult(r) = {} \/ BaselineResult(r) = {ending}
    BY DEF BaselineResult, None
  <2>2. ending.exit = r.code
    OBVIOUS
  <2> HIDE DEF ending
  <2> QED BY <2>1, <2>2 DEF BaselineMain, None
<1>2. s.file = {} \/ \E x : s.file = {x} /\ (s.exit = 0 => x.exit = 0)
  BY DEF SilentWitnessMain, None
<1>3. \A S : S = {} => SetToSeq(S) = <<>>
  <2>1. Len(SetToSeq({})) = 0 /\ SetToSeq({}) \in Seq({})
    BY FS_EmptySet, SetToSeqIs
  <2> QED BY <2>1
<1>4. \A x : SetToSeq({x}) = <<x>>
  <2> TAKE x
  <2>1. IsFiniteSet({x}) /\ Cardinality({x}) = 1
    BY FS_Singleton
  <2>2. Len(SetToSeq({x})) = 1 /\ SetToSeq({x}) \in Seq({x})
    BY <2>1, SetToSeqIs
  <2> HIDE DEF dir
  <2> QED BY <2>2
<1> HIDE DEF b, s
<1>5. CASE b.file = {} \/ s.file = {}
  <2>1. dir.baseline = <<>> \/ dir.silentwitness = <<>>
    BY <1>3, <1>5 DEF Folder
  <2>2. DeltaReport(dir) = {}
    BY <2>1 DEF DeltaReport, Newest, None
  <2>3. \A r \in {b, s} : r.exit = 0 => \A x \in r.file : x.exit = 0
    BY <1>1, <1>2
  <2> QED BY <2>2, <2>3, Zenon DEF DeltaLaw, SameDelta, RunsLaw, b, s, dir
<1>6. ASSUME NEW x, NEW y, b.file = {x}, s.file = {y}
      PROVE  DeltaLaw(truth, runs)
  <2> DEFINE c == Score(truth, x, y)
             mb == Metrics(truth, x)
             ms == Metrics(truth, y)
             rates == Rates(c)
             time == SafeDelta(Coalesce(c.baseline.time, x.time), Coalesce(c.silentwitness.time, y.time))
  <2>1. dir.baseline = <<x>> /\ dir.silentwitness = <<y>> /\ dir.scoring = <<c>>
    <3>1. {Score(truth, z[1], z[2]) : z \in {x} \X {y}} = {c}
      <4>1. {x} \X {y} = {<<x, y>>}
        OBVIOUS
      <4>2. \A z \in {x} \X {y} : Score(truth, z[1], z[2]) = c
        BY <4>1
      <4>3. <<x, y>> \in {x} \X {y}
        BY <4>1
      <4> HIDE DEF c, dir
      <4> QED BY <4>2, <4>3
    <3> HIDE DEF c
    <3> QED BY <1>4, <1>6, <3>1 DEF Folder
  <2> HIDE DEF dir, c
  <2>2. \A z : Newest(<<z>>) = {z} /\ Last(<<z>>) = z /\ <<z>> # <<>>
    BY DEF Newest, Last
  <2>3. \A d \in DeltaReport(dir) : d.rates = rates /\ d.time = time
    <3> TAKE d \in DeltaReport(dir)
    <3>1. PICK p \in Newest(dir.baseline), q \in Newest(dir.silentwitness), r \in Newest(dir.scoring) :
             d = [rates |-> Rates(r),
                  time |-> SafeDelta(Coalesce(r.baseline.time, p.time), Coalesce(r.silentwitness.time, q.time)),
                  pivots |-> {}]
      BY DEF DeltaReport
    <3>2. p = x /\ q = y /\ r = c
      BY <2>1, <2>2
    <3> QED BY <3>1, <3>2
  <2>4. \A d \in Comparison(dir) : d.rates = rates /\ d.time = time
    <3> TAKE d \in Comparison(dir)
    <3> DEFINE l == Last(dir.scoring)
    <3>1. PICK p \in Newest(dir.baseline), q \in Newest(dir.silentwitness) :
             d = [rates |-> IF dir.scoring = <<>> THEN NoRates ELSE Rates(l),
                  time |-> IF dir.scoring = <<>> THEN SafeDelta(p.time, q.time)
                           ELSE SafeDelta(Coalesce(l.baseline.time, p.time), Coalesce(l.silentwitness.time, q.time)),
                  pivots |-> {q.pivots - p.pivots}]
      BY DEF Comparison
    <3>2. p = x /\ q = y /\ l = c /\ dir.scoring # <<>>
      BY <2>1, <2>2
    <3> HIDE DEF l
    <3> QED BY <3>1, <3>2
  <2>5. c.baseline = mb /\ c.silentwitness = ms
    BY DEF c, Score
  <2>6. ASSUME NEW d, d.rates = rates PROVE TrueDelta(d, mb, ms)
    <3>1. \E u, v : mb.recall = {u} /\ mb.precision = {v}
      BY DEF Metrics
    <3>2. \E u, v : ms.recall = {u} /\ ms.precision = {v}
      BY DEF Metrics
    <3>3. d.rates.recall = SafeDelta(mb.recall, ms.recall)
          /\ d.rates.precision = SafeDelta(mb.precision, ms.precision)
      BY <2>5, <2>6 DEF Rates
    <3> HIDE DEF rates, mb, ms
    <3>4. ASSUME NEW u, NEW v PROVE SafeDelta({u}, {v}) = {v - u}
      <4>1. {u} \X {v} = {<<u, v>>}
        OBVIOUS
      <4> QED BY <4>1 DEF SafeDelta
    <3> QED BY <3>1, <3>2, <3>3, <3>4 DEF TrueDelta
  <2>7. SameDelta(dir)
    BY <2>3, <2>4 DEF SameDelta
  <2>8. RunsLaw(truth, b, s)
    <3>1. \A z \in b.file \X s.file : z[1] = x /\ z[2] = y
      BY <1>6
    <3>2. \A r \in {b, s} : r.exit = 0 => \A z \in r.file : z.exit = 0
      BY <1>1, <1>2
    <3> HIDE DEF rates, mb, ms
    <3>3. \A z \in b.file \X s.file : \A d \in DeltaReport(dir) :
             TrueDelta(d, Metrics(truth, z[1]), Metrics(truth, z[2]))
      BY <2>3, <2>6, <3>1 DEF mb, ms
    <3> QED BY <3>2, <3>3 DEF RunsLaw, dir
  <2> QED BY <2>7, <2>8, Zenon DEF DeltaLaw, b, s, dir
<1> QED BY <1>1, <1>2, <1>5, <1>6

\* The inputs of the run that are findings and ground truth.
AccuracyInput ==
    input.law = "scoring" => input.raw \in Seq(Claimed(Sub)) /\ input.truth \in Seq(SUBSET Sub)

LEMMA FindingsTyped ==
    ASSUME NEW shapes \in SUBSET {"dict", "bad_paths", "junk"}, NEW n \in Nat
    PROVE  FindingsOf(shapes, n) \subseteq Claimed(Sub)
<1> DEFINE S == [names : {{}, {"s"}}, probe : Probe]
<1>1. S \subseteq Path(Sub)
  BY DEF Path, Sub
<1>2. Cites(n) \subseteq Seq(Path(Sub))
  <2>1. \A c \in BoundedSeq(S, n) : c \in Seq(S)
    BY BoundedIsSeq
  <2>2. BoundedSeq(S, n) = Cites(n)
    BY DEF Cites
  <2> HIDE DEF S
  <2>3. Seq(S) \subseteq Seq(Path(Sub))
    BY <1>1
  <2> QED BY <2>1, <2>2, <2>3
<1> HIDE DEF S
<1> QED BY <1>2 DEF FindingsOf, Claimed

LEMMA AccuracyInputInit == Inputs => AccuracyInput
<1> SUFFICES ASSUME Inputs PROVE AccuracyInput
  OBVIOUS
<1>1. CASE EvidenceInputs
  BY <1>1 DEF EvidenceInputs, AccuracyInput
<1>2. CASE ReportInputs
  BY <1>2, ReportLaws DEF AccuracyInput
<1>3. CASE FindingInputs
  BY <1>3 DEF FindingInputs, AccuracyInput
<1>4. CASE PrepareInputs \/ GateInputs \/ ListingInputs \/ PinsInputs \/ input = [law |-> "download"]
  BY <1>4 DEF PrepareInputs, GateInputs, ListingInputs, PinsInputs, AccuracyInput
<1>5. ASSUME NEW truth \in Truths, NEW raw \in Lists, input = [law |-> "scoring", truth |-> truth, raw |-> raw]
      PROVE  AccuracyInput
  <2>1. truth \in Seq(SUBSET Sub)
    <3> DEFINE S == SUBSET Sub \ {{}}
    <3>1. truth \in BoundedSeq(S, 2)
      BY DEF Truths
    <3>2. truth \in Seq(S)
      BY <3>1, BoundedIsSeq
    <3> QED BY <3>2
  <2>2. raw \in Seq(Claimed(Sub))
    <3>1. \A f \in FindingsOf({"dict", "bad_paths"}, 2) : f \in Claimed(Sub)
      BY FindingsTyped
    <3>2. \A f \in FindingsOf({"dict"}, 1) : f \in Claimed(Sub)
      BY FindingsTyped
    <3>3. \A f \in FindingsOf({"dict", "junk"}, 1) : f \in Claimed(Sub)
      BY FindingsTyped
    <3>4. \/ raw \in {<<f>> : f \in FindingsOf({"dict", "bad_paths"}, 2)}
          \/ raw \in {<<f, g>> : f \in FindingsOf({"dict"}, 1), g \in FindingsOf({"dict", "junk"}, 1)}
      BY DEF Lists
    <3>5. \A f, g \in Claimed(Sub) : <<f>> \in Seq(Claimed(Sub)) /\ <<f, g>> \in Seq(Claimed(Sub))
      OBVIOUS
    <3>6. CASE raw \in {<<f>> : f \in FindingsOf({"dict", "bad_paths"}, 2)}
      BY <3>1, <3>5, <3>6
    <3>7. CASE raw \in {<<f, g>> : f \in FindingsOf({"dict"}, 1), g \in FindingsOf({"dict", "junk"}, 1)}
      <4>1. PICK f \in FindingsOf({"dict"}, 1), g \in FindingsOf({"dict", "junk"}, 1) : raw = <<f, g>>
        BY <3>7
      <4> QED BY <3>2, <3>3, <3>5, <4>1
    <3> QED BY <3>4, <3>6, <3>7
  <2> QED BY <1>5, <2>1, <2>2 DEF AccuracyInput
<1>6. CASE AccuracyInputs
  <2>1. ASSUME NEW x, NEW y, input = [law |-> "delta", truth |-> x, runs |-> y] PROVE AccuracyInput
    BY <2>1 DEF AccuracyInput
  <2> QED BY <1>5, <1>6, <2>1, Zenon DEF AccuracyInputs
<1> QED BY <1>1, <1>2, <1>3, <1>4, <1>6 DEF Inputs

\* The run's reading of both: the scorer never contradicts itself, and the two reports
\* show the same, true deltas of a pair of scored runs.
THEOREM AccuracyHolds == Spec => []AccuracyIsAsScored
<1>1. Init => AccuracyInput
  BY AccuracyInputInit DEF Init
<1>2. AccuracyInput /\ [Next]_<<input, dvars>> => AccuracyInput'
  BY DEF Next, AccuracyInput
<1>3. AccuracyInput => AccuracyIsAsScored
  BY VerdictsFit, DeltasAreTrue DEF AccuracyInput, AccuracyIsAsScored
<1> QED BY <1>1, <1>2, <1>3, PTL DEF Spec

-----------------------------------------------------------------------------
(* The answers to the agent's questions of the index *)

IndexRow(X) == [tool : X, ts : Int, alert : BOOLEAN, hit : BOOLEAN, host : X, poisoned : BOOLEAN]

\* A sequence has each member of S, once.
Lists1(s, S) ==
    /\ s \in Seq(S) /\ Range(s) = S /\ IsFiniteSet(S) /\ Len(s) = Cardinality(S)
    /\ \A i, j \in 1 .. Len(s) : s[i] = s[j] => i = j

LEMMA DbIs ==
    ASSUME NEW R, NEW db \in Seq(R), NEW S \in SUBSET DOMAIN db
    PROVE  IsFiniteSet(S) /\ \A id \in S : id \in Nat /\ db[id] \in R
<1>1. DOMAIN db = 1 .. Len(db) /\ Len(db) \in Nat /\ 1 \in Int /\ Len(db) \in Int
  OBVIOUS
<1>2. IsFiniteSet(1 .. Len(db))
  BY <1>1, FS_Interval
<1>3. IsFiniteSet(S)
  BY <1>1, <1>2, FS_Subset
<1> QED BY <1>1, <1>3

LEMMA NewestIs ==
    ASSUME NEW X, NEW db \in Seq(IndexRow(X)), NEW S \in SUBSET DOMAIN db
    PROVE  Lists1(NewestFirst(db, S), S)
<1> DEFINE order == {p \in S \X S : \/ db[p[1]].ts > db[p[2]].ts
                                    \/ db[p[1]].ts = db[p[2]].ts /\ p[1] < p[2]}
<1>1. IsFiniteSet(S) /\ \A id \in S : id \in Nat /\ db[id] \in IndexRow(X)
  BY DbIs
<1>2. \A id \in S : id \in Nat /\ db[id].ts \in Int
  BY <1>1 DEF IndexRow
<1>3. \A a, b \in S : <<a, b>> \in order <=> db[a].ts > db[b].ts \/ (db[a].ts = db[b].ts /\ a < b)
  OBVIOUS
<1>4. NewestFirst(db, S) = Ordered(S, order)
  BY DEF NewestFirst
<1> HIDE DEF order
<1>5. StrictOrder(S, order)
  <2>1. \A a \in S : <<a, a>> \notin order
    BY <1>2, <1>3
  <2>2. \A a, b, c \in S : <<a, b>> \in order /\ <<b, c>> \in order => <<a, c>> \in order
    BY <1>2, <1>3
  <2>3. ASSUME NEW a \in S, NEW b \in S PROVE a = b \/ <<a, b>> \in order \/ <<b, a>> \in order
    <3>1. \A x, y \in Int : x > y \/ x = y \/ y > x
      OBVIOUS
    <3>2. \/ db[a].ts > db[b].ts
          \/ db[b].ts > db[a].ts
          \/ db[a].ts = db[b].ts /\ db[b].ts = db[a].ts /\ (a < b \/ b < a \/ a = b)
      BY <1>2, <3>1
    <3> QED BY <1>3, <3>2
  <2> QED BY <2>1, <2>2, <2>3 DEF StrictOrder
<1> QED BY <1>1, <1>4, <1>5, OrderedIs DEF Lists1

LEMMA ListedIs ==
    ASSUME NEW S, IsFiniteSet(S)
    PROVE  Lists1(SetToSeq(S), S)
BY SetToSeqIs DEF Lists1

\* The first of a list, as many as are asked for and no fewer than one.
First1(s, m) == SubSeq(s, 1, Lesser(Len(s), Greater(1, m)))

LEMMA HeadIs ==
    ASSUME NEW S, NEW s, Lists1(s, S), NEW m \in Int
    PROVE  LET k == Lesser(Cardinality(S), Greater(1, m))
               h == First1(s, m)
           IN /\ h \in Seq(S) /\ Len(h) = k /\ k \in Nat /\ Range(h) \subseteq S /\ IsFiniteSet(Range(h))
              /\ Cardinality(Range(h)) = k /\ (k = Cardinality(S) => Range(h) = S)
              /\ Cardinality(S) \in Nat
<1> DEFINE N == Cardinality(S)
           k == Lesser(N, Greater(1, m))
           h == First1(s, m)
<1>1. N \in Nat /\ Len(s) = N /\ k \in Nat /\ k <= N
  <2>1. N \in Nat
    BY FS_CardinalityType DEF Lists1
  <2>2. Greater(1, m) \in Nat
    BY DEF Greater
  <2> HIDE DEF N
  <2>3. k \in Nat /\ k <= N
    BY <2>1, <2>2 DEF Lesser
  <2> QED BY <2>1, <2>3 DEF Lists1, N
<1>2. h = SubSeq(s, 1, k)
  BY <1>1 DEF First1
<1>3. \A i \in 1 .. N : s[i] \in S
  BY <1>1 DEF Lists1
<1> HIDE DEF N, k, h
<1>4. 1 \in Int /\ k \in Int /\ \A i \in 1 .. k : s[i] \in S
  BY <1>1, <1>3
<1>5. h \in Seq(S) /\ Len(h) = (IF 1 <= k THEN k - 1 + 1 ELSE 0) /\ \A i \in 1 .. k - 1 + 1 : h[i] = s[1 + i - 1]
  BY <1>2, <1>4, SubSeqProperties
<1>6. Len(h) = k /\ \A i \in 1 .. k : h[i] = s[i]
  BY <1>1, <1>5
<1>7. h \in [1 .. k -> S] /\ \A i, j \in 1 .. k : h[i] = h[j] => i = j
  <2>1. \A i \in 1 .. k : i \in 1 .. N
    BY <1>1
  <2>2. \A i, j \in 1 .. N : s[i] = s[j] => i = j
    BY <1>1 DEF Lists1
  <2> QED BY <1>5, <1>6, <2>1, <2>2
<1>8. Range(h) \subseteq S /\ h \in Bijection(1 .. k, Range(h))
  <2>1. Range(h) = {h[i] : i \in 1 .. k}
    BY <1>7 DEF Range
  <2>2. h \in Injection(1 .. k, Range(h))
    BY <1>7, <2>1 DEF Injection, IsInjective
  <2>3. h \in Surjection(1 .. k, Range(h))
    BY <1>7, <2>1 DEF Surjection
  <2> QED BY <1>7, <2>1, <2>2, <2>3 DEF Bijection
<1>9. IsFiniteSet(Range(h)) /\ Cardinality(Range(h)) = k
  <2>1. IsFiniteSet(1 .. k) /\ Cardinality(1 .. k) = IF 1 > k THEN 0 ELSE k - 1 + 1
    BY <1>4, FS_Interval
  <2>2. IsFiniteSet(Range(h)) /\ Cardinality(Range(h)) = Cardinality(1 .. k)
    BY <1>8, <2>1, FS_Bijection DEF ExistsBijection
  <2> QED BY <1>1, <2>1, <2>2
<1>10. k = N => Range(h) = S
  BY <1>8, <1>9, FS_Subset DEF Lists1, N
<1> QED BY <1>1, <1>5, <1>6, <1>8, <1>9, <1>10 DEF N, k, h

\* A part of what there is, shown row by row.
GoodAnswer(index, limit, S, results) ==
    /\ Len(results) <= MaxLimit
    /\ \A r \in Range(results) : GetRecord(index, r.id).results = <<r>>
    /\ \A r \in Range(results) : r.text = Redacted <=> index.db[r.id].poisoned
    /\ Len(results) < Lesser(Greater(1, limit), MaxLimit) => {r.id : r \in Range(results)} = S

LEMMA AnswerIs ==
    ASSUME NEW X, NEW index, index.exists, index.db \in Seq(IndexRow(X)), NEW limit \in Int,
           NEW S \in SUBSET DOMAIN index.db, NEW s, Lists1(s, S),
           NEW results, results = SanitizedRecords(index.db, First1(s, Lesser(limit, MaxLimit)))
    PROVE  GoodAnswer(index, limit, S, results)
<1> DEFINE db == index.db
           m == Lesser(limit, MaxLimit)
           ids == First1(s, m)
           shown(id) == [id |-> id, text |-> IF db[id].poisoned THEN Redacted ELSE "shown"]
           k == Lesser(Cardinality(S), Greater(1, m))
<1>1. MaxLimit \in Nat \ {0} /\ m \in Int /\ Greater(1, m) = Lesser(Greater(1, limit), MaxLimit)
  BY QueryAssumption DEF Lesser, Greater
<1>2. /\ ids \in Seq(S) /\ Len(ids) = k /\ k \in Nat /\ Range(ids) \subseteq S
      /\ (k = Cardinality(S) => Range(ids) = S) /\ Cardinality(S) \in Nat
  <2> HIDE DEF m
  <2> QED BY <1>1, HeadIs
<1> HIDE DEF ids, m
<1>3. DOMAIN ids = 1 .. k /\ Range(ids) = {ids[i] : i \in 1 .. k}
  BY <1>2 DEF Range
<1>4. results = [i \in 1 .. k |-> shown(ids[i])]
  BY <1>3 DEF SanitizedRecords, ids, m
<1> HIDE DEF k, shown
<1>5. Len(results) = k /\ Range(results) = {shown(id) : id \in Range(ids)}
  BY <1>2, <1>3, <1>4 DEF Range
<1>6. \A id : shown(id).id = id /\ shown(id).text = IF db[id].poisoned THEN Redacted ELSE "shown"
  BY DEF shown
<1>7. ASSUME NEW id \in S PROVE GetRecord(index, id).results = <<shown(id)>>
  <2>1. SanitizedRecords(db, <<id>>) = <<shown(id)>>
    BY DEF SanitizedRecords, shown
  <2> QED BY <2>1 DEF GetRecord
<1>8. Len(results) <= MaxLimit
  BY <1>1, <1>2, <1>5 DEF k, Lesser, Greater
<1>9. ASSUME NEW r \in Range(results)
      PROVE  GetRecord(index, r.id).results = <<r>> /\ (r.text = Redacted <=> index.db[r.id].poisoned)
  <2>1. PICK id \in Range(ids) : r = shown(id)
    BY <1>5
  <2>2. id \in S /\ r.id = id
    BY <1>2, <1>6, <2>1
  <2>3. GetRecord(index, r.id).results = <<r>>
    BY <1>7, <2>1, <2>2
  <2>4. db[id].poisoned \in BOOLEAN
    <3>1. db[id] \in IndexRow(X)
      BY <2>2, DbIs
    <3> QED BY <3>1 DEF IndexRow
  <2>5. r.text = Redacted <=> db[id].poisoned
    BY <1>6, <2>1, <2>4 DEF Redacted
  <2> QED BY <2>2, <2>3, <2>5
<1>10. ASSUME Len(results) < Lesser(Greater(1, limit), MaxLimit) PROVE {r.id : r \in Range(results)} = S
  <2>1. k = Cardinality(S)
    <3>1. Greater(1, m) \in Int
      BY <1>1 DEF Greater
    <3> QED BY <1>1, <1>2, <1>5, <1>10, <3>1 DEF k, Lesser
  <2>2. Range(ids) = S
    BY <1>2, <2>1
  <2>3. {r.id : r \in Range(results)} = {shown(id).id : id \in S}
    BY <1>5, <2>2
  <2>4. {shown(id).id : id \in S} = S
    <3>1. \A id \in S : shown(id).id = id
      BY <1>6
    <3> HIDE DEF shown
    <3> QED BY <3>1
  <2> QED BY <2>3, <2>4, Zenon
<1> QED BY <1>8, <1>9, <1>10 DEF GoodAnswer

\* A search or a timeline of an index of any size: no bad row costs the answer, what
\* is named can be fetched again as it was shown, and an answer shorter than the
\* limit leaves nothing out.
\* (search_evidence, timeline, get_record, _sanitized_records)
THEOREM AnswersStand ==
    ASSUME NEW X, NEW index \in [exists : BOOLEAN, db : Seq(IndexRow(X))], NEW limit \in Int
    PROVE  AnswersLaw(index, limit)
<1> DEFINE db == index.db
           H == {id \in DOMAIN db : db[id].hit}
           Law(answer) == answer.success =>
              /\ Len(answer.results) <= MaxLimit
              /\ \A r \in Range(answer.results) : GetRecord(index, r.id).results = <<r>>
              /\ \A r \in Range(answer.results) : r.text = Redacted <=> db[r.id].poisoned
              /\ Len(answer.results) < Lesser(Greater(1, limit), MaxLimit)
                    => {r.id : r \in Range(answer.results)} \in {DOMAIN db, H}
<1>1. db \in Seq(IndexRow(X)) /\ index.exists \in BOOLEAN
  OBVIOUS
<1>2. Filtered(db, "any", "any") = DOMAIN db
  BY DEF Filtered
<1>3. CASE ~index.exists
  <2>1. \A r : Refuse(r).success = FALSE
    BY DEF Refuse
  <2>2. ~Refuse("INDEX_NOT_BUILT").success
    BY <2>1
  <2>3. \A answer \in {SearchEvidence(index, "q", "any", "any", limit), Timeline(index, "any", "any", limit)} :
           answer = Refuse("INDEX_NOT_BUILT")
    BY <1>3 DEF SearchEvidence, Timeline
  <2> QED BY <2>2, <2>3, Zenon DEF AnswersLaw
<1>4. CASE index.exists
  <2>1. Law(SearchEvidence(index, "q", "any", "any", limit))
    <3> DEFINE s == SetToSeq(H)
               a == SearchEvidence(index, "q", "any", "any", limit)
    <3>1. H \in SUBSET DOMAIN db /\ IsFiniteSet(H)
      BY <1>1, DbIs
    <3>2. Lists1(s, H)
      BY <3>1, ListedIs
    <3>3. a.results = SanitizedRecords(index.db, First1(s, Lesser(limit, MaxLimit)))
      BY <1>2, <1>4 DEF SearchEvidence, Search, First1
    <3>5. index.db \in Seq(IndexRow(X)) /\ H \in SUBSET DOMAIN index.db
      BY <1>1, <3>1
    <3> HIDE DEF a, s, H
    <3>4. GoodAnswer(index, limit, H, a.results)
      BY <1>4, <3>2, <3>3, <3>5, AnswerIs
    <3> QED BY <3>4, Zenon DEF a, GoodAnswer
  <2>2. Law(Timeline(index, "any", "any", limit))
    <3> DEFINE D == DOMAIN db
               s == NewestFirst(db, D)
               a == Timeline(index, "any", "any", limit)
    <3>1. D \in SUBSET DOMAIN db
      OBVIOUS
    <3>2. Lists1(s, D)
      BY <1>1, NewestIs
    <3>3. a.results = SanitizedRecords(index.db, First1(s, Lesser(limit, MaxLimit)))
      BY <1>2, <1>4 DEF Timeline, Recent, First1
    <3>5. index.db \in Seq(IndexRow(X)) /\ D \in SUBSET DOMAIN index.db
      BY <1>1, <3>1
    <3> HIDE DEF a, s, D
    <3>4. GoodAnswer(index, limit, D, a.results)
      BY <1>4, <3>2, <3>3, <3>5, AnswerIs
    <3> QED BY <3>4, Zenon DEF a, GoodAnswer, D
  <2> QED BY <2>1, <2>2, Zenon DEF AnswersLaw
<1> QED BY <1>1, <1>3, <1>4

\* The counts of the sources add up to what is counted, of some of them as of all.
Tallies(E, h, D, counts) == \A t \in D : counts[t] = Cardinality({e \in E : h[e] = t})

LEMMA CountsAddUp ==
    ASSUME NEW E, IsFiniteSet(E), NEW h, NEW counts, NEW D, IsFiniteSet(D),
           Tallies(E, h, D, counts)
    PROVE  /\ \A t \in D : counts[t] \in Nat
           /\ \A T \in SUBSET D : SumFunctionOnSet(counts, T) = Cardinality({e \in E : h[e] \in T})
<1> DEFINE Of(T) == {e \in E : h[e] \in T}
           G == {T \in SUBSET D : SumFunctionOnSet(counts, T) = Cardinality(Of(T))}
<1>2. \A T : IsFiniteSet(Of(T)) /\ Cardinality(Of(T)) \in Nat
  <2>1. \A T : Of(T) \subseteq E
    OBVIOUS
  <2> HIDE DEF Of
  <2> QED BY <2>1, FS_Subset, FS_CardinalityType
<1>3. \A t \in D : counts[t] = Cardinality(Of({t}))
  <2>1. \A t : {e \in E : h[e] = t} = Of({t})
    OBVIOUS
  <2> QED BY <2>1 DEF Tallies
<1> HIDE DEF Of
<1>4. \A t \in D : counts[t] \in Nat
  BY <1>2, <1>3
<1>5. {} \in G
  <2>1. Of({}) = {}
    BY DEF Of
  <2>2. Cardinality({}) = 0
    BY FS_EmptySet
  <2> QED BY <1>4, <2>1, <2>2, SumIs
<1>6. ASSUME NEW T \in SUBSET D, T \in G, NEW x \in D \ T PROVE T \cup {x} \in G
  <2>1. SumFunctionOnSet(counts, T \cup {x}) = counts[x] + SumFunctionOnSet(counts, T)
    BY <1>4, SumIs
  <2>2. Of(T \cup {x}) = Of(T) \cup Of({x}) /\ Of(T) \cap Of({x}) = {}
    BY DEF Of
  <2>3. Cardinality(Of(T) \cup Of({x})) =
           Cardinality(Of(T)) + Cardinality(Of({x})) - Cardinality(Of(T) \cap Of({x}))
    BY <1>2, FS_Union
  <2>4. Cardinality({}) = 0
    BY FS_EmptySet
  <2>5. Cardinality(Of(T \cup {x})) = Cardinality(Of(T)) + Cardinality(Of({x}))
    <3>1. Cardinality(Of(T)) \in Nat /\ Cardinality(Of({x})) \in Nat
      BY <1>2
    <3> HIDE DEF Of
    <3>2. ASSUME NEW A, NEW B, Cardinality(A) \in Nat, Cardinality(B) \in Nat, A \cap B = {},
                 Cardinality(A \cup B) = Cardinality(A) + Cardinality(B) - Cardinality(A \cap B)
          PROVE  Cardinality(A \cup B) = Cardinality(A) + Cardinality(B)
      <4>1. Cardinality(A \cap B) = 0
        BY <2>4, <3>2, Zenon
      <4> QED BY <3>2, <4>1
    <3> QED BY <2>2, <2>3, <3>1, <3>2, Zenon
  <2>6. counts[x] = Cardinality(Of({x})) /\ Cardinality(Of({x})) \in Nat /\ Cardinality(Of(T)) \in Nat
    BY <1>2, <1>3
  <2>7. SumFunctionOnSet(counts, T) = Cardinality(Of(T))
    BY <1>6
  <2>8. SumFunctionOnSet(counts, T \cup {x}) = Cardinality(Of(T \cup {x}))
    BY <2>1, <2>5, <2>6, <2>7
  <2> QED BY <2>8
<1>7. SUBSET D \subseteq G
  <2> HIDE DEF G
  <2> QED BY <1>5, <1>6, SubsetInduction
<1> QED BY <1>4, <1>7 DEF Of

\* Summed by the pairs of a name and its number, or by the names: the same.
LEMMA PairsAddUp ==
    ASSUME NEW D, IsFiniteSet(D), NEW counts, \A t \in D : counts[t] \in Nat,
           NEW P, P = {<<t, counts[t]>> : t \in D}, NEW f, \A c \in P : f[c] = c[2]
    PROVE  IsFiniteSet(P) /\ SumFunctionOnSet(f, P) = SumFunctionOnSet(counts, D)
<1> DEFINE pair == [t \in D |-> <<t, counts[t]>>]
           Pairs(T) == {pair[t] : t \in T}
           G == {T \in SUBSET D : SumFunctionOnSet(f, Pairs(T)) = SumFunctionOnSet(counts, T)}
<1>1. P = Pairs(D) /\ \A t \in D : f[pair[t]] = counts[t]
  OBVIOUS
<1>2. \A t, u \in D : pair[t] = pair[u] => t = u
  OBVIOUS
<1> HIDE DEF pair
<1>3. IsFiniteSet(P)
  BY <1>1, ImageFinite
<1>4. \A c \in P : f[c] \in Nat
  BY <1>1
<1>5. {} \in G
  <2>1. Pairs({}) = {}
    OBVIOUS
  <2>2. SumFunctionOnSet(f, {}) = 0
    BY <1>3, <1>4, SumIs
  <2>3. SumFunctionOnSet(counts, {}) = 0
    BY SumIs
  <2> HIDE DEF Pairs
  <2> QED BY <2>1, <2>2, <2>3
<1>6. ASSUME NEW T \in SUBSET D, T \in G, NEW x \in D \ T PROVE T \cup {x} \in G
  <2>1. SumFunctionOnSet(counts, T \cup {x}) = counts[x] + SumFunctionOnSet(counts, T)
    BY SumIs
  <2>2. Pairs(T \cup {x}) = Pairs(T) \cup {pair[x]}
    OBVIOUS
  <2>3. Pairs(T) \subseteq P /\ pair[x] \in P \ Pairs(T)
    BY <1>1, <1>2
  <2> HIDE DEF Pairs
  <2>4. SumFunctionOnSet(f, Pairs(T) \cup {pair[x]}) = f[pair[x]] + SumFunctionOnSet(f, Pairs(T))
    BY <1>3, <1>4, <2>3, SumIs
  <2> QED BY <1>1, <1>6, <2>1, <2>2, <2>4
<1>7. SUBSET D \subseteq G
  <2> HIDE DEF G
  <2> QED BY <1>5, <1>6, SubsetInduction
<1> QED BY <1>1, <1>3, <1>7

LEMMA LevelsAre ==
    /\ Len(Levels) = 5 /\ DOMAIN Levels = 1 .. 5 /\ Range(Levels) = {Levels[i] : i \in 1 .. 5}
    /\ \A i \in 1 .. 5 : Rank(Levels[i]) = i
    /\ "other" \notin Range(Levels) /\ "any" \notin Range(Levels)
<1> DEFINE Names == {"critical", "high", "medium", "low", "informational"}
<1>1. Levels \in Seq(Names) /\ Len(Levels) = 5 /\ DOMAIN Levels = 1 .. 5
  <2>1. Levels \in Seq(Names)
    <3>1. ASSUME NEW X, NEW a \in X, NEW b \in X, NEW c \in X, NEW d \in X, NEW e \in X
          PROVE  <<a, b, c, d, e>> \in Seq(X)
      OBVIOUS
    <3>2. /\ "critical" \in Names /\ "high" \in Names /\ "medium" \in Names /\ "low" \in Names
          /\ "informational" \in Names
      OBVIOUS
    <3> HIDE DEF Names
    <3> QED BY <3>1, <3>2, Zenon DEF Levels
  <2>2. Len(Levels) = 5
    <3>1. ASSUME NEW a, NEW b, NEW c, NEW d, NEW e PROVE Len(<<a, b, c, d, e>>) = 5
      OBVIOUS
    <3> QED BY <3>1 DEF Levels
  <2> QED BY <2>1, <2>2
<1>2. Range(Levels) = {Levels[i] : i \in 1 .. 5}
  BY <1>1 DEF Range
<1>3. \A i \in 1 .. 5 : i = 1 \/ i = 2 \/ i = 3 \/ i = 4 \/ i = 5
  OBVIOUS
<1>4. \A i, j \in 1 .. 5 : Levels[i] = Levels[j] => i = j
  BY <1>3 DEF Levels
<1>5. \A i \in 1 .. 5 : Levels[i] # "other" /\ Levels[i] # "any"
  BY <1>3 DEF Levels
<1>6. \A i \in 1 .. 5 : Rank(Levels[i]) = i
  BY <1>1, <1>4 DEF Rank
<1> QED BY <1>1, <1>2, <1>5, <1>6

\* The newest rows of a level, as many as there is room for.
NewestRows(db, l, left) == IF left > 0 THEN Recent(db, "any", l, left) ELSE <<>>
AreNewest(db, S, left, rows) ==
    /\ rows \in Seq(DOMAIN db) /\ Range(rows) \subseteq S /\ IsFiniteSet(S)
    /\ Cardinality(S) \in Nat /\ Len(rows) = Lesser(Cardinality(S), left)
    /\ IsFiniteSet(Range(rows)) /\ Cardinality(Range(rows)) = Len(rows)
    /\ left > Len(rows) => Range(rows) = S

LEMMA NewestOf ==
    ASSUME NEW X, NEW db \in Seq(IndexRow(X)), NEW l \in Range(Levels), NEW left \in Nat,
           NEW S \in SUBSET DOMAIN db, \A id \in DOMAIN db : id \in S <=> db[id].tool = l
    PROVE  AreNewest(db, S, left, NewestRows(db, l, left))
<1> DEFINE rows == NewestRows(db, l, left)
<1>0. rows = IF left > 0 THEN Recent(db, "any", l, left) ELSE <<>>
  BY DEF NewestRows
<1> HIDE DEF rows
<1>1. S \in SUBSET DOMAIN db
  OBVIOUS
<1>2. IsFiniteSet(S) /\ Cardinality(S) \in Nat
  BY <1>1, DbIs, FS_CardinalityType
<1>3. CASE left > 0
  <2>1. Filtered(db, "any", l) = S
    <3>1. l # "any"
      BY LevelsAre
    <3> QED BY <3>1 DEF Filtered
  <2>2. Lists1(NewestFirst(db, S), S)
    BY <1>1, NewestIs
  <2>3. rows = First1(NewestFirst(db, S), left)
    BY <1>0, <1>3, <2>1 DEF Recent, First1
  <2>4. Greater(1, left) = left /\ left \in Int
    BY <1>3 DEF Greater
  <2>5. /\ rows \in Seq(S) /\ Len(rows) = Lesser(Cardinality(S), left)
        /\ Range(rows) \subseteq S /\ Cardinality(Range(rows)) = Len(rows)
        /\ (Lesser(Cardinality(S), left) = Cardinality(S) => Range(rows) = S)
    <3> DEFINE s == NewestFirst(db, S)
               h == First1(s, left)
    <3> HIDE DEF s
    <3>1. /\ h \in Seq(S) /\ Len(h) = Lesser(Cardinality(S), Greater(1, left))
          /\ Range(h) \subseteq S /\ Cardinality(Range(h)) = Lesser(Cardinality(S), Greater(1, left))
          /\ (Lesser(Cardinality(S), Greater(1, left)) = Cardinality(S) => Range(h) = S)
      BY <2>2, <2>4, HeadIs, Zenon DEF s
    <3>2. rows = h /\ Greater(1, left) = left
      BY <2>3, <2>4 DEF s
    <3> HIDE DEF h
    <3> QED BY <3>1, <3>2
  <2>6. rows \in Seq(DOMAIN db)
    <3>1. ASSUME NEW A, NEW B, A \subseteq B, NEW s \in Seq(A) PROVE s \in Seq(B)
      BY <3>1
    <3> QED BY <1>1, <2>5, <3>1, Zenon
  <2>7. IsFiniteSet(Range(rows))
    BY <1>2, <2>5, FS_Subset
  <2>8. left > Len(rows) => Range(rows) = S
    BY <1>2, <2>5 DEF Lesser
  <2> QED BY <1>2, <2>5, <2>6, <2>7, <2>8 DEF AreNewest, rows
<1>4. CASE left = 0
  <2>1. rows = <<>> /\ rows \in Seq(DOMAIN db) /\ Range(rows) = {} /\ Len(rows) = 0
    BY <1>0, <1>4 DEF Range
  <2>2. IsFiniteSet({}) /\ Cardinality({}) = 0
    BY FS_EmptySet
  <2>3. Lesser(Cardinality(S), left) = 0
    BY <1>2, <1>4 DEF Lesser
  <2>4. IsFiniteSet(Range(rows)) /\ Cardinality(Range(rows)) = 0
    BY <2>1, <2>2, Zenon
  <2>5. Range(rows) \subseteq S
    BY <2>1
  <2> QED BY <1>2, <1>4, <2>1, <2>3, <2>4, <2>5 DEF AreNewest, rows
<1> QED BY <1>3, <1>4

LEMMA SeqRangeFinite ==
    ASSUME NEW S, NEW s \in Seq(S)
    PROVE  IsFiniteSet(Range(s))
<1>1. Range(s) = {s[i] : i \in DOMAIN s}
  BY DEF Range
<1>2. DOMAIN s \in SUBSET DOMAIN s
  OBVIOUS
<1>3. IsFiniteSet(DOMAIN s)
  BY <1>2, DbIs
<1> QED BY <1>1, <1>3, ImageFinite

\* What the loop over the levels has after n of them.
SampleState(db) == [by_level : SUBSET (Range(Levels) \X Nat), samples : Seq(DOMAIN db), left : Nat]
FirstLevels(n) == {Levels[i] : i \in 1 .. n}
AtLevels(db, n) == {id \in DOMAIN db : db[id].tool \in FirstLevels(n)}
Sampled(db, counts, room, n, x) ==
    /\ x.by_level = {<<l, counts[l]>> : l \in FirstLevels(n) \cap DOMAIN counts}
    /\ Cardinality(Range(x.samples)) = Len(x.samples) /\ Range(x.samples) \subseteq AtLevels(db, n)
    /\ x.left = room - Len(x.samples)
    /\ x.left > 0 => Range(x.samples) = AtLevels(db, n)
    /\ \A in \in Range(x.samples), out \in AtLevels(db, n) \ Range(x.samples) :
          Rank(db[in].tool) <= Rank(db[out].tool)

LEMMA FirstLevelsAre ==
    ASSUME NEW n \in 0 .. 4
    PROVE  /\ n + 1 \in 1 .. 5 /\ Levels[n + 1] \in Range(Levels) /\ Rank(Levels[n + 1]) = n + 1
           /\ FirstLevels(n + 1) = FirstLevels(n) \cup {Levels[n + 1]} /\ Levels[n + 1] \notin FirstLevels(n)
           /\ \A l \in FirstLevels(n) : Rank(l) \in 1 .. n
<1>1. n + 1 \in 1 .. 5 /\ n \in Nat /\ \A i : i \in 1 .. n + 1 <=> i \in 1 .. n \/ i = n + 1
  OBVIOUS
<1>2. \A i \in 1 .. n : i \in 1 .. 5 /\ Rank(Levels[i]) = i
  BY LevelsAre
<1>3. Levels[n + 1] \in Range(Levels) /\ Rank(Levels[n + 1]) = n + 1
  BY <1>1, LevelsAre
<1>4. FirstLevels(n + 1) = FirstLevels(n) \cup {Levels[n + 1]}
  BY <1>1 DEF FirstLevels
<1>5. \A l \in FirstLevels(n) : Rank(l) \in 1 .. n
  BY <1>2 DEF FirstLevels
<1>6. Levels[n + 1] \notin FirstLevels(n)
  BY <1>1, <1>3, <1>5
<1> QED BY <1>1, <1>3, <1>4, <1>5, <1>6

\* One level: what it adds, and what is left then.
SampledAt(db, counts, x, l, rows) ==
    /\ Sample(db, counts, x, l) = [by_level |-> x.by_level \cup {<<l, counts[l]>>},
                                   samples |-> x.samples \o rows, left |-> x.left - Len(rows)]
    /\ IsFiniteSet(Range(rows)) /\ Cardinality(Range(rows)) = Len(rows)
    /\ Range(rows) \subseteq {id \in DOMAIN db : db[id].tool = l}
    /\ Len(rows) <= x.left
    /\ x.left > Len(rows) => Range(rows) = {id \in DOMAIN db : db[id].tool = l}

LEMMA SampleAdds ==
    ASSUME NEW X, NEW db \in Seq(IndexRow(X)), NEW counts, \A t \in DOMAIN counts : counts[t] \in Nat,
           NEW x \in SampleState(db), NEW l \in Range(Levels), l \in DOMAIN counts
    PROVE  \E rows \in Seq(DOMAIN db) : SampledAt(db, counts, x, l, rows)
<1> DEFINE S == {id \in DOMAIN db : db[id].tool = l}
           rows == NewestRows(db, l, x.left)
<1>1. x.left \in Nat
  BY DEF SampleState
<1>2. S \in SUBSET DOMAIN db /\ \A id \in DOMAIN db : id \in S <=> db[id].tool = l
  OBVIOUS
<1>3. Sample(db, counts, x, l) = [by_level |-> x.by_level \cup {<<l, counts[l]>>},
                                  samples |-> x.samples \o rows, left |-> x.left - Len(rows)]
  BY DEF Sample, NewestRows
<1> HIDE DEF S, rows
<1>4. /\ rows \in Seq(DOMAIN db) /\ Range(rows) \subseteq S /\ Cardinality(S) \in Nat
      /\ Len(rows) = Lesser(Cardinality(S), x.left)
      /\ IsFiniteSet(Range(rows)) /\ Cardinality(Range(rows)) = Len(rows)
      /\ (x.left > Len(rows) => Range(rows) = S)
  <2>1. AreNewest(db, S, x.left, rows)
    BY <1>1, <1>2, NewestOf DEF rows
  <2> QED BY <2>1, Zenon DEF AreNewest
<1>5. Len(rows) <= x.left
  BY <1>1, <1>4 DEF Lesser
<1> QED BY <1>3, <1>4, <1>5, Zenon DEF S, SampledAt

LEMMA SampleTyped ==
    ASSUME NEW X, NEW db \in Seq(IndexRow(X)), NEW counts, \A t \in DOMAIN counts : counts[t] \in Nat,
           NEW x \in SampleState(db), NEW l \in Range(Levels)
    PROVE  Sample(db, counts, x, l) \in SampleState(db)
<1> DEFINE B == SUBSET (Range(Levels) \X Nat)
           Q == Seq(DOMAIN db)
<1>1. SampleState(db) = [by_level : B, samples : Q, left : Nat]
  BY DEF SampleState
<1>2. CASE l \notin DOMAIN counts
  BY <1>2 DEF Sample
<1>3. CASE l \in DOMAIN counts
  <2>0. PICK rows \in Seq(DOMAIN db) : SampledAt(db, counts, x, l, rows)
    BY <1>3, SampleAdds
  <2>1. /\ Sample(db, counts, x, l) = [by_level |-> x.by_level \cup {<<l, counts[l]>>},
                                       samples |-> x.samples \o rows, left |-> x.left - Len(rows)]
        /\ Len(rows) <= x.left
    BY <2>0 DEF SampledAt
  <2>2. x.by_level \cup {<<l, counts[l]>>} \in B
    <3>1. x.by_level \in B
      BY <1>1
    <3>2. <<l, counts[l]>> \in Range(Levels) \X Nat
      BY <1>3
    <3> QED BY <3>1, <3>2
  <2>3. x.samples \o rows \in Q
    <3>1. x.samples \in Q
      BY <1>1
    <3> QED BY <2>1, <3>1, ConcatIs
  <2>4. x.left - Len(rows) \in Nat
    <3>1. x.left \in Nat /\ Len(rows) \in Nat
      BY <1>1
    <3> QED BY <2>1, <3>1
  <2> HIDE DEF B, Q
  <2> QED BY <1>1, <2>1, <2>2, <2>3, <2>4
<1> QED BY <1>2, <1>3

LEMMA SampleIs ==
    ASSUME NEW X, NEW db \in Seq(IndexRow(X)), NEW counts, \A t \in DOMAIN counts : counts[t] \in Nat,
           NEW n \in 0 .. 4, NEW room \in Nat, NEW x \in SampleState(db), Sampled(db, counts, room, n, x),
           \A id \in DOMAIN db : db[id].tool = Levels[n + 1] => Levels[n + 1] \in DOMAIN counts
    PROVE  Sampled(db, counts, room, n + 1, Sample(db, counts, x, Levels[n + 1]))
<1> DEFINE l == Levels[n + 1]
           S == {id \in DOMAIN db : db[id].tool = l}
           A == AtLevels(db, n)
           R == Range(x.samples)
<1>1. l \in Range(Levels) /\ Rank(l) = n + 1 /\ FirstLevels(n + 1) = FirstLevels(n) \cup {l} /\ l \notin FirstLevels(n)
      /\ \A k \in FirstLevels(n) : Rank(k) \in 1 .. n
  BY FirstLevelsAre
<1>2. AtLevels(db, n + 1) = A \cup S /\ A \cap S = {}
  BY <1>1 DEF AtLevels
<1>3. \A id \in A : Rank(db[id].tool) \in 1 .. n
  BY <1>1 DEF AtLevels
<1>4. \A id \in S : Rank(db[id].tool) = n + 1
  BY <1>1
<1>5. /\ x.samples \in Seq(DOMAIN db) /\ x.left \in Nat /\ Len(x.samples) \in Nat
      /\ Cardinality(R) = Len(x.samples) /\ R \subseteq A
      /\ x.left = room - Len(x.samples) /\ (x.left > 0 => R = A)
      /\ \A in \in R, out \in A \ R : Rank(db[in].tool) <= Rank(db[out].tool)
      /\ x.by_level = {<<k, counts[k]>> : k \in FirstLevels(n) \cap DOMAIN counts}
  BY DEF SampleState, Sampled
<1>6. CASE l \notin DOMAIN counts
  <2>1. Sample(db, counts, x, l) = x
    BY <1>6 DEF Sample
  <2>2. S = {}
    BY <1>6
  <2>3. AtLevels(db, n + 1) = AtLevels(db, n)
    BY <1>2, <2>2
  <2>4. FirstLevels(n + 1) \cap DOMAIN counts = FirstLevels(n) \cap DOMAIN counts
    BY <1>1, <1>6
  <2> QED BY <2>1, <2>3, <2>4 DEF Sampled
<1>7. CASE l \in DOMAIN counts
  <2>0. PICK rows \in Seq(DOMAIN db) : SampledAt(db, counts, x, l, rows)
    <3> HIDE DEF l
    <3> QED BY <1>1, <1>7, SampleAdds
  <2>1. /\ Sample(db, counts, x, l) = [by_level |-> x.by_level \cup {<<l, counts[l]>>},
                                       samples |-> x.samples \o rows, left |-> x.left - Len(rows)]
        /\ Range(rows) \subseteq S /\ IsFiniteSet(Range(rows)) /\ Cardinality(Range(rows)) = Len(rows)
        /\ Len(rows) <= x.left /\ (x.left > Len(rows) => Range(rows) = S)
    BY <2>0 DEF SampledAt
  <2> DEFINE y == Sample(db, counts, x, l)
             T == Range(rows)
  <2>2. /\ y.by_level = x.by_level \cup {<<l, counts[l]>>}
        /\ y.samples = x.samples \o rows /\ y.left = x.left - Len(rows)
    BY <2>1
  <2>3. Range(y.samples) = R \cup T /\ Len(y.samples) = Len(x.samples) + Len(rows) /\ Len(rows) \in Nat
    BY <1>5, <2>2, ConcatIs
  <2> HIDE DEF S, A, R, T, y
  <2>4. Cardinality(R \cup T) = Len(x.samples) + Len(rows)
    <3>1. R \cap T = {}
      BY <1>2, <1>5, <2>1 DEF T
    <3>2. IsFiniteSet(R)
      BY <1>5, SeqRangeFinite DEF R
    <3>3. Cardinality(R \cup T) = Cardinality(R) + Cardinality(T) - Cardinality(R \cap T)
      BY <2>1, <3>2, FS_Union DEF T
    <3>4. Cardinality(R \cap T) = 0
      BY <3>1, FS_EmptySet, Zenon
    <3> QED BY <1>5, <2>1, <2>3, <3>3, <3>4 DEF T
  <2>5. R \cup T \subseteq A \cup S /\ (y.left > 0 => R \cup T = A \cup S)
    BY <1>5, <2>1, <2>2, <2>3 DEF T
  <2>6. y.left = room - Len(y.samples)
    <3>1. x.left = room - Len(x.samples) /\ Len(x.samples) \in Nat /\ Len(rows) \in Nat
      BY <1>5, <2>3
    <3> QED BY <2>2, <2>3, <3>1
  <2>7. \A in \in R \cup T, out \in (A \cup S) \ (R \cup T) : Rank(db[in].tool) <= Rank(db[out].tool)
    <3>1. ASSUME NEW in \in R \cup T, NEW out \in (A \cup S) \ (R \cup T)
          PROVE  Rank(db[in].tool) <= Rank(db[out].tool)
      <4>1. CASE out \in A
        <5>1. x.left = 0
          BY <1>5, <3>1, <4>1
        <5>2. Len(rows) = 0
          BY <1>5, <2>1, <2>3, <5>1
        <5>3. T = {}
          <6>1. DOMAIN rows = {}
            BY <5>2
          <6> QED BY <6>1 DEF T, Range
        <5> QED BY <1>5, <3>1, <4>1, <5>3
      <4>2. CASE out \in S
        <5>1. in \in A \cup S
          BY <2>5
        <5> QED BY <1>3, <1>4, <4>2, <5>1
      <4> QED BY <3>1, <4>1, <4>2
    <3> QED BY <3>1
  <2>8. y.by_level = {<<k, counts[k]>> : k \in FirstLevels(n + 1) \cap DOMAIN counts}
    <3>1. FirstLevels(n + 1) \cap DOMAIN counts = (FirstLevels(n) \cap DOMAIN counts) \cup {l}
      BY <1>1, <1>7
    <3> HIDE DEF l
    <3> QED BY <1>5, <2>2, <3>1
  <2> QED BY <1>2, <2>3, <2>4, <2>5, <2>6, <2>7, <2>8 DEF Sampled, y
<1> QED BY <1>6, <1>7

LEMMA LevelsSampled ==
    ASSUME NEW X, NEW db \in Seq(IndexRow(X)), NEW counts, counts = CountBySource(db),
           \A t \in DOMAIN counts : counts[t] \in Nat, NEW limit \in Int,
           \A id \in DOMAIN db : db[id].tool \in Range(Levels) => db[id].tool \in DOMAIN counts,
           NEW room \in Nat, room = Lesser(Greater(1, limit), MaxLimit)
    PROVE  \E s \in SampleState(db) :
              /\ Sampled(db, counts, room, 5, s)
              /\ DetectionSummary(db, limit) = [total |-> SumFunction(counts),
                                                by_level |-> s.by_level \cup Other(counts),
                                                samples |-> s.samples]
<1> DEFINE N == Len(Levels)
           A == SampleState(db)
           first == [by_level |-> {}, samples |-> <<>>, left |-> room]
           To(n, x) == Sample(db, counts, x, Levels[n])
<1>0. N = 5 /\ DOMAIN Levels = 1 .. 5
  BY LevelsAre
<1>1. N \in Nat /\ first \in A
  BY <1>0 DEF SampleState
<1>2. \A n \in 1 .. N, x \in A : To(n, x) \in A
  <2>1. \A n \in 1 .. N : Levels[n] \in Range(Levels)
    BY <1>0, LevelsAre
  <2> QED BY <2>1, SampleTyped
<1>3. DetectionSummary(db, limit) =
         [total |-> SumFunction(counts),
          by_level |-> (CHOOSE h : h = [n \in 0 .. N |-> IF n = 0 THEN first ELSE To(n, h[n - 1])])[N].by_level
                         \cup Other(counts),
          samples |-> (CHOOSE h : h = [n \in 0 .. N |-> IF n = 0 THEN first ELSE To(n, h[n - 1])])[N].samples]
  BY Zenon DEF DetectionSummary, Walked
<1> HIDE DEF N, A, first, To
<1> DEFINE step == [x \in (1 .. N) \X A |-> To(x[1], x[2])]
           Walk(h) == h = [n \in 0 .. N |-> IF n = 0 THEN first ELSE To(n, h[n - 1])]
           c == CHOOSE h : Walk(h)
<1>4. step \in [(1 .. N) \X A -> A]
  BY <1>2
<1>5. PICK g \in [0 .. N -> A] : Iterates(g, N, first, step)
  <2> HIDE DEF step
  <2> QED BY <1>1, <1>4, RecursionExists
<1>6. Walk(g)
  <2>1. ASSUME NEW n \in 0 .. N PROVE g[n] = IF n = 0 THEN first ELSE To(n, g[n - 1])
    <3>1. CASE n = 0
      BY <1>5, <3>1 DEF Iterates
    <3>2. CASE n # 0
      <4>1. n \in 1 .. N /\ n - 1 \in 0 .. N
        BY <1>1, <3>2
      <4>2. g[n] = step[<<n, g[n - 1]>>]
        BY <1>5, <4>1 DEF Iterates
      <4> QED BY <3>2, <4>1, <4>2
    <3> QED BY <3>1, <3>2
  <2> QED BY <2>1
<1>7. Walk(c)
  <2> HIDE DEF Walk
  <2> QED BY <1>6
<1> HIDE DEF c
<1>8. c[0] = first /\ \A n \in 1 .. N : c[n] = To(n, c[n - 1])
  <2>1. \A n \in 0 .. N : c[n] = IF n = 0 THEN first ELSE To(n, c[n - 1])
    BY <1>7, Zenon
  <2> QED BY <1>1, <2>1
<1>9. c \in [0 .. N -> A]
  <2> DEFINE Typed == {n \in 0 .. N : c[n] \in A}
  <2>1. 0 \in Typed
    BY <1>1, <1>8
  <2>2. ASSUME NEW n \in 0 .. N, n \in Typed, n < N PROVE n + 1 \in Typed
    <3>1. n + 1 \in 1 .. N /\ (n + 1) - 1 = n
      BY <1>1, <2>2
    <3>2. c[n + 1] = To(n + 1, c[n])
      BY <1>8, <3>1
    <3> QED BY <1>1, <1>2, <2>2, <3>1, <3>2
  <2>3. 0 .. N \subseteq Typed
    <3> HIDE DEF Typed
    <3> QED BY <1>1, <2>1, <2>2, IntervalInduction
  <2>4. c = [n \in 0 .. N |-> c[n]]
    BY <1>7, Zenon
  <2> QED BY <2>3, <2>4
<1>10. DetectionSummary(db, limit) = [total |-> SumFunction(counts),
                                     by_level |-> c[N].by_level \cup Other(counts),
                                     samples |-> c[N].samples]
  BY <1>3, Zenon DEF c
<1>11. Sampled(db, counts, room, 0, c[0])
  <2>1. c[0].by_level = {} /\ c[0].samples = <<>> /\ c[0].left = room
    BY <1>8 DEF first
  <2>2. FirstLevels(0) = {}
    BY DEF FirstLevels
  <2>3. AtLevels(db, 0) = {}
    BY <2>2 DEF AtLevels
  <2>4. Range(c[0].samples) = {} /\ Len(c[0].samples) = 0
    BY <2>1 DEF Range
  <2>5. Cardinality(Range(c[0].samples)) = 0
    BY <2>4, FS_EmptySet, Zenon
  <2>6. c[0].by_level = {<<l, counts[l]>> : l \in FirstLevels(0) \cap DOMAIN counts}
    BY <2>1, <2>2
  <2>7. Cardinality(Range(c[0].samples)) = Len(c[0].samples) /\ c[0].left = room - Len(c[0].samples)
    BY <2>1, <2>4, <2>5
  <2>8. Range(c[0].samples) = AtLevels(db, 0)
    BY <2>3, <2>4
  <2> HIDE DEF c
  <2> QED BY <2>6, <2>7, <2>8, Zenon DEF Sampled
<1>12. ASSUME NEW n \in 0 .. 4, Sampled(db, counts, room, n, c[n])
       PROVE  Sampled(db, counts, room, n + 1, c[n + 1])
  <2>1. n + 1 \in 1 .. N /\ (n + 1) - 1 = n /\ n \in 0 .. N
    BY <1>0
  <2>2. c[n + 1] = Sample(db, counts, c[n], Levels[n + 1])
    BY <1>8, <2>1 DEF To
  <2>3. c[n] \in SampleState(db)
    BY <1>9, <2>1 DEF A
  <2>4. \A id \in DOMAIN db : db[id].tool = Levels[n + 1] => Levels[n + 1] \in DOMAIN counts
    BY FirstLevelsAre
  <2> QED BY <1>12, <2>2, <2>3, <2>4, SampleIs
<1>13. Sampled(db, counts, room, 5, c[5])
  <2> DEFINE Good == {n \in 0 .. 5 : Sampled(db, counts, room, n, c[n])}
  <2>1. 0 \in Good
    BY <1>11
  <2>2. ASSUME NEW n \in 0 .. 5, n \in Good, n < 5 PROVE n + 1 \in Good
    BY <1>12, <2>2
  <2>3. 5 \in Nat
    OBVIOUS
  <2>4. 0 .. 5 \subseteq Good
    <3> HIDE DEF Good
    <3> QED BY <2>1, <2>2, <2>3, IntervalInduction
  <2> QED BY <2>4
<1>14. c[5] \in SampleState(db)
  BY <1>0, <1>9 DEF A
<1> QED BY <1>0, <1>10, <1>13, <1>14

\* The summary of an index of any size: its buckets add up to the total, and no
\* detection is shown in the place of a graver one.
\* (_detection_summary, list_detections)
THEOREM DetectionsStand ==
    ASSUME NEW X, NEW db \in Seq(IndexRow(X)), NEW limit \in Int,
           \A id \in DOMAIN db : db[id].tool \in Range(Levels) => db[id].alert
    PROVE  DetectionsLaw(db, limit)
<1> DEFINE E == {id \in DOMAIN db : IsDetection(db[id])}
           h == [id \in E |-> db[id].tool]
           counts == CountBySource(db)
           D == DOMAIN counts
           R == Range(Levels)
           room == Lesser(Greater(1, limit), MaxLimit)
           ranked == {id \in DOMAIN db : IsDetection(db[id]) /\ db[id].tool \in R}
           Of(T) == {e \in E : h[e] \in T}
           d == DetectionSummary(db, limit)
<1>1. E \in SUBSET DOMAIN db /\ IsFiniteSet(E) /\ \A id \in E : h[id] = db[id].tool
  <2>1. E \in SUBSET DOMAIN db
    OBVIOUS
  <2>2. IsFiniteSet(E)
    BY <2>1, DbIs
  <2> QED BY <2>1, <2>2
<1>2. D = {h[e] : e \in E} /\ \A t \in D : counts[t] = Cardinality({e \in E : h[e] = t})
  <2>1. D = {db[id].tool : id \in E}
    BY DEF CountBySource
  <2>2. \A t \in D : counts[t] = Cardinality({id \in DOMAIN db : IsDetection(db[id]) /\ db[id].tool = t})
    BY DEF CountBySource
  <2>3. \A t : {id \in DOMAIN db : IsDetection(db[id]) /\ db[id].tool = t} = {e \in E : h[e] = t}
    OBVIOUS
  <2> QED BY <2>1, <2>2, <2>3
<1>3. ranked = Of(R) /\ E = Of(D) /\ Of(D) = Of(R \cap D) \cup Of(D \ R) /\ Of(R \cap D) \cap Of(D \ R) = {}
      /\ Of(R) = Of(R \cap D)
  BY <1>2
<1>4. \A id \in DOMAIN db : db[id].tool \in R => id \in ranked /\ db[id].tool \in D
  BY <1>2 DEF IsDetection
<1>5. room \in Nat
  BY QueryAssumption DEF Lesser, Greater
<1> HIDE DEF h, E, counts, D, Of, ranked, room
<1>6. IsFiniteSet(D)
  BY <1>1, <1>2, ImageFinite
<1>7. /\ \A t \in D : counts[t] \in Nat
      /\ \A T \in SUBSET D : SumFunctionOnSet(counts, T) = Cardinality(Of(T))
  <2>1. /\ \A t \in D : counts[t] \in Nat
        /\ \A T \in SUBSET D : SumFunctionOnSet(counts, T) = Cardinality({e \in E : h[e] \in T})
    <3>1. Tallies(E, h, D, counts)
      BY <1>2 DEF Tallies
    <3> QED BY <1>1, <1>6, <3>1, CountsAddUp
  <2> QED BY <2>1 DEF Of
<1>8. PICK s \in SampleState(db) :
         /\ Sampled(db, counts, room, 5, s)
         /\ d = [total |-> SumFunction(counts), by_level |-> s.by_level \cup Other(counts), samples |-> s.samples]
  <2>1. \A id \in DOMAIN db : db[id].tool \in R => db[id].tool \in DOMAIN counts
    BY <1>4 DEF D
  <2> QED BY <1>5, <1>7, <2>1, LevelsSampled DEF counts, D, room
<1> DEFINE sampled == Range(s.samples)
<1>9. d.total = SumFunctionOnSet(counts, D) /\ d.samples = s.samples /\ d.by_level = s.by_level \cup Other(counts)
  BY <1>8 DEF SumFunction, D
<1>10. FirstLevels(5) = R /\ AtLevels(db, 5) = ranked
  <2>1. FirstLevels(5) = R
    BY LevelsAre DEF FirstLevels
  <2> QED BY <1>4, <2>1 DEF AtLevels, ranked
<1>11. /\ s.samples \in Seq(DOMAIN db) /\ s.left \in Nat /\ Len(s.samples) \in Nat
       /\ s.by_level = {<<l, counts[l]>> : l \in R \cap D}
       /\ Cardinality(sampled) = Len(s.samples) /\ sampled \subseteq ranked
       /\ s.left = room - Len(s.samples) /\ (s.left > 0 => sampled = ranked)
       /\ \A in \in sampled, out \in ranked \ sampled : Rank(db[in].tool) <= Rank(db[out].tool)
  <2>1. s.samples \in Seq(DOMAIN db) /\ s.left \in Nat /\ Len(s.samples) \in Nat
    BY DEF SampleState
  <2> QED BY <1>8, <1>10, <2>1 DEF Sampled, D
<1>12. d.total = Cardinality(E)
  BY <1>3, <1>7, <1>9
<1>13. \A T : IsFiniteSet(Of(T)) /\ Cardinality(Of(T)) \in Nat
  <2>1. \A T : Of(T) \subseteq E
    BY DEF Of
  <2> QED BY <1>1, <2>1, FS_Subset, FS_CardinalityType
<1>14. Len(s.samples) = Lesser(Cardinality(ranked), room)
  <2>1. IsFiniteSet(ranked) /\ Cardinality(ranked) \in Nat
    BY <1>3, <1>13
  <2>2. Cardinality(sampled) <= Cardinality(ranked)
    BY <1>11, <2>1, FS_Subset
  <2>3. CASE s.left > 0
    BY <1>5, <1>11, <2>1, <2>3 DEF Lesser
  <2>4. CASE s.left = 0
    BY <1>5, <1>11, <2>1, <2>2, <2>4 DEF Lesser
  <2> QED BY <1>11, <2>3, <2>4
<1>15. d.total = SumFunction([b \in d.by_level |-> b[2]])
  <2> DEFINE P == {<<l, counts[l]>> : l \in R \cap D}
             U == D \ R
             n == SumFunctionOnSet(counts, U)
             f == [b \in d.by_level |-> b[2]]
  <2>1. n = Cardinality(Of(U)) /\ SumFunctionOnSet(counts, R \cap D) = Cardinality(Of(R \cap D))
    BY <1>7
  <2>2. d.total = SumFunctionOnSet(counts, R \cap D) + n /\ n \in Nat /\ SumFunctionOnSet(counts, R \cap D) \in Nat
    <3>1. /\ Cardinality(Of(R \cap D) \cup Of(U)) =
                Cardinality(Of(R \cap D)) + Cardinality(Of(U)) - Cardinality(Of(R \cap D) \cap Of(U))
      BY <1>13, FS_Union
    <3>2. Cardinality(Of(R \cap D) \cap Of(U)) = 0
      BY <1>3, FS_EmptySet, Zenon
    <3>3. Cardinality(Of(R \cap D)) \in Nat /\ Cardinality(Of(U)) \in Nat
      BY <1>13
    <3>4. d.total = Cardinality(Of(R \cap D) \cup Of(U))
      BY <1>3, <1>12
    <3> HIDE DEF U
    <3> QED BY <2>1, <3>1, <3>2, <3>3, <3>4
  <2>3. d.by_level = P \cup Other(counts) /\ Other(counts) = IF n = 0 THEN {} ELSE {<<"other", n>>}
    BY <1>9, <1>11 DEF Other, D
  <2> HIDE DEF P, n, U, d
  <2>4. P \subseteq d.by_level /\ \A b \in d.by_level : f[b] = b[2]
    BY <2>3
  <2>5. SumFunction(f) = SumFunctionOnSet(f, d.by_level)
    BY DEF SumFunction
  <2> HIDE DEF f
  <2>6. IsFiniteSet(P) /\ SumFunctionOnSet(f, P) = SumFunctionOnSet(counts, R \cap D)
    <3>1. IsFiniteSet(R \cap D)
      BY <1>6, FS_Subset
    <3>2. \A t \in R \cap D : counts[t] \in Nat
      BY <1>7
    <3>3. \A b \in P : f[b] = b[2]
      BY <2>4
    <3>4. P = {<<t, counts[t]>> : t \in R \cap D}
      BY DEF P
    <3> QED BY <3>1, <3>2, <3>3, <3>4, PairsAddUp
  <2>7. ASSUME n = 0 PROVE d.total = SumFunction(f)
    <3>1. d.by_level = P
      BY <2>3, <2>7
    <3> QED BY <2>2, <2>5, <2>6, <2>7, <3>1
  <2>8. ASSUME n # 0 PROVE d.total = SumFunction(f)
    <3>1. d.by_level = P \cup {<<"other", n>>} /\ f[<<"other", n>>] = n
      BY <2>3, <2>4, <2>8
    <3>2. <<"other", n>> \notin P
      BY LevelsAre DEF P
    <3>3. IsFiniteSet(d.by_level)
      <4>1. IsFiniteSet(P \cup {<<"other", n>>})
        BY <2>6, FS_AddElement
      <4> QED BY <3>1, <4>1
    <3>4. \A b \in d.by_level : f[b] \in Nat
      BY <1>7, <2>2, <2>4, <3>1 DEF P
    <3>5. SumFunctionOnSet(f, P \cup {<<"other", n>>}) = f[<<"other", n>>] + SumFunctionOnSet(f, P)
      BY <3>1, <3>2, <3>3, <3>4, <2>4, SumIs
    <3> QED BY <2>2, <2>5, <2>6, <3>1, <3>5
  <2> QED BY <2>7, <2>8 DEF f
<1> HIDE DEF d
<1> QED BY <1>9, <1>11, <1>12, <1>14, <1>15 DEF DetectionsLaw, d, E, ranked, room

\* The inputs of the run that are asked for in parts.
RowNames == {"critical", "low", "unknown", "evtx", "h"}
Leveled(db) == \A id \in DOMAIN db : db[id].tool \in Range(Levels) => db[id].alert

AnswersInput ==
    /\ input.law = "listing" => /\ input.shares \in Seq(Seq(Nat)) /\ input.limit \in Nat \ {0}
                                /\ \A n \in 1 .. Len(input.shares) : IsInjective(input.shares[n])
    /\ input.law = "detections" => /\ input.db \in Seq(IndexRow(RowNames)) /\ Leveled(input.db)
                                   /\ input.limit \in Int
    /\ input.law = "answers" => /\ input.db \in Seq(IndexRow(RowNames)) /\ input.exists \in BOOLEAN
                                /\ input.limit \in Int
    /\ input.law = "paging" => input.lines \in Nat /\ input.size \in Int

LEMMA FoldersTyped == \A f \in Folders : f \in Seq(Nat) /\ IsInjective(f)
<1> DEFINE by(E) == {p \in E \X E : p[1] < p[2]}
<1>1. ASSUME NEW E \in SUBSET (1 .. 4) PROVE Ordered(E, by(E)) \in Seq(Nat) /\ IsInjective(Ordered(E, by(E)))
  <2>1. IsFiniteSet(E)
    <3>1. 1 \in Int /\ 4 \in Int
      OBVIOUS
    <3>2. IsFiniteSet(1 .. 4)
      BY <3>1, FS_Interval
    <3> QED BY <3>2, FS_Subset
  <2>2. StrictOrder(E, by(E))
    <3>1. \A a, b \in E : <<a, b>> \in by(E) <=> a < b
      OBVIOUS
    <3>2. \A a \in E : a \in Nat
      OBVIOUS
    <3> HIDE DEF by
    <3>3. \A a \in E : <<a, a>> \notin by(E)
      BY <3>1, <3>2
    <3>4. \A a, b, c \in E : <<a, b>> \in by(E) /\ <<b, c>> \in by(E) => <<a, c>> \in by(E)
      BY <3>1, <3>2
    <3>5. \A a, b \in E : a = b \/ <<a, b>> \in by(E) \/ <<b, a>> \in by(E)
      <4>1. \A a, b \in E : a = b \/ a < b \/ b < a
        BY <3>2
      <4> QED BY <3>1, <4>1, Zenon
    <3> QED BY <3>3, <3>4, <3>5 DEF StrictOrder
  <2> DEFINE s == Ordered(E, by(E))
  <2> HIDE DEF by
  <2>3. s \in Seq(E) /\ \A i, j \in 1 .. Len(s) : s[i] = s[j] => i = j
    BY <2>1, <2>2, OrderedIs
  <2> HIDE DEF s
  <2>4. s \in Seq(Nat)
    <3>1. ASSUME NEW A, NEW B, A \subseteq B, NEW q \in Seq(A) PROVE q \in Seq(B)
      BY <3>1
    <3>2. E \subseteq Nat
      OBVIOUS
    <3> QED BY <2>3, <3>1, <3>2, Zenon
  <2>5. IsInjective(s)
    BY <2>3 DEF IsInjective
  <2> QED BY <2>4, <2>5 DEF s
<1> QED BY <1>1 DEF Folders

LEMMA RowsTyped ==
    /\ AlertRows \subseteq IndexRow(RowNames) /\ \A r \in AlertRows : r.tool \in Range(Levels) => r.alert
    /\ Plains \subseteq IndexRow(RowNames)
<1>1. \A t, n \in Int : TRUE
  OBVIOUS
<1>2. "evtx" \notin Range(Levels)
  BY DEF Levels, Range
<1>3. ASSUME NEW r \in AlertRows PROVE r \in IndexRow(RowNames) /\ (r.tool \in Range(Levels) => r.alert)
  <2>1. PICK t \in {"critical", "low", "unknown", "evtx"}, n \in 1 .. 2 :
           r = [tool |-> t, ts |-> n, alert |-> t # "evtx", hit |-> TRUE, host |-> "h", poisoned |-> FALSE]
    BY <1>3 DEF AlertRows
  <2>2. t \in RowNames /\ n \in Int /\ "h" \in RowNames
    BY DEF RowNames
  <2> QED BY <1>2, <2>1, <2>2 DEF IndexRow
<1>4. ASSUME NEW r \in Plains PROVE r \in IndexRow(RowNames)
  <2>1. PICK n \in 1 .. 2, h \in BOOLEAN, p \in BOOLEAN :
           r = [tool |-> "evtx", ts |-> n, alert |-> FALSE, hit |-> h, host |-> "h", poisoned |-> p]
    BY <1>4 DEF Plains
  <2>2. "evtx" \in RowNames /\ n \in Int /\ "h" \in RowNames
    BY DEF RowNames
  <2> QED BY <2>1, <2>2 DEF IndexRow
<1> QED BY <1>3, <1>4

LEMMA AnswersInputInit == Inputs => AnswersInput
<1> SUFFICES ASSUME Inputs PROVE AnswersInput
  OBVIOUS
<1>1. CASE ReportInputs
  BY <1>1, ReportLaws DEF AnswersInput
<1>2. CASE FindingInputs
  BY <1>2 DEF FindingInputs, AnswersInput
<1>3. CASE PrepareInputs \/ AccuracyInputs \/ GateInputs \/ PinsInputs \/ input = [law |-> "download"]
  BY <1>3 DEF PrepareInputs, AccuracyInputs, GateInputs, PinsInputs, AnswersInput
<1>4. CASE ListingInputs
  <2>1. PICK shares \in [1 .. 3 -> Folders], limit \in 1 .. 2 :
           input = [law |-> "listing", shares |-> shares, limit |-> limit]
    BY <1>4 DEF ListingInputs
  <2>2. \A n \in 1 .. 3 : shares[n] \in Seq(Nat) /\ IsInjective(shares[n])
    BY FoldersTyped
  <2>3. shares \in Seq(Seq(Nat)) /\ Len(shares) = 3
    <3> DEFINE F == Seq(Nat)
    <3>1. shares \in [1 .. 3 -> F]
      BY <2>2
    <3> HIDE DEF F
    <3>2. ASSUME NEW A, NEW n \in Nat, NEW q \in [1 .. n -> A] PROVE q \in Seq(A) /\ Len(q) = n
      OBVIOUS
    <3>3. 3 \in Nat
      OBVIOUS
    <3> QED BY <3>1, <3>2, <3>3, Zenon DEF F
  <2>4. input.law = "listing" /\ input.shares = shares /\ input.limit = limit /\ limit \in Nat \ {0}
    BY <2>1
  <2>5. \A n \in 1 .. Len(input.shares) : IsInjective(input.shares[n])
    BY <2>2, <2>3, <2>4
  <2> QED BY <2>3, <2>4, <2>5 DEF AnswersInput
<1>5. ASSUME NEW db \in BoundedSeq(AlertRows, 4), NEW limit \in 0 .. 3,
             input = [law |-> "detections", db |-> db, limit |-> limit]
      PROVE  AnswersInput
  <2>1. db \in Seq(AlertRows)
    BY BoundedIsSeq
  <2>2. \A id \in DOMAIN db : db[id] \in AlertRows
    BY <2>1
  <2>3. Leveled(db)
    BY <2>2, RowsTyped DEF Leveled
  <2>4. db \in Seq(IndexRow(RowNames))
    BY <2>1, RowsTyped
  <2> QED BY <1>5, <2>3, <2>4 DEF AnswersInput
<1>6. ASSUME NEW db \in BoundedSeq(Plains, 3), NEW limit \in 0 .. 3, NEW exists \in BOOLEAN,
             input = [law |-> "answers", db |-> db, limit |-> limit, exists |-> exists]
      PROVE  AnswersInput
  <2>1. db \in Seq(Plains)
    BY BoundedIsSeq
  <2>2. db \in Seq(IndexRow(RowNames))
    BY <2>1, RowsTyped
  <2> QED BY <1>6, <2>2 DEF AnswersInput
<1>7. ASSUME NEW lines \in 0 .. 5, NEW size \in {-1} \cup 0 .. 3,
             input = [law |-> "paging", lines |-> lines, size |-> size]
      PROVE  AnswersInput
  BY <1>7 DEF AnswersInput
<1>8. CASE EvidenceInputs
  <2>1. ASSUME NEW a, NEW b, input = [law |-> "feeder", kind |-> a, file |-> b] PROVE AnswersInput
    BY <2>1 DEF AnswersInput
  <2>2. ASSUME NEW a, input = [law |-> "usn", chunks |-> a] PROVE AnswersInput
    BY <2>2 DEF AnswersInput
  <2>3. ASSUME NEW a, NEW b, input = [law |-> "build", build |-> a, done |-> b] PROVE AnswersInput
    BY <2>3 DEF AnswersInput
  <2>4. ASSUME NEW a, input = [law |-> "rules", dirs |-> a] PROVE AnswersInput
    BY <2>4 DEF AnswersInput
  <2> QED BY <1>5, <1>6, <1>7, <1>8, <2>1, <2>2, <2>3, <2>4, Zenon DEF EvidenceInputs
<1> QED BY <1>1, <1>2, <1>3, <1>4, <1>8 DEF Inputs

\* The run's reading of all four: what is asked for in parts is had whole.
THEOREM AnswersHold == Spec => []AnswersAreWhole
<1>1. Init => AnswersInput
  BY AnswersInputInit DEF Init
<1>2. AnswersInput /\ [Next]_<<input, dvars>> => AnswersInput'
  BY DEF Next, AnswersInput, Leveled
<1>3. AnswersInput => AnswersAreWhole
  <2> SUFFICES ASSUME AnswersInput PROVE AnswersAreWhole
    OBVIOUS
  <2>1. input.law = "listing" => ListingLaw(input.shares, input.limit)
    BY ListingIsWhole DEF AnswersInput
  <2>2. input.law = "detections" => DetectionsLaw(input.db, input.limit)
    BY DetectionsStand DEF AnswersInput, Leveled
  <2>3. input.law = "answers" => AnswersLaw([exists |-> input.exists, db |-> input.db], input.limit)
    BY AnswersStand DEF AnswersInput
  <2>4. input.law = "paging" => PagingLaw(input.lines, input.size)
    BY TextsAreReadWhole DEF AnswersInput
  <2> QED BY <2>1, <2>2, <2>3, <2>4 DEF AnswersAreWhole
<1> QED BY <1>1, <1>2, <1>3, PTL DEF Spec

-----------------------------------------------------------------------------
(* What the report draws from the approved claims (ReportBody) *)

-----------------------------------------------------------------------------
(* The sections of a report *)

\* Each member once, and none is lost.
LEMMA DistinctIs ==
    ASSUME NEW X, NEW s \in Seq(X)
    PROVE  /\ Distinct(s) \in Seq(X) /\ Range(Distinct(s)) = Range(s)
           /\ \A i, j \in DOMAIN Distinct(s) :
                 Distinct(s)[i] = Distinct(s)[j] => i = j
<1> DEFINE N == Len(s)
           A == Seq(X)
           first == <<>>
           To(n, x) == IF s[n] \in Range(x) THEN x ELSE Append(x, s[n])
<1>0. DOMAIN s = 1 .. N /\ \A n \in 1 .. N : s[n] \in X
  OBVIOUS
<1>1. N \in Nat /\ first \in A
  OBVIOUS
<1>2. \A n \in 1 .. N, x \in A : To(n, x) \in A
  BY <1>0
<1>3. Distinct(s) = (CHOOSE h : h = [n \in 0 .. N |-> IF n = 0 THEN first ELSE To(n, h[n - 1])])[N]
  BY DEF Distinct, Walked
<1> HIDE DEF N, A, first, To
<1> DEFINE step == [x \in (1 .. N) \X A |-> To(x[1], x[2])]
           Walk(h) == h = [n \in 0 .. N |-> IF n = 0 THEN first ELSE To(n, h[n - 1])]
           c == CHOOSE h : Walk(h)
<1>4. step \in [(1 .. N) \X A -> A]
  BY <1>2
<1>5. PICK g \in [0 .. N -> A] : Iterates(g, N, first, step)
  <2> HIDE DEF step
  <2> QED BY <1>1, <1>4, RecursionExists
<1>6. Walk(g)
  <2>1. ASSUME NEW n \in 0 .. N PROVE g[n] = IF n = 0 THEN first ELSE To(n, g[n - 1])
    <3>1. CASE n = 0
      BY <1>5, <3>1 DEF Iterates
    <3>2. CASE n # 0
      <4>1. n \in 1 .. N /\ n - 1 \in 0 .. N
        BY <1>1, <3>2
      <4>2. g[n] = step[<<n, g[n - 1]>>]
        BY <1>5, <4>1 DEF Iterates
      <4> QED BY <3>2, <4>1, <4>2
    <3> QED BY <3>1, <3>2
  <2> QED BY <2>1
<1>7. Walk(c)
  <2> HIDE DEF Walk
  <2> QED BY <1>6
<1> HIDE DEF c
<1>8. c[0] = first /\ \A n \in 1 .. N : c[n] = To(n, c[n - 1])
  <2>1. \A n \in 0 .. N : c[n] = IF n = 0 THEN first ELSE To(n, c[n - 1])
    BY <1>7, Zenon
  <2> QED BY <1>1, <2>1
<1>9. c \in [0 .. N -> A]
  <2> DEFINE Typed == {n \in 0 .. N : c[n] \in A}
  <2>1. 0 \in Typed
    BY <1>1, <1>8
  <2>2. ASSUME NEW n \in 0 .. N, n \in Typed, n < N PROVE n + 1 \in Typed
    <3>1. n + 1 \in 1 .. N /\ (n + 1) - 1 = n
      BY <1>1, <2>2
    <3>2. c[n + 1] = To(n + 1, c[n])
      BY <1>8, <3>1
    <3> QED BY <1>1, <1>2, <2>2, <3>1, <3>2
  <2>3. 0 .. N \subseteq Typed
    <3> HIDE DEF Typed
    <3> QED BY <1>1, <2>1, <2>2, IntervalInduction
  <2>4. c = [n \in 0 .. N |-> c[n]]
    BY <1>7, Zenon
  <2> QED BY <2>3, <2>4
<1>10. Distinct(s) = c[N]
  BY <1>3, Zenon DEF c
<1> DEFINE Seen(n) == {s[j] : j \in 1 .. n}
           Good(n) == /\ Range(c[n]) = Seen(n)
                      /\ \A i, j \in DOMAIN c[n] : c[n][i] = c[n][j] => i = j
           G == {n \in 0 .. N : Good(n)}
<1>11. Good(0)
  BY <1>8 DEF first, Range
<1>12. ASSUME NEW n \in 0 .. N, n < N, Good(n) PROVE Good(n + 1)
  <2>1. n + 1 \in 1 .. N /\ (n + 1) - 1 = n /\ n \in Nat
    BY <1>1, <1>12
  <2>2. c[n] \in Seq(X) /\ s[n + 1] \in X
    BY <1>0, <1>9, <2>1 DEF A
  <2>3. c[n + 1] = IF s[n + 1] \in Range(c[n]) THEN c[n] ELSE Append(c[n], s[n + 1])
    BY <1>8, <2>1 DEF To
  <2>4. Seen(n + 1) = Seen(n) \cup {s[n + 1]}
    <3>1. 1 .. n + 1 = (1 .. n) \cup {n + 1}
      BY <2>1
    <3> QED BY <3>1
  <2>5. Range(Append(c[n], s[n + 1])) = Range(c[n]) \cup {s[n + 1]}
    BY <2>2, RangeOfAppend
  <2>6. CASE s[n + 1] \in Range(c[n])
    <3>1. c[n + 1] = c[n]
      BY <2>3, <2>6
    <3>2. Seen(n + 1) = Seen(n)
      <4> HIDE DEF Seen
      <4> QED BY <1>12, <2>4, <2>6
    <3> HIDE DEF Seen
    <3> QED BY <1>12, <3>1, <3>2
  <2>7. CASE s[n + 1] \notin Range(c[n])
    <3> DEFINE t == c[n]
               a == Append(t, s[n + 1])
    <3>1. c[n + 1] = a
      BY <2>3, <2>7
    <3>2. Range(a) = Seen(n + 1)
      <4> HIDE DEF Seen
      <4> QED BY <1>12, <2>4, <2>5
    <3>3. /\ DOMAIN a = 1 .. Len(t) + 1 /\ Len(t) \in Nat /\ DOMAIN t = 1 .. Len(t)
          /\ \A i \in 1 .. Len(t) : a[i] = t[i]
          /\ a[Len(t) + 1] = s[n + 1]
      BY <2>2
    <3>4. ASSUME NEW i \in DOMAIN a, NEW j \in DOMAIN a, a[i] = a[j] PROVE i = j
      <4>1. \A k \in 1 .. Len(t) : t[k] # s[n + 1]
        BY <2>7, <3>3 DEF Range
      <4>2. \A k \in DOMAIN a : k \in 1 .. Len(t) \/ k = Len(t) + 1
        BY <3>3
      <4>3. CASE i \in 1 .. Len(t) /\ j \in 1 .. Len(t)
        BY <1>12, <3>3, <3>4, <4>3
      <4>4. CASE ~(i \in 1 .. Len(t) /\ j \in 1 .. Len(t))
        <5> HIDE DEF a, t
        <5> QED BY <3>3, <3>4, <4>1, <4>2, <4>4
      <4> QED BY <4>3, <4>4
    <3> HIDE DEF a, Seen
    <3> QED BY <3>1, <3>2, <3>4
  <2> QED BY <2>6, <2>7
<1>13. Good(N)
  <2> HIDE DEF Good
  <2>1. 0 \in G
    BY <1>1, <1>11
  <2>2. ASSUME NEW n \in 0 .. N, n \in G, n < N PROVE n + 1 \in G
    BY <1>1, <1>12, <2>2
  <2>3. 0 .. N \subseteq G
    <3> HIDE DEF G
    <3> QED BY <1>1, <2>1, <2>2, IntervalInduction
  <2> QED BY <1>1, <2>3
<1>14. Seen(N) = Range(s)
  BY <1>0 DEF Range
<1>15. c[N] \in A
  BY <1>1, <1>9
<1> QED BY <1>10, <1>13, <1>14, <1>15 DEF A

\* The readings of a finding.
LEMMA ReadingsAre ==
    ASSUME NEW R, NEW obs, NEW f, obs[f.oid].readings \in Seq(R)
    PROVE  /\ ReadingOf(obs, f) \in Seq(R)
           /\ Range(ReadingOf(obs, f)) = {r \in Range(obs[f.oid].readings) : r.iid = f.iid}
<1> DEFINE s == obs[f.oid].readings
           S == {r \in Range(s) : r.iid = f.iid}
<1>1. ReadingOf(obs, f) = Among(s, S)
  BY DEF ReadingOf
<1>2. Among(s, S) \in Seq(R) /\ Range(Among(s, S)) = Range(s) \cap S
  <2> HIDE DEF S
  <2> QED BY AmongIs
<1>3. Range(s) \cap S = S
  OBVIOUS
<1> HIDE DEF S
<1> QED BY <1>1, <1>2, <1>3 DEF S

\* A tag of a detection, and a record of findings.json with the spans it cites.
Mark(M) == [kind : {"word", "technique", "other"}, name : M]
Record(O, M) == [oid : O, spans : Seq(Seq(Mark(M)))]

\* A technique that stands right behind a word in a span, and that word.
Behind(span, tag) ==
    \E i \in 1 .. Len(span) - 1 : /\ span[i].kind = "word" /\ span[i + 1].kind = "technique"
                                  /\ tag = [tactic |-> span[i].name, id |-> span[i + 1].name]
Pair(M) == [tactic : M, id : M]

LEMMA TaggedIs ==
    ASSUME NEW M, NEW span \in Seq(Mark(M))
    PROVE  /\ Tagged(span) \in Seq(Pair(M))
           /\ \A tag : tag \in Range(Tagged(span)) <=> Behind(span, tag)
<1> DEFINE n == Len(span)
           all == [i \in 1 .. n |-> i]
           S == {i \in 1 .. n - 1 : span[i].kind = "word" /\ span[i + 1].kind = "technique"}
           at == Among(all, S)
           One(i) == [tactic |-> span[i].name, id |-> span[i + 1].name]
<1>1. n \in Nat /\ all \in Seq(1 .. n) /\ Range(all) = 1 .. n
  BY DEF Range
<1>2. at \in Seq(1 .. n) /\ Range(at) = (1 .. n) \cap S
  <2> HIDE DEF all, S
  <2> QED BY <1>1, AmongIs
<1>3. (1 .. n) \cap S = S
  BY <1>1
<1>4. Tagged(span) = [k \in DOMAIN at |-> One(at[k])]
  BY DEF Tagged
<1>5. ASSUME NEW i \in S PROVE One(i) \in Pair(M)
  <2>1. i \in 1 .. n /\ i + 1 \in 1 .. n
    BY <1>1
  <2>2. span[i] \in Mark(M) /\ span[i + 1] \in Mark(M)
    BY <2>1
  <2> QED BY <2>2 DEF Mark, Pair
<1>6. \A tag : Behind(span, tag) <=> \E i \in S : tag = One(i)
  BY DEF Behind
<1> HIDE DEF at, S, One
<1>7. DOMAIN at = 1 .. Len(at) /\ Len(at) \in Nat /\ \A k \in 1 .. Len(at) : at[k] \in S
  BY <1>2, <1>3 DEF Range
<1>8. [k \in DOMAIN at |-> One(at[k])] \in Seq(Pair(M))
  BY <1>5, <1>7
<1>9. \A tag : tag \in Range([k \in DOMAIN at |-> One(at[k])]) <=> \E i \in S : tag = One(i)
  <2>1. Range([k \in DOMAIN at |-> One(at[k])]) = {One(at[k]) : k \in DOMAIN at}
    BY DEF Range
  <2>2. {at[k] : k \in DOMAIN at} = S
    BY <1>2, <1>3 DEF Range
  <2> QED BY <2>1, <2>2
<1> QED BY <1>4, <1>6, <1>8, <1>9

\* The table of techniques, and those that a technique is evidenced by.
Tables(O, M) == UNION {[D -> [tactic : M, by : SUBSET O]] : D \in SUBSET M}
By(table, t) == IF t \in DOMAIN table THEN table[t].by ELSE {}

LEMMA EvidencedIs ==
    ASSUME NEW O, NEW M, NEW table \in Tables(O, M), NEW tag \in Pair(M), NEW oid \in O
    PROVE  /\ Evidenced(table, tag, oid) \in Tables(O, M)
           /\ \A t : By(Evidenced(table, tag, oid), t) =
                        By(table, t) \cup {o \in {oid} : tag.id = t}
<1> DEFINE D == DOMAIN table
           V == [tactic : M, by : SUBSET O]
           new == Evidenced(table, tag, oid)
           NowAt(t) == IF t # tag.id THEN table[t]
                      ELSE IF t \in D THEN [table[t] EXCEPT !.by = @ \cup {oid}]
                      ELSE [tactic |-> tag.tactic, by |-> {oid}]
<1>1. D \in SUBSET M /\ table \in [D -> V] /\ tag.id \in M /\ tag.tactic \in M
  BY DEF Tables, Pair
<1>2. new = [t \in D \cup {tag.id} |-> NowAt(t)]
  BY DEF Evidenced
<1>3. ASSUME NEW t \in D \cup {tag.id}
      PROVE  /\ NowAt(t) \in V
             /\ NowAt(t).by = By(table, t) \cup {o \in {oid} : tag.id = t}
  <2>1. CASE t # tag.id
    BY <1>1, <2>1 DEF By
  <2>2. CASE t = tag.id /\ t \in D
    <3>1. NowAt(t) = [table[t] EXCEPT !.by = @ \cup {oid}] /\ table[t] \in V
      BY <1>1, <2>2
    <3>2. NowAt(t) \in V /\ NowAt(t).by = table[t].by \cup {oid}
      BY <3>1
    <3> QED BY <2>2, <3>2 DEF By
  <2>3. CASE t = tag.id /\ t \notin D
    BY <1>1, <2>3 DEF By
  <2> QED BY <2>1, <2>2, <2>3
<1> HIDE DEF NowAt, V
<1>4. new \in [D \cup {tag.id} -> V]
  BY <1>2, <1>3
<1>5. new \in Tables(O, M)
  <2>1. D \cup {tag.id} \in SUBSET M
    BY <1>1
  <2> HIDE DEF D, new
  <2> QED BY <1>4, <2>1 DEF Tables, V
<1>6. ASSUME NEW t PROVE By(new, t) = By(table, t) \cup {o \in {oid} : tag.id = t}
  <2>1. CASE t \in D \cup {tag.id}
    <3>1. new[t] = NowAt(t) /\ t \in DOMAIN new
      BY <1>2, <2>1
    <3> QED BY <1>3, <2>1, <3>1 DEF By
  <2>2. CASE t \notin D \cup {tag.id}
    <3>1. t \notin DOMAIN new /\ t \notin DOMAIN table /\ tag.id # t
      BY <1>2, <2>2
    <3> QED BY <3>1 DEF By
  <2> QED BY <2>1, <2>2
<1> HIDE DEF new
<1> QED BY <1>5, <1>6 DEF new

\* One of the record's spans has the technique right behind a word.
Under(o, t) == \E s \in Range(o.spans) : \E tag : Behind(s, tag) /\ tag.id = t

LEMMA WithTechniquesIs ==
    ASSUME NEW O, NEW M, NEW table \in Tables(O, M), NEW r \in Record(O, M)
    PROVE  /\ WithTechniques(table, r) \in Tables(O, M)
           /\ \A t : By(WithTechniques(table, r), t) =
                        By(table, t) \cup {o \in {r.oid} : Under(r, t)}
<1> DEFINE ss == [k \in DOMAIN r.spans |-> Tagged(r.spans[k])]
           tags == Chained(ss)
           N == Len(tags)
           A == Tables(O, M)
           first == table
           To(n, x) == Evidenced(x, tags[n], r.oid)
<1>a. r.spans \in Seq(Seq(Mark(M))) /\ r.oid \in O
  BY DEF Record
<1>b. ss \in Seq(Seq(Pair(M))) /\ DOMAIN ss = DOMAIN r.spans
      /\ \A k \in DOMAIN ss : ss[k] = Tagged(r.spans[k]) /\ r.spans[k] \in Seq(Mark(M))
  <2>1. \A k \in DOMAIN r.spans : r.spans[k] \in Seq(Mark(M))
    BY <1>a
  <2>2. \A k \in DOMAIN r.spans : Tagged(r.spans[k]) \in Seq(Pair(M))
    BY <2>1, TaggedIs
  <2>3. DOMAIN r.spans = 1 .. Len(r.spans) /\ Len(r.spans) \in Nat
    BY <1>a
  <2> QED BY <2>1, <2>2, <2>3
<1> HIDE DEF ss
<1>c. tags \in Seq(Pair(M)) /\ Range(tags) = UNION {Range(ss[k]) : k \in DOMAIN ss}
  BY <1>b, ChainedIs
<1>d. \A t : Under(r, t) <=> \E tag \in Range(tags) : tag.id = t
  <2>1. \A tag : tag \in Range(tags) <=> \E s \in Range(r.spans) : Behind(s, tag)
    <3>1. \A k \in DOMAIN ss : \A tag : tag \in Range(ss[k]) <=> Behind(r.spans[k], tag)
      BY <1>b, TaggedIs
    <3>2. Range(r.spans) = {r.spans[k] : k \in DOMAIN ss}
      BY <1>b DEF Range
    <3>3. \A tag : tag \in Range(tags) <=> \E k \in DOMAIN ss : tag \in Range(ss[k])
      <4> HIDE DEF tags
      <4> QED BY <1>c
    <3>4. \A tag : (\E s \in Range(r.spans) : Behind(s, tag)) <=> \E k \in DOMAIN ss : Behind(r.spans[k], tag)
      BY <3>2
    <3> HIDE DEF tags
    <3> QED BY <3>1, <3>3, <3>4
  <2> QED BY <2>1 DEF Under
<1>0. DOMAIN tags = 1 .. N /\ \A n \in 1 .. N : tags[n] \in Pair(M)
  BY <1>c
<1>1. N \in Nat /\ first \in A
  BY <1>c
<1>2. \A n \in 1 .. N, x \in A : To(n, x) \in A
  BY <1>0, <1>a, EvidencedIs
<1>3. WithTechniques(table, r) =
        (CHOOSE h : h = [n \in 0 .. N |-> IF n = 0 THEN first ELSE To(n, h[n - 1])])[N]
  BY DEF WithTechniques, Walked, ss
<1> HIDE DEF N, A, first, To, tags
<1> DEFINE step == [x \in (1 .. N) \X A |-> To(x[1], x[2])]
           Walk(h) == h = [n \in 0 .. N |-> IF n = 0 THEN first ELSE To(n, h[n - 1])]
           c == CHOOSE h : Walk(h)
<1>4. step \in [(1 .. N) \X A -> A]
  BY <1>2
<1>5. PICK g \in [0 .. N -> A] : Iterates(g, N, first, step)
  <2> HIDE DEF step
  <2> QED BY <1>1, <1>4, RecursionExists
<1>6. Walk(g)
  <2>1. ASSUME NEW n \in 0 .. N PROVE g[n] = IF n = 0 THEN first ELSE To(n, g[n - 1])
    <3>1. CASE n = 0
      BY <1>5, <3>1 DEF Iterates
    <3>2. CASE n # 0
      <4>1. n \in 1 .. N /\ n - 1 \in 0 .. N
        BY <1>1, <3>2
      <4>2. g[n] = step[<<n, g[n - 1]>>]
        BY <1>5, <4>1 DEF Iterates
      <4> QED BY <3>2, <4>1, <4>2
    <3> QED BY <3>1, <3>2
  <2> QED BY <2>1
<1>7. Walk(c)
  <2> HIDE DEF Walk
  <2> QED BY <1>6
<1> HIDE DEF c
<1>8. c[0] = first /\ \A n \in 1 .. N : c[n] = To(n, c[n - 1])
  <2>1. \A n \in 0 .. N : c[n] = IF n = 0 THEN first ELSE To(n, c[n - 1])
    BY <1>7, Zenon
  <2> QED BY <1>1, <2>1
<1>9. c \in [0 .. N -> A]
  <2> DEFINE Typed == {n \in 0 .. N : c[n] \in A}
  <2>1. 0 \in Typed
    BY <1>1, <1>8
  <2>2. ASSUME NEW n \in 0 .. N, n \in Typed, n < N PROVE n + 1 \in Typed
    <3>1. n + 1 \in 1 .. N /\ (n + 1) - 1 = n
      BY <1>1, <2>2
    <3>2. c[n + 1] = To(n + 1, c[n])
      BY <1>8, <3>1
    <3> QED BY <1>1, <1>2, <2>2, <3>1, <3>2
  <2>3. 0 .. N \subseteq Typed
    <3> HIDE DEF Typed
    <3> QED BY <1>1, <2>1, <2>2, IntervalInduction
  <2>4. c = [n \in 0 .. N |-> c[n]]
    BY <1>7, Zenon
  <2> QED BY <2>3, <2>4
<1>10. WithTechniques(table, r) = c[N]
  BY <1>3, Zenon DEF c
<1> DEFINE Seen(n) == {tags[j].id : j \in 1 .. n}
           Good(n) == \A t : By(c[n], t) = By(table, t) \cup {o \in {r.oid} : t \in Seen(n)}
           G == {n \in 0 .. N : Good(n)}
<1>11. Good(0)
  <2>1. Seen(0) = {}
    OBVIOUS
  <2>2. c[0] = table
    BY <1>8 DEF first
  <2> HIDE DEF Seen
  <2> QED BY <2>1, <2>2
<1>12. ASSUME NEW n \in 0 .. N, n < N, Good(n) PROVE Good(n + 1)
  <2>1. n + 1 \in 1 .. N /\ (n + 1) - 1 = n /\ n \in Nat
    BY <1>1, <1>12
  <2>2. c[n] \in Tables(O, M) /\ tags[n + 1] \in Pair(M)
    BY <1>0, <1>9, <2>1 DEF A
  <2>3. c[n + 1] = Evidenced(c[n], tags[n + 1], r.oid)
    BY <1>8, <2>1 DEF To
  <2>4. \A t : By(c[n + 1], t) = By(c[n], t) \cup {o \in {r.oid} : tags[n + 1].id = t}
    BY <1>a, <2>2, <2>3, EvidencedIs
  <2>5. Seen(n + 1) = Seen(n) \cup {tags[n + 1].id}
    <3>1. 1 .. n + 1 = (1 .. n) \cup {n + 1}
      BY <2>1
    <3> QED BY <3>1
  <2> HIDE DEF Seen
  <2>6. ASSUME NEW t PROVE By(c[n + 1], t) = By(table, t) \cup {o \in {r.oid} : t \in Seen(n + 1)}
    <3>1. By(c[n], t) = By(table, t) \cup {o \in {r.oid} : t \in Seen(n)}
      BY <1>12
    <3> QED BY <2>4, <2>5, <3>1
  <2> QED BY <2>6
<1>13. Good(N)
  <2> HIDE DEF Good
  <2>1. 0 \in G
    BY <1>1, <1>11
  <2>2. ASSUME NEW n \in 0 .. N, n \in G, n < N PROVE n + 1 \in G
    BY <1>1, <1>12, <2>2
  <2>3. 0 .. N \subseteq G
    <3> HIDE DEF G
    <3> QED BY <1>1, <2>1, <2>2, IntervalInduction
  <2> QED BY <1>1, <2>3
<1>14. \A t : t \in Seen(N) <=> Under(r, t)
  BY <1>0, <1>d DEF Range
<1>15. c[N] \in A
  BY <1>1, <1>9
<1> HIDE DEF Seen
<1>16. \A t : By(c[N], t) = By(table, t) \cup {o \in {r.oid} : Under(r, t)}
  BY <1>13, <1>14
<1> QED BY <1>10, <1>15, <1>16 DEF A

LEMMA TechniquesAre ==
    ASSUME NEW O, NEW M, NEW records \in Seq(Record(O, M))
    PROVE  \A t : By(Techniques(records), t) =
                     {r.oid : r \in {x \in Range(records) : Under(x, t)}}
<1> DEFINE N == Len(records)
           A == Tables(O, M)
           first == <<>>
           To(n, x) == WithTechniques(x, records[n])
<1>0. DOMAIN records = 1 .. N /\ \A n \in 1 .. N : records[n] \in Record(O, M)
  OBVIOUS
<1>1. N \in Nat /\ first \in A
  <2>1. <<>> = [x \in {} |-> x]
    OBVIOUS
  <2>2. <<>> \in [{} -> [tactic : M, by : SUBSET O]]
    BY <2>1
  <2>3. <<>> \in Tables(O, M)
    <3>1. {} \in SUBSET M
      OBVIOUS
    <3> QED BY <2>2, <3>1 DEF Tables
  <2> QED BY <2>3
<1>2. \A n \in 1 .. N, x \in A : To(n, x) \in A
  BY <1>0, WithTechniquesIs
<1>3. Techniques(records) =
        (CHOOSE h : h = [n \in 0 .. N |-> IF n = 0 THEN first ELSE To(n, h[n - 1])])[N]
  BY DEF Techniques, Walked
<1> HIDE DEF N, A, first, To
<1> DEFINE step == [x \in (1 .. N) \X A |-> To(x[1], x[2])]
           Walk(h) == h = [n \in 0 .. N |-> IF n = 0 THEN first ELSE To(n, h[n - 1])]
           c == CHOOSE h : Walk(h)
<1>4. step \in [(1 .. N) \X A -> A]
  BY <1>2
<1>5. PICK g \in [0 .. N -> A] : Iterates(g, N, first, step)
  <2> HIDE DEF step
  <2> QED BY <1>1, <1>4, RecursionExists
<1>6. Walk(g)
  <2>1. ASSUME NEW n \in 0 .. N PROVE g[n] = IF n = 0 THEN first ELSE To(n, g[n - 1])
    <3>1. CASE n = 0
      BY <1>5, <3>1 DEF Iterates
    <3>2. CASE n # 0
      <4>1. n \in 1 .. N /\ n - 1 \in 0 .. N
        BY <1>1, <3>2
      <4>2. g[n] = step[<<n, g[n - 1]>>]
        BY <1>5, <4>1 DEF Iterates
      <4> QED BY <3>2, <4>1, <4>2
    <3> QED BY <3>1, <3>2
  <2> QED BY <2>1
<1>7. Walk(c)
  <2> HIDE DEF Walk
  <2> QED BY <1>6
<1> HIDE DEF c
<1>8. c[0] = first /\ \A n \in 1 .. N : c[n] = To(n, c[n - 1])
  <2>1. \A n \in 0 .. N : c[n] = IF n = 0 THEN first ELSE To(n, c[n - 1])
    BY <1>7, Zenon
  <2> QED BY <1>1, <2>1
<1>9. c \in [0 .. N -> A]
  <2> DEFINE Typed == {n \in 0 .. N : c[n] \in A}
  <2>1. 0 \in Typed
    BY <1>1, <1>8
  <2>2. ASSUME NEW n \in 0 .. N, n \in Typed, n < N PROVE n + 1 \in Typed
    <3>1. n + 1 \in 1 .. N /\ (n + 1) - 1 = n
      BY <1>1, <2>2
    <3>2. c[n + 1] = To(n + 1, c[n])
      BY <1>8, <3>1
    <3> QED BY <1>1, <1>2, <2>2, <3>1, <3>2
  <2>3. 0 .. N \subseteq Typed
    <3> HIDE DEF Typed
    <3> QED BY <1>1, <2>1, <2>2, IntervalInduction
  <2>4. c = [n \in 0 .. N |-> c[n]]
    BY <1>7, Zenon
  <2> QED BY <2>3, <2>4
<1>10. Techniques(records) = c[N]
  BY <1>3, Zenon DEF c
<1> DEFINE Seen(n, t) == {records[j].oid : j \in {k \in 1 .. n : Under(records[k], t)}}
           Good(n) == \A t : By(c[n], t) = Seen(n, t)
           G == {n \in 0 .. N : Good(n)}
<1>11. Good(0)
  <2>1. \A t : Seen(0, t) = {}
    OBVIOUS
  <2>2. DOMAIN c[0] = {}
    BY <1>8 DEF first
  <2> HIDE DEF Seen
  <2> QED BY <2>1, <2>2 DEF By
<1>12. ASSUME NEW n \in 0 .. N, n < N, Good(n) PROVE Good(n + 1)
  <2>1. n + 1 \in 1 .. N /\ (n + 1) - 1 = n /\ n \in Nat
    BY <1>1, <1>12
  <2>2. c[n] \in Tables(O, M) /\ records[n + 1] \in Record(O, M)
    BY <1>0, <1>9, <2>1 DEF A
  <2>3. c[n + 1] = WithTechniques(c[n], records[n + 1])
    BY <1>8, <2>1 DEF To
  <2>4. \A t : By(c[n + 1], t) =
                  By(c[n], t) \cup {o \in {records[n + 1].oid} : Under(records[n + 1], t)}
    BY <2>2, <2>3, WithTechniquesIs
  <2>5. \A t : Seen(n + 1, t) = Seen(n, t) \cup {o \in {records[n + 1].oid} : Under(records[n + 1], t)}
    <3>1. 1 .. n + 1 = (1 .. n) \cup {n + 1}
      BY <2>1
    <3> QED BY <3>1
  <2> HIDE DEF Seen
  <2> QED BY <1>12, <2>4, <2>5
<1>13. Good(N)
  <2> HIDE DEF Good
  <2>1. 0 \in G
    BY <1>1, <1>11
  <2>2. ASSUME NEW n \in 0 .. N, n \in G, n < N PROVE n + 1 \in G
    BY <1>1, <1>12, <2>2
  <2>3. 0 .. N \subseteq G
    <3> HIDE DEF G
    <3> QED BY <1>1, <2>1, <2>2, IntervalInduction
  <2> QED BY <1>1, <2>3
<1>14. \A t : Seen(N, t) = {r.oid : r \in {x \in Range(records) : Under(x, t)}}
  BY <1>0 DEF Range
<1> HIDE DEF Seen
<1> QED BY <1>10, <1>13, <1>14

\* A technique is in the report with exactly the observations that have it right
\* behind a tactic, so no span is cited for a technique it does not carry: whatever
\* tags a detection has and in whatever order they stand.
\* (compose_attack_techniques)
THEOREM TechniquesAreCarried ==
    ASSUME NEW O, NEW M, NEW records \in Seq(Record(O, M))
    PROVE  TechniquesLaw(records)
<1> DEFINE table == Techniques(records)
           carries(o, t) == \E s \in Range(o.spans) : \E i \in DOMAIN s :
                                s[i] = [kind |-> "technique", name |-> t]
           under(o, t) == \E s \in Range(o.spans) : \E i \in 2 .. Len(s) :
                              s[i] = [kind |-> "technique", name |-> t] /\ s[i - 1].kind = "word"
<1>1. ASSUME NEW r \in Range(records), NEW t
      PROVE  (under(r, t) <=> Under(r, t)) /\ (under(r, t) => carries(r, t))
  <2>1. \A s \in Range(r.spans) : s \in Seq(Mark(M))
    <3>1. r \in Record(O, M)
      BY DEF Range
    <3>2. r.spans \in Seq(Seq(Mark(M)))
      BY <3>1 DEF Record
    <3> QED BY <3>2 DEF Range
  <2>2. ASSUME NEW s \in Seq(Mark(M)), NEW i \in 2 .. Len(s),
               s[i] = [kind |-> "technique", name |-> t], s[i - 1].kind = "word"
        PROVE  i \in DOMAIN s /\ \E tag : Behind(s, tag) /\ tag.id = t
    <3> DEFINE tag == [tactic |-> s[i - 1].name, id |-> s[i].name]
    <3>1. i \in DOMAIN s /\ i - 1 \in 1 .. Len(s) - 1 /\ (i - 1) + 1 = i
      OBVIOUS
    <3>2. s[i].kind = "technique" /\ s[i].name = t
      BY <2>2
    <3>3. Behind(s, tag) /\ tag.id = t
      BY <2>2, <3>1, <3>2 DEF Behind
    <3> QED BY <3>1, <3>3
  <2>3. ASSUME NEW s \in Seq(Mark(M)), NEW tag, Behind(s, tag), tag.id = t
        PROVE  \E i \in 2 .. Len(s) : s[i] = [kind |-> "technique", name |-> t] /\ s[i - 1].kind = "word"
    <3>1. PICK i \in 1 .. Len(s) - 1 : /\ s[i].kind = "word" /\ s[i + 1].kind = "technique"
                                       /\ tag = [tactic |-> s[i].name, id |-> s[i + 1].name]
      BY <2>3 DEF Behind
    <3>2. i + 1 \in 2 .. Len(s) /\ (i + 1) - 1 = i /\ s[i + 1] \in Mark(M)
      OBVIOUS
    <3>3. s[i + 1] = [kind |-> "technique", name |-> t]
      BY <2>3, <3>1, <3>2 DEF Mark
    <3> QED BY <3>1, <3>2, <3>3
  <2>4. under(r, t) <=> Under(r, t)
    BY <2>1, <2>2, <2>3 DEF Under
  <2>5. under(r, t) => carries(r, t)
    BY <2>1, <2>2
  <2> QED BY <2>4, <2>5
<1> HIDE DEF carries, under
<1>2. ASSUME NEW t
      PROVE  /\ By(table, t) = {o.oid : o \in {r \in Range(records) : under(r, t)}}
             /\ \A id \in By(table, t) : \E o \in Range(records) : o.oid = id /\ carries(o, t)
  <2>1. By(table, t) = {r.oid : r \in {x \in Range(records) : Under(x, t)}}
    BY TechniquesAre
  <2>2. By(table, t) = {o.oid : o \in {r \in Range(records) : under(r, t)}}
    BY <1>1, <2>1
  <2> QED BY <1>1, <2>2
<1> QED BY <1>2 DEF TechniquesLaw, By, carries, under

\* Observations with what a report draws from them: ids of audit rows, indicators,
\* and the readings, a text being words and references.
Spoken == [ends : BOOLEAN]
Reference(I, E) == [fid : I, aid : E]
Reading(I, E) == [iid : I, words : Seq(Spoken), at : Int, refs : Seq(Reference(I, E))]
Noticed(I, E, X) == [audit : Seq(E), named : Seq(X), readings : Seq(Reading(I, E)),
                     said : Seq(Reference(I, E))]
Approved(I, O) == [fid : I, oid : O, iid : I]

\* The indicators found so far and the audit ids behind each, none twice.
FoundSo(E, X) == UNION {[D -> {s \in Seq(E) : \A i, j \in DOMAIN s : s[i] = s[j] => i = j}] : D \in SUBSET X}
BehindIt(found, x) == IF x \in DOMAIN found THEN Range(found[x]) ELSE {}

\* Names are found besides, and the ids stand behind each of them.
Enriched(old, new, names, ids) ==
    /\ DOMAIN new = DOMAIN old \cup names
    /\ \A y : BehindIt(new, y) = BehindIt(old, y) \cup {a \in ids : y \in names}

LEMMA NotedIs ==
    ASSUME NEW E, NEW X, NEW found \in FoundSo(E, X), NEW x \in X, NEW audit \in Seq(E)
    PROVE  /\ Noted(found, x, audit) \in FoundSo(E, X)
           /\ Enriched(found, Noted(found, x, audit), {x}, Range(audit))
<1> DEFINE D == DOMAIN found
           V == {s \in Seq(E) : \A i, j \in DOMAIN s : s[i] = s[j] => i = j}
           new == Noted(found, x, audit)
           old == IF x \in D THEN found[x] ELSE <<>>
           all == Distinct(old \o audit)
<1>1. D \in SUBSET X /\ found \in [D -> V]
  BY DEF FoundSo
<1>2. old \in Seq(E) /\ Range(old) = BehindIt(found, x)
  <2>1. CASE x \in D
    BY <1>1, <2>1 DEF BehindIt
  <2>2. CASE x \notin D
    BY <2>2 DEF BehindIt, Range
  <2> QED BY <2>1, <2>2
<1> HIDE DEF old
<1>3. all \in V /\ Range(all) = BehindIt(found, x) \cup Range(audit)
  <2>1. old \o audit \in Seq(E) /\ Range(old \o audit) = Range(old) \cup Range(audit)
    BY <1>2, ConcatIs
  <2>2. /\ all \in Seq(E) /\ Range(all) = Range(old \o audit)
        /\ \A i, j \in DOMAIN all : all[i] = all[j] => i = j
    BY <2>1, DistinctIs
  <2> HIDE DEF all
  <2> QED BY <1>2, <2>1, <2>2
<1>4. new = [y \in D \cup {x} |-> IF y # x THEN found[y] ELSE all]
  BY DEF Noted, CitedAlso, old
<1> HIDE DEF all, V
<1>5. new \in [D \cup {x} -> V]
  BY <1>1, <1>3, <1>4
<1>6. new \in FoundSo(E, X)
  <2>1. D \cup {x} \in SUBSET X
    BY <1>1
  <2> HIDE DEF D, new
  <2> QED BY <1>5, <2>1 DEF FoundSo, V
<1>7. ASSUME NEW y PROVE BehindIt(new, y) = BehindIt(found, y) \cup {a \in Range(audit) : y \in {x}}
  <2>1. CASE y = x
    BY <1>3, <1>4, <2>1 DEF BehindIt
  <2>2. CASE y # x /\ y \in D
    BY <1>4, <2>2 DEF BehindIt
  <2>3. CASE y # x /\ y \notin D
    BY <1>4, <2>3 DEF BehindIt
  <2> QED BY <2>1, <2>2, <2>3
<1>8. DOMAIN new = D \cup {x}
  BY <1>4
<1> HIDE DEF new
<1>9. Enriched(found, new, {x}, Range(audit))
  BY <1>7, <1>8 DEF Enriched
<1> QED BY <1>6, <1>9 DEF new

LEMMA WithIndicatorIs ==
    ASSUME NEW E, NEW X, NEW found \in FoundSo(E, X), NEW named \in Seq(X), NEW audit \in Seq(E)
    PROVE  /\ WithIndicator(found, named, audit) \in FoundSo(E, X)
           /\ Enriched(found, WithIndicator(found, named, audit), Range(named), Range(audit))
<1> DEFINE s == Distinct(named)
           N == Len(s)
           A == FoundSo(E, X)
           first == found
           To(n, x) == Noted(x, s[n], audit)
<1>a. s \in Seq(X) /\ Range(s) = Range(named)
  BY DistinctIs
<1>0. DOMAIN s = 1 .. N /\ \A n \in 1 .. N : s[n] \in X
  BY <1>a
<1>1. N \in Nat /\ first \in A
  BY <1>a
<1>2. \A n \in 1 .. N, x \in A : To(n, x) \in A
  <2> HIDE DEF s
  <2> QED BY <1>0, NotedIs
<1>3. WithIndicator(found, named, audit) =
        (CHOOSE h : h = [n \in 0 .. N |-> IF n = 0 THEN first ELSE To(n, h[n - 1])])[N]
  BY DEF WithIndicator, Walked
<1> HIDE DEF N, A, first, To, s
<1> DEFINE step == [x \in (1 .. N) \X A |-> To(x[1], x[2])]
           Walk(h) == h = [n \in 0 .. N |-> IF n = 0 THEN first ELSE To(n, h[n - 1])]
           c == CHOOSE h : Walk(h)
<1>4. step \in [(1 .. N) \X A -> A]
  BY <1>2
<1>5. PICK g \in [0 .. N -> A] : Iterates(g, N, first, step)
  <2> HIDE DEF step
  <2> QED BY <1>1, <1>4, RecursionExists
<1>6. Walk(g)
  <2>1. ASSUME NEW n \in 0 .. N PROVE g[n] = IF n = 0 THEN first ELSE To(n, g[n - 1])
    <3>1. CASE n = 0
      BY <1>5, <3>1 DEF Iterates
    <3>2. CASE n # 0
      <4>1. n \in 1 .. N /\ n - 1 \in 0 .. N
        BY <1>1, <3>2
      <4>2. g[n] = step[<<n, g[n - 1]>>]
        BY <1>5, <4>1 DEF Iterates
      <4> QED BY <3>2, <4>1, <4>2
    <3> QED BY <3>1, <3>2
  <2> QED BY <2>1
<1>7. Walk(c)
  <2> HIDE DEF Walk
  <2> QED BY <1>6
<1> HIDE DEF c
<1>8. c[0] = first /\ \A n \in 1 .. N : c[n] = To(n, c[n - 1])
  <2>1. \A n \in 0 .. N : c[n] = IF n = 0 THEN first ELSE To(n, c[n - 1])
    BY <1>7, Zenon
  <2> QED BY <1>1, <2>1
<1>9. c \in [0 .. N -> A]
  <2> DEFINE Typed == {n \in 0 .. N : c[n] \in A}
  <2>1. 0 \in Typed
    BY <1>1, <1>8
  <2>2. ASSUME NEW n \in 0 .. N, n \in Typed, n < N PROVE n + 1 \in Typed
    <3>1. n + 1 \in 1 .. N /\ (n + 1) - 1 = n
      BY <1>1, <2>2
    <3>2. c[n + 1] = To(n + 1, c[n])
      BY <1>8, <3>1
    <3> QED BY <1>1, <1>2, <2>2, <3>1, <3>2
  <2>3. 0 .. N \subseteq Typed
    <3> HIDE DEF Typed
    <3> QED BY <1>1, <2>1, <2>2, IntervalInduction
  <2>4. c = [n \in 0 .. N |-> c[n]]
    BY <1>7, Zenon
  <2> QED BY <2>3, <2>4
<1>10. WithIndicator(found, named, audit) = c[N]
  BY <1>3, Zenon DEF c
<1> DEFINE Seen(n) == {s[j] : j \in 1 .. n}
           Good(n) == /\ DOMAIN c[n] = DOMAIN found \cup Seen(n)
                      /\ \A y : BehindIt(c[n], y) = BehindIt(found, y) \cup {a \in Range(audit) : y \in Seen(n)}
           G == {n \in 0 .. N : Good(n)}
<1>11. Good(0)
  <2>1. Seen(0) = {}
    OBVIOUS
  <2>2. c[0] = found
    BY <1>8 DEF first
  <2> HIDE DEF Seen
  <2> QED BY <2>1, <2>2
<1>12. ASSUME NEW n \in 0 .. N, n < N, Good(n) PROVE Good(n + 1)
  <2>1. n + 1 \in 1 .. N /\ (n + 1) - 1 = n /\ n \in Nat
    BY <1>1, <1>12
  <2>2. c[n] \in FoundSo(E, X) /\ s[n + 1] \in X
    BY <1>0, <1>9, <2>1 DEF A
  <2>3. c[n + 1] = Noted(c[n], s[n + 1], audit)
    BY <1>8, <2>1 DEF To
  <2>4. /\ DOMAIN c[n + 1] = DOMAIN c[n] \cup {s[n + 1]}
        /\ \A y : BehindIt(c[n + 1], y) = BehindIt(c[n], y) \cup {a \in Range(audit) : y \in {s[n + 1]}}
    <3>1. Enriched(c[n], Noted(c[n], s[n + 1], audit), {s[n + 1]}, Range(audit))
      BY <2>2, NotedIs
    <3> QED BY <2>3, <3>1 DEF Enriched
  <2>5. Seen(n + 1) = Seen(n) \cup {s[n + 1]}
    <3>1. 1 .. n + 1 = (1 .. n) \cup {n + 1}
      BY <2>1
    <3> QED BY <3>1
  <2> HIDE DEF Seen
  <2>6. ASSUME NEW y
        PROVE  BehindIt(c[n + 1], y) = BehindIt(found, y) \cup {a \in Range(audit) : y \in Seen(n + 1)}
    <3>1. BehindIt(c[n], y) = BehindIt(found, y) \cup {a \in Range(audit) : y \in Seen(n)}
      BY <1>12
    <3> QED BY <2>4, <2>5, <3>1
  <2>7. DOMAIN c[n + 1] = DOMAIN found \cup Seen(n + 1)
    BY <1>12, <2>4, <2>5
  <2> QED BY <2>6, <2>7
<1>13. Good(N)
  <2> HIDE DEF Good
  <2>1. 0 \in G
    BY <1>1, <1>11
  <2>2. ASSUME NEW n \in 0 .. N, n \in G, n < N PROVE n + 1 \in G
    BY <1>1, <1>12, <2>2
  <2>3. 0 .. N \subseteq G
    <3> HIDE DEF G
    <3> QED BY <1>1, <2>1, <2>2, IntervalInduction
  <2> QED BY <1>1, <2>3
<1>14. Seen(N) = Range(named)
  BY <1>0, <1>a DEF Range
<1>15. c[N] \in A
  BY <1>1, <1>9
<1> HIDE DEF Seen
<1>16. /\ DOMAIN c[N] = DOMAIN found \cup Range(named)
       /\ \A y : BehindIt(c[N], y) = BehindIt(found, y) \cup {a \in Range(audit) : y \in Range(named)}
  BY <1>13, <1>14
<1>17. Enriched(found, c[N], Range(named), Range(audit))
  BY <1>16 DEF Enriched
<1> QED BY <1>10, <1>15, <1>17 DEF A

\* The audit ids behind the approved claims that name an indicator.
CitedFor(obs, approved, y) ==
    UNION {Range(obs[f.oid].audit) : f \in {g \in Range(approved) : y \in Range(obs[g.oid].named)}}

\* A table has the indicators of the approved claims, and behind each its ids.
TableIs(table, obs, approved) ==
    /\ DOMAIN table = UNION {Range(obs[f.oid].named) : f \in Range(approved)}
    /\ \A y : BehindIt(table, y) = CitedFor(obs, approved, y)

LEMMA IndicatorsAre ==
    ASSUME NEW I, NEW E, NEW X, NEW O, NEW obs \in [O -> Noticed(I, E, X)],
           NEW approved \in Seq(Approved(I, O))
    PROVE  /\ Indicators(obs, approved) \in FoundSo(E, X)
           /\ TableIs(Indicators(obs, approved), obs, approved)
<1> DEFINE N == Len(approved)
           A == FoundSo(E, X)
           first == <<>>
           To(n, x) == WithIndicator(x, obs[approved[n].oid].named, obs[approved[n].oid].audit)
<1>0. /\ DOMAIN approved = 1 .. N
      /\ \A n \in 1 .. N : /\ obs[approved[n].oid].named \in Seq(X)
                           /\ obs[approved[n].oid].audit \in Seq(E)
  <2>0. \A n \in 1 .. N : approved[n] \in Approved(I, O)
    OBVIOUS
  <2>1. \A n \in 1 .. N : approved[n].oid \in O
    BY <2>0 DEF Approved
  <2>2. \A n \in 1 .. N : obs[approved[n].oid] \in Noticed(I, E, X)
    BY <2>1
  <2> QED BY <2>2 DEF Noticed
<1>1. N \in Nat /\ first \in A
  <2> DEFINE V == {s \in Seq(E) : \A i, j \in DOMAIN s : s[i] = s[j] => i = j}
  <2>1. <<>> = [x \in {} |-> x]
    OBVIOUS
  <2>2. <<>> \in [{} -> V]
    <3> HIDE DEF V
    <3> QED BY <2>1
  <2>3. <<>> \in FoundSo(E, X)
    <3>1. {} \in SUBSET X
      OBVIOUS
    <3> QED BY <2>2, <3>1 DEF FoundSo
  <2> QED BY <2>3
<1>2. \A n \in 1 .. N, x \in A : To(n, x) \in A
  BY <1>0, WithIndicatorIs
<1>3. Indicators(obs, approved) =
        (CHOOSE h : h = [n \in 0 .. N |-> IF n = 0 THEN first ELSE To(n, h[n - 1])])[N]
  BY DEF Indicators, Walked
<1> HIDE DEF N, A, first, To
<1> DEFINE step == [x \in (1 .. N) \X A |-> To(x[1], x[2])]
           Walk(h) == h = [n \in 0 .. N |-> IF n = 0 THEN first ELSE To(n, h[n - 1])]
           c == CHOOSE h : Walk(h)
<1>4. step \in [(1 .. N) \X A -> A]
  BY <1>2
<1>5. PICK g \in [0 .. N -> A] : Iterates(g, N, first, step)
  <2> HIDE DEF step
  <2> QED BY <1>1, <1>4, RecursionExists
<1>6. Walk(g)
  <2>1. ASSUME NEW n \in 0 .. N PROVE g[n] = IF n = 0 THEN first ELSE To(n, g[n - 1])
    <3>1. CASE n = 0
      BY <1>5, <3>1 DEF Iterates
    <3>2. CASE n # 0
      <4>1. n \in 1 .. N /\ n - 1 \in 0 .. N
        BY <1>1, <3>2
      <4>2. g[n] = step[<<n, g[n - 1]>>]
        BY <1>5, <4>1 DEF Iterates
      <4> QED BY <3>2, <4>1, <4>2
    <3> QED BY <3>1, <3>2
  <2> QED BY <2>1
<1>7. Walk(c)
  <2> HIDE DEF Walk
  <2> QED BY <1>6
<1> HIDE DEF c
<1>8. c[0] = first /\ \A n \in 1 .. N : c[n] = To(n, c[n - 1])
  <2>1. \A n \in 0 .. N : c[n] = IF n = 0 THEN first ELSE To(n, c[n - 1])
    BY <1>7, Zenon
  <2> QED BY <1>1, <2>1
<1>9. c \in [0 .. N -> A]
  <2> DEFINE Typed == {n \in 0 .. N : c[n] \in A}
  <2>1. 0 \in Typed
    BY <1>1, <1>8
  <2>2. ASSUME NEW n \in 0 .. N, n \in Typed, n < N PROVE n + 1 \in Typed
    <3>1. n + 1 \in 1 .. N /\ (n + 1) - 1 = n
      BY <1>1, <2>2
    <3>2. c[n + 1] = To(n + 1, c[n])
      BY <1>8, <3>1
    <3> QED BY <1>1, <1>2, <2>2, <3>1, <3>2
  <2>3. 0 .. N \subseteq Typed
    <3> HIDE DEF Typed
    <3> QED BY <1>1, <2>1, <2>2, IntervalInduction
  <2>4. c = [n \in 0 .. N |-> c[n]]
    BY <1>7, Zenon
  <2> QED BY <2>3, <2>4
<1>10. Indicators(obs, approved) = c[N]
  BY <1>3, Zenon DEF c
<1> DEFINE Names(n) == UNION {Range(obs[approved[j].oid].named) : j \in 1 .. n}
           Ids(n, y) == UNION {Range(obs[approved[j].oid].audit) :
                                  j \in {k \in 1 .. n : y \in Range(obs[approved[k].oid].named)}}
           Good(n) == DOMAIN c[n] = Names(n) /\ \A y : BehindIt(c[n], y) = Ids(n, y)
           G == {n \in 0 .. N : Good(n)}
<1>11. Good(0)
  <2>1. Names(0) = {} /\ \A y : Ids(0, y) = {}
    OBVIOUS
  <2>2. DOMAIN c[0] = {}
    BY <1>8 DEF first
  <2> HIDE DEF Names, Ids
  <2> QED BY <2>1, <2>2 DEF BehindIt
<1>12. ASSUME NEW n \in 0 .. N, n < N, Good(n) PROVE Good(n + 1)
  <2> DEFINE o == obs[approved[n + 1].oid]
  <2>1. n + 1 \in 1 .. N /\ (n + 1) - 1 = n /\ n \in Nat
    BY <1>1, <1>12
  <2>2. c[n] \in FoundSo(E, X) /\ o.named \in Seq(X) /\ o.audit \in Seq(E)
    BY <1>0, <1>9, <2>1 DEF A
  <2>3. c[n + 1] = WithIndicator(c[n], o.named, o.audit)
    BY <1>8, <2>1 DEF To
  <2>4. /\ DOMAIN c[n + 1] = DOMAIN c[n] \cup Range(o.named)
        /\ \A y : BehindIt(c[n + 1], y) = BehindIt(c[n], y) \cup {a \in Range(o.audit) : y \in Range(o.named)}
    <3>1. Enriched(c[n], WithIndicator(c[n], o.named, o.audit), Range(o.named), Range(o.audit))
      <4> HIDE DEF o
      <4> QED BY <2>2, WithIndicatorIs
    <3> HIDE DEF o
    <3> QED BY <2>3, <3>1 DEF Enriched
  <2>5. 1 .. n + 1 = (1 .. n) \cup {n + 1}
    BY <2>1
  <2>6. Names(n + 1) = Names(n) \cup Range(o.named)
    BY <2>5
  <2>7. \A y : Ids(n + 1, y) = Ids(n, y) \cup {a \in Range(o.audit) : y \in Range(o.named)}
    BY <2>5
  <2> HIDE DEF Names, Ids, o
  <2> QED BY <1>12, <2>4, <2>6, <2>7
<1>13. Good(N)
  <2> HIDE DEF Good
  <2>1. 0 \in G
    BY <1>1, <1>11
  <2>2. ASSUME NEW n \in 0 .. N, n \in G, n < N PROVE n + 1 \in G
    BY <1>1, <1>12, <2>2
  <2>3. 0 .. N \subseteq G
    <3> HIDE DEF G
    <3> QED BY <1>1, <2>1, <2>2, IntervalInduction
  <2> QED BY <1>1, <2>3
<1>14. Range(approved) = {approved[j] : j \in 1 .. N}
  BY <1>0 DEF Range
<1>15. Names(N) = UNION {Range(obs[f.oid].named) : f \in Range(approved)}
  BY <1>14
<1>16. \A y : Ids(N, y) = CitedFor(obs, approved, y)
  BY <1>14 DEF CitedFor
<1>17. c[N] \in A
  BY <1>1, <1>9
<1> HIDE DEF Names, Ids
<1>18. TableIs(c[N], obs, approved)
  BY <1>13, <1>15, <1>16 DEF TableIs
<1> QED BY <1>10, <1>17, <1>18 DEF A

\* The numbers up to n in another order.
Permutes(p, n) == /\ p \in [1 .. n -> 1 .. n]
                  /\ \A i, j \in 1 .. n : p[i] = p[j] => i = j
                  /\ \A k \in 1 .. n : \E i \in 1 .. n : p[i] = k

LEMMA PermutedCount ==
    ASSUME NEW n \in Nat, NEW p, Permutes(p, n), NEW K \in SUBSET (1 .. n)
    PROVE  Cardinality({i \in 1 .. n : p[i] \in K}) = Cardinality(K)
<1> DEFINE S == {i \in 1 .. n : p[i] \in K}
           f == [i \in S |-> p[i]]
<1>1. IsFiniteSet(S)
  <2>1. IsFiniteSet(1 .. n)
    <3>1. 1 \in Int /\ n \in Int
      OBVIOUS
    <3> QED BY <3>1, FS_Interval
  <2>2. S \in SUBSET (1 .. n)
    OBVIOUS
  <2> HIDE DEF S
  <2> QED BY <2>1, <2>2, FS_Subset
<1>2. f \in Bijection(S, K)
  <2>1. f \in [S -> K]
    OBVIOUS
  <2>2. \A a, b \in S : f[a] = f[b] => a = b
    BY DEF Permutes
  <2>3. \A k \in K : \E a \in S : f[a] = k
    BY DEF Permutes
  <2> HIDE DEF f, S
  <2> QED BY <2>1, <2>2, <2>3 DEF Bijection, Injection, Surjection, IsInjective
<1> HIDE DEF S, f
<1>3. ExistsBijection(S, K)
  BY <1>2 DEF ExistsBijection
<1>4. Cardinality(K) = Cardinality(S)
  BY <1>1, <1>3, FS_Bijection
<1> QED BY <1>4 DEF S

\* Sorting the timeline loses no line and doubles none.
LEMMA SortedIs ==
    ASSUME NEW n \in Nat, NEW rows, DOMAIN rows = 1 .. n, \A k \in 1 .. n : rows[k].at \in Int
    PROVE  \E p : /\ Permutes(p, n)
                  /\ Sorted(rows) = [k \in 1 .. n |-> rows[p[k]]]
                  /\ \A i, j \in 1 .. n : i < j => rows[p[i]].at <= rows[p[j]].at
<1> DEFINE D == 1 .. n
           before == {q \in D \X D : \/ rows[q[1]].at < rows[q[2]].at
                                     \/ (rows[q[1]].at = rows[q[2]].at /\ q[1] < q[2])}
           p == Ordered(D, before)
<1>1. \A i \in D : \A j \in D : <<i, j>> \in before <=> \/ rows[i].at < rows[j].at
                                              \/ (rows[i].at = rows[j].at /\ i < j)
  OBVIOUS
<1>2. IsFiniteSet(D) /\ Cardinality(D) = n
  <2>1. 1 \in Int /\ n \in Int
    OBVIOUS
  <2>2. IsFiniteSet(1 .. n) /\ Cardinality(1 .. n) = IF 1 > n THEN 0 ELSE n - 1 + 1
    BY <2>1, FS_Interval
  <2> QED BY <2>2
<1>3. Sorted(rows) = [k \in D |-> rows[p[k]]]
  BY DEF Sorted
<1> HIDE DEF before
<1>4. StrictOrder(D, before)
  <2>1. \A a \in D : <<a, a>> \notin before
    BY <1>1
  <2>2. ASSUME NEW a \in D, NEW b \in D, NEW e \in D, <<a, b>> \in before, <<b, e>> \in before
        PROVE  <<a, e>> \in before
    <3>1. rows[a].at \in Int /\ rows[b].at \in Int /\ rows[e].at \in Int
      OBVIOUS
    <3>2. rows[a].at < rows[b].at \/ (rows[a].at = rows[b].at /\ a < b)
      BY <1>1, <2>2
    <3>3. rows[b].at < rows[e].at \/ (rows[b].at = rows[e].at /\ b < e)
      BY <1>1, <2>2
    <3>4. rows[a].at < rows[e].at \/ (rows[a].at = rows[e].at /\ a < e)
      BY <3>1, <3>2, <3>3
    <3> QED BY <1>1, <3>4
  <2>3. ASSUME NEW a \in D, NEW b \in D PROVE a = b \/ <<a, b>> \in before \/ <<b, a>> \in before
    <3>1. rows[a].at \in Int /\ rows[b].at \in Int
      OBVIOUS
    <3> QED BY <1>1, <3>1
  <2> HIDE DEF D
  <2> QED BY <2>1, <2>2, <2>3 DEF StrictOrder
<1>5. /\ p \in Seq(D) /\ Len(p) = n /\ Range(p) = D
      /\ \A i, j \in 1 .. n : p[i] = p[j] => i = j
      /\ \A i, j \in 1 .. n : i < j => <<p[i], p[j]>> \in before
  <2> HIDE DEF D
  <2> QED BY <1>2, <1>4, OrderedIs
<1> HIDE DEF p
<1>6. DOMAIN p = 1 .. n /\ \A i \in 1 .. n : p[i] \in D
  BY <1>5
<1>7. Permutes(p, n)
  <2>1. p \in [1 .. n -> 1 .. n]
    BY <1>5, <1>6
  <2>2. \A k \in 1 .. n : \E i \in 1 .. n : p[i] = k
    BY <1>5, <1>6 DEF Range
  <2> QED BY <1>5, <2>1, <2>2 DEF Permutes
<1>8. ASSUME NEW i \in 1 .. n, NEW j \in 1 .. n, i < j PROVE rows[p[i]].at <= rows[p[j]].at
  <2>1. rows[p[i]].at \in Int /\ rows[p[j]].at \in Int
    BY <1>6
  <2>2. rows[p[i]].at < rows[p[j]].at \/ rows[p[i]].at = rows[p[j]].at
    BY <1>1, <1>5, <1>6, <1>8
  <2> QED BY <2>1, <2>2
<1> QED BY <1>3, <1>7, <1>8

\* Every approved claim has its one line in the timeline, in the order of time, and
\* every indicator of one is listed once with the audit ids of all the approved
\* claims that name it, and of no other: however the claims share indicators,
\* observations and ids.
\* (compose_timeline, compose_iocs)
THEOREM ClaimsAreAllTold ==
    ASSUME NEW I, NEW E, NEW X, NEW O, NEW obs \in [O -> Noticed(I, E, X)],
           NEW approved \in Seq(Approved(I, O))
    PROVE  ClaimsLaw(obs, approved)
<1> DEFINE n == Len(approved)
           LineOf(f) == TimelineRow(f, ReadingOf(obs, f), obs[f.oid].audit)
           lines == [k \in DOMAIN approved |-> LineOf(approved[k])]
           rows == TimelineRows(obs, approved)
           table == Indicators(obs, approved)
           cited(x) == CitedFor(obs, approved, x)
<1>0. /\ n \in Nat /\ DOMAIN approved = 1 .. n
      /\ \A k \in 1 .. n : approved[k] \in Approved(I, O)
  OBVIOUS
<1>1. ASSUME NEW f \in Approved(I, O) PROVE LineOf(f).at \in Int /\ LineOf(f).fid = f.fid
  <2>1. obs[f.oid] \in Noticed(I, E, X)
    BY DEF Approved
  <2>2. obs[f.oid].readings \in Seq(Reading(I, E))
    BY <2>1 DEF Noticed
  <2> DEFINE r == ReadingOf(obs, f)
  <2>3. r \in Seq(Reading(I, E))
    BY <2>2, ReadingsAre
  <2> HIDE DEF r
  <2>4. r # <<>> => r[1] \in Reading(I, E)
    BY <2>3
  <2>5. r # <<>> => r[1].at \in Int
    BY <2>4 DEF Reading
  <2>6. Undated \in Int
    BY DEF Undated
  <2>7. TimelineRow(f, r, obs[f.oid].audit).at = IF r = <<>> THEN Undated ELSE r[1].at
    BY DEF TimelineRow
  <2>8. TimelineRow(f, r, obs[f.oid].audit).fid = f.fid
    BY DEF TimelineRow
  <2>9. LineOf(f) = TimelineRow(f, r, obs[f.oid].audit)
    BY DEF r
  <2> HIDE DEF LineOf
  <2> QED BY <2>5, <2>6, <2>7, <2>8, <2>9
<1> HIDE DEF LineOf
<1>2. /\ DOMAIN lines = 1 .. n
      /\ \A k \in 1 .. n : lines[k].at \in Int /\ lines[k].fid = approved[k].fid
  BY <1>0, <1>1
<1>3. rows = Sorted(lines)
  BY DEF TimelineRows, LineOf
<1> HIDE DEF lines, n
<1>4. PICK p : /\ Permutes(p, n)
               /\ Sorted(lines) = [k \in 1 .. n |-> lines[p[k]]]
               /\ \A i, j \in 1 .. n : i < j => lines[p[i]].at <= lines[p[j]].at
  BY <1>0, <1>2, SortedIs
<1> HIDE DEF rows
<1>5. DOMAIN rows = 1 .. n /\ \A k \in 1 .. n : rows[k] = lines[p[k]] /\ p[k] \in 1 .. n
  BY <1>3, <1>4 DEF Permutes
<1>6. \A i, j \in DOMAIN rows : i < j => rows[i].at <= rows[j].at
  BY <1>4, <1>5
<1>7. ASSUME NEW f \in Range(approved)
      PROVE  Cardinality({i \in DOMAIN rows : rows[i].fid = f.fid})
               = Cardinality({k \in DOMAIN approved : approved[k].fid = f.fid})
  <2> DEFINE K == {k \in 1 .. n : approved[k].fid = f.fid}
  <2>1. {i \in DOMAIN rows : rows[i].fid = f.fid} = {i \in 1 .. n : p[i] \in K}
    BY <1>2, <1>5
  <2>2. K = {k \in DOMAIN approved : approved[k].fid = f.fid}
    BY <1>0
  <2>3. K \in SUBSET (1 .. n)
    OBVIOUS
  <2> HIDE DEF K
  <2>4. Cardinality({i \in 1 .. n : p[i] \in K}) = Cardinality(K)
    BY <1>0, <1>4, <2>3, PermutedCount
  <2> QED BY <2>1, <2>2, <2>4
<1>8. /\ table \in FoundSo(E, X)
      /\ DOMAIN table = UNION {Range(obs[f.oid].named) : f \in Range(approved)}
      /\ \A y : BehindIt(table, y) = cited(y)
  <2>1. Indicators(obs, approved) \in FoundSo(E, X) /\ TableIs(Indicators(obs, approved), obs, approved)
    BY IndicatorsAre
  <2> QED BY <2>1 DEF TableIs
<1> HIDE DEF table, cited
<1>9. ASSUME NEW x \in DOMAIN table PROVE Range(table[x]) = cited(x) /\ IsInjective(table[x])
  <2>1. Range(table[x]) = cited(x)
    BY <1>8 DEF BehindIt
  <2>2. \A i, j \in DOMAIN table[x] : table[x][i] = table[x][j] => i = j
    BY <1>8 DEF FoundSo
  <2> QED BY <2>1, <2>2 DEF IsInjective
<1>11. \A x \in DOMAIN table : Range(table[x]) = cited(x) /\ IsInjective(table[x])
  BY <1>9
<1>12. DOMAIN table = UNION {Range(obs[f.oid].named) : f \in Range(approved)}
  BY <1>8
<1>13. \A x : cited(x) = UNION {Range(obs[f.oid].audit) :
                  f \in {g \in Range(approved) : x \in Range(obs[g.oid].named)}}
  BY DEF cited, CitedFor
<1>14. \A f \in Range(approved) :
          Cardinality({i \in DOMAIN rows : rows[i].fid = f.fid})
            = Cardinality({k \in DOMAIN approved : approved[k].fid = f.fid})
  BY <1>7
<1>15. \A x \in DOMAIN table :
          /\ Range(table[x]) = UNION {Range(obs[f.oid].audit) :
                  f \in {g \in Range(approved) : x \in Range(obs[g.oid].named)}}
          /\ IsInjective(table[x])
  BY <1>11, <1>13
<1> QED BY <1>6, <1>12, <1>14, <1>15, Zenon DEF ClaimsLaw, table, rows

\* The first m of a sequence.
LEMMA BeginningIs ==
    ASSUME NEW S, NEW s \in Seq(S), NEW m \in 0 .. Len(s)
    PROVE  /\ SubSeq(s, 1, m) \in Seq(S) /\ Len(SubSeq(s, 1, m)) = m
           /\ \A i \in 1 .. m : SubSeq(s, 1, m)[i] = s[i]
<1>1. 1 \in Int /\ m \in Int /\ \A i \in 1 .. m : s[i] \in S
  OBVIOUS
<1>2. /\ SubSeq(s, 1, m) \in Seq(S)
      /\ Len(SubSeq(s, 1, m)) = IF 1 <= m THEN m - 1 + 1 ELSE 0
      /\ \A i \in 1 .. m - 1 + 1 : SubSeq(s, 1, m)[i] = s[1 + i - 1]
  BY <1>1, SubSeqProperties
<1>3. m - 1 + 1 = m /\ \A i \in 1 .. m : 1 + i - 1 = i
  OBVIOUS
<1>4. Len(SubSeq(s, 1, m)) = m
  BY <1>2
<1>5. \A i \in 1 .. m : SubSeq(s, 1, m)[i] = s[i]
  BY <1>2, <1>3
<1> QED BY <1>2, <1>4, <1>5

LEMMA PrefixIs ==
    ASSUME NEW S, NEW s \in Seq(S), NEW t \in Seq(S), Len(s) <= Len(t),
           \A i \in 1 .. Len(s) : s[i] = t[i]
    PROVE  IsPrefix(s, t)
<1> DEFINE m == Len(s)
           a == SubSeq(s, 1, m)
           b == SubSeq(t, 1, m)
<1>1. m \in 0 .. Len(s) /\ m \in 0 .. Len(t) /\ m \in Nat
  OBVIOUS
<1>2. a \in Seq(S) /\ Len(a) = m /\ \A i \in 1 .. m : a[i] = s[i]
  BY <1>1, BeginningIs
<1>3. b \in Seq(S) /\ Len(b) = m /\ \A i \in 1 .. m : b[i] = t[i]
  BY <1>1, BeginningIs
<1> HIDE DEF a, b
<1>4. a = b
  BY <1>1, <1>2, <1>3
<1> QED BY <1>4 DEF IsPrefix, a, b

\* A word of a summary, and the claim it is of.
Told(I) == [fid : I, ends : BOOLEAN]

\* A first sentence is a beginning, and is none only of nothing.
LEMMA FirstSentenceIs ==
    ASSUME NEW words \in Seq(Spoken)
    PROVE  \E m \in 0 .. Len(words) : /\ FirstSentence(words) = SubSeq(words, 1, m)
                                      /\ words # <<>> => m > 0
<1> DEFINE n == Len(words)
           ends == {i \in DOMAIN words : words[i].ends}
           m == CHOOSE i \in ends : \A j \in ends : i <= j
<1>1. n \in Nat /\ DOMAIN words = 1 .. n
  OBVIOUS
<1>2. CASE ends = {}
  <2>1. FirstSentence(words) = words
    BY <1>2 DEF FirstSentence
  <2>2. SubSeq(words, 1, n) = words
    <3> DEFINE t == SubSeq(words, 1, n)
    <3>1. t \in Seq(Spoken) /\ Len(t) = n /\ \A i \in 1 .. n : t[i] = words[i]
      BY <1>1, BeginningIs
    <3> HIDE DEF t, n
    <3> QED BY <1>1, <3>1 DEF t, n
  <2>3. n \in 0 .. Len(words) /\ (words # <<>> => n > 0)
    BY <1>1
  <2> QED BY <2>1, <2>2, <2>3
<1>3. CASE ends # {}
  <2>1. FirstSentence(words) = SubSeq(words, 1, m)
    BY <1>3 DEF FirstSentence
  <2>2. ends \in SUBSET Nat
    BY <1>1
  <2>3. \E i \in ends : \A j \in ends : i <= j
    <3> HIDE DEF ends
    <3> QED BY <1>3, <2>2, SmallestExists
  <2>4. m \in ends
    <3> HIDE DEF ends
    <3> QED BY <2>3
  <2> HIDE DEF m
  <2>5. m \in 0 .. Len(words) /\ m > 0
    BY <1>1, <2>4
  <2> QED BY <2>1, <2>5
<1> QED BY <1>2, <1>3

\* A bullet is of its claim, and there is none of a claim without text.
Silent(readings) == readings = <<>> \/ readings[1].words = <<>>

BulletOf(bullet, f, readings) ==
    {w.fid : w \in Range(bullet)} = {g \in {f.fid} : ~Silent(readings)}

LEMMA BulletIs ==
    ASSUME NEW I, NEW E, NEW O, NEW f \in Approved(I, O), NEW readings \in Seq(Reading(I, E))
    PROVE  /\ Bullet(f, readings) \in Seq(Told(I))
           /\ BulletOf(Bullet(f, readings), f, readings)
<1>1. CASE Silent(readings)
  <2>1. Bullet(f, readings) = <<>>
    BY <1>1 DEF Bullet, Silent
  <2>2. Range(<<>>) = {}
    BY DEF Range
  <2> QED BY <1>1, <2>1, <2>2 DEF BulletOf
<1>2. CASE ~Silent(readings)
  <2> DEFINE words == readings[1].words
             One(e) == [fid |-> f.fid, ends |-> e]
             a == [i \in 1 .. 3 |-> One(FALSE)]
             first == FirstSentence(words)
             b == [i \in DOMAIN first |-> One(words[i].ends)]
  <2>1. readings[1] \in Reading(I, E)
    BY <1>2 DEF Silent
  <2>2. words \in Seq(Spoken)
    BY <2>1 DEF Reading
  <2>3. f.fid \in I
    BY DEF Approved
  <2>4. Bullet(f, readings) = a \o b
    BY <1>2 DEF Bullet, Silent
  <2> HIDE DEF words
  <2>5. PICK m \in 0 .. Len(words) : first = SubSeq(words, 1, m)
    BY <2>2, FirstSentenceIs
  <2>6. first \in Seq(Spoken) /\ Len(first) = m
    BY <2>2, <2>5, BeginningIs
  <2> HIDE DEF first
  <2>7. DOMAIN first = 1 .. m /\ m \in Nat /\ \A i \in 1 .. m : words[i] \in Spoken
    BY <2>2, <2>6
  <2>8. \A e \in BOOLEAN : One(e) \in Told(I) /\ One(e).fid = f.fid
    BY <2>3 DEF Told
  <2>9. \A i \in 1 .. m : words[i].ends \in BOOLEAN
    BY <2>7 DEF Spoken
  <2> HIDE DEF One
  <2>10. a \in Seq(Told(I)) /\ Range(a) = {One(FALSE)}
    <3>1. a \in Seq(Told(I))
      <4>1. One(FALSE) \in Told(I)
        BY <2>8
      <4>2. ASSUME NEW T, NEW x \in T, NEW n \in Nat PROVE [i \in 1 .. n |-> x] \in Seq(T)
        OBVIOUS
      <4>3. 3 \in Nat
        OBVIOUS
      <4> QED BY <4>1, <4>2, <4>3
    <3>2. Range(a) = {One(FALSE)}
      <4>1. DOMAIN a = 1 .. 3 /\ 1 \in 1 .. 3
        OBVIOUS
      <4> QED BY <4>1 DEF Range
    <3> QED BY <3>1, <3>2
  <2>11. b \in Seq(Told(I)) /\ \A w \in Range(b) : w.fid = f.fid
    <3>1. DOMAIN b = 1 .. m /\ \A i \in 1 .. m : b[i] = One(words[i].ends) /\ b[i] \in Told(I)
      BY <2>7, <2>8, <2>9
    <3>2. b \in Seq(Told(I))
      BY <2>7, <2>8, <2>9
    <3>3. \A i \in 1 .. m : b[i].fid = f.fid
      BY <2>8, <2>9, <3>1
    <3> HIDE DEF b
    <3> QED BY <3>1, <3>2, <3>3 DEF Range
  <2> HIDE DEF a, b
  <2>12. a \o b \in Seq(Told(I)) /\ Range(a \o b) = Range(a) \cup Range(b)
    <3>1. a \in Seq(Told(I)) /\ b \in Seq(Told(I))
      BY <2>10, <2>11
    <3> QED BY <3>1, ConcatIs
  <2>13. {w.fid : w \in Range(a \o b)} = {f.fid}
    BY <2>8, <2>10, <2>11, <2>12
  <2> QED BY <1>2, <2>4, <2>12, <2>13 DEF BulletOf
<1> QED BY <1>1, <1>2

\* What a report is drawn from.
Source(I, E, X, O, obs, approved) == obs \in [O -> Noticed(I, E, X)] /\ approved \in Seq(Approved(I, O))

SaysOf(words, obs, approved) ==
    {w.fid : w \in Range(words)} = {f.fid : f \in {g \in Range(approved) : ~Silent(ReadingOf(obs, g))}}

\* The words of a summary are of the claims that have text.
LEMMA SummaryWordsAre ==
    ASSUME NEW I, NEW E, NEW X, NEW O, NEW obs, NEW approved, Source(I, E, X, O, obs, approved)
    PROVE  /\ SummaryWords(obs, approved) \in Seq(Told(I))
           /\ SaysOf(SummaryWords(obs, approved), obs, approved)
<1> DEFINE n == Len(approved)
           Of(f) == Bullet(f, ReadingOf(obs, f))
           ss == [k \in DOMAIN approved |-> Of(approved[k])]
<1>0. obs \in [O -> Noticed(I, E, X)] /\ approved \in Seq(Approved(I, O))
  BY DEF Source
<1>1. n \in Nat /\ DOMAIN approved = 1 .. n /\ \A k \in 1 .. n : approved[k] \in Approved(I, O)
  BY <1>0
<1>2. ASSUME NEW f \in Approved(I, O)
      PROVE  /\ Of(f) \in Seq(Told(I))
             /\ {w.fid : w \in Range(Of(f))} = {g \in {f.fid} : ~Silent(ReadingOf(obs, f))}
  <2>1. obs[f.oid] \in Noticed(I, E, X)
    BY <1>0 DEF Approved
  <2>2. obs[f.oid].readings \in Seq(Reading(I, E))
    BY <2>1 DEF Noticed
  <2>3. ReadingOf(obs, f) \in Seq(Reading(I, E))
    BY <2>2, ReadingsAre
  <2>4. Of(f) \in Seq(Told(I)) /\ BulletOf(Of(f), f, ReadingOf(obs, f))
    BY <2>3, BulletIs
  <2> QED BY <2>4 DEF BulletOf
<1>3. SummaryWords(obs, approved) = Chained(ss)
  BY DEF SummaryWords
<1> HIDE DEF Of
<1>4. ss \in Seq(Seq(Told(I))) /\ DOMAIN ss = 1 .. n /\ \A k \in 1 .. n : ss[k] = Of(approved[k])
  BY <1>1, <1>2
<1> HIDE DEF ss, n
<1>5. Chained(ss) \in Seq(Told(I)) /\ Range(Chained(ss)) = UNION {Range(ss[k]) : k \in DOMAIN ss}
  BY <1>4, ChainedIs
<1>6. Range(Chained(ss)) = UNION {Range(Of(approved[k])) : k \in 1 .. n}
  BY <1>4, <1>5
<1>7. Range(approved) = {approved[k] : k \in 1 .. n}
  BY <1>1 DEF Range
<1>8. Range(Chained(ss)) = UNION {Range(Of(f)) : f \in Range(approved)}
  BY <1>6, <1>7
<1>9. Range(approved) \subseteq Approved(I, O)
  BY <1>1, <1>7
<1>10. ASSUME NEW x
       PROVE  x \in {w.fid : w \in Range(Chained(ss))} <=>
                 \E f \in Range(approved) : x = f.fid /\ ~Silent(ReadingOf(obs, f))
  <2>1. x \in {w.fid : w \in Range(Chained(ss))} <=>
           \E f \in Range(approved) : x \in {w.fid : w \in Range(Of(f))}
    BY <1>8
  <2>2. \A f \in Range(approved) :
           x \in {w.fid : w \in Range(Of(f))} <=> x = f.fid /\ ~Silent(ReadingOf(obs, f))
    BY <1>2, <1>9
  <2> QED BY <2>1, <2>2
<1>11. {w.fid : w \in Range(Chained(ss))} =
          {f.fid : f \in {g \in Range(approved) : ~Silent(ReadingOf(obs, g))}}
  BY <1>10
<1> QED BY <1>3, <1>5, <1>11 DEF SaysOf

\* A summary that was cut ends with a sentence if it has finished one.
LEMMA TruncatedIs ==
    ASSUME NEW I, NEW kept \in Seq(Told(I))
    PROVE  \E m \in 0 .. Len(kept) :
              /\ Truncated(kept) = SubSeq(kept, 1, m)
              /\ (\E i \in 1 .. m : kept[i].ends) => m > 0 /\ kept[m].ends
<1> DEFINE n == Len(kept)
           ends == {i \in 1 .. n - 1 : kept[i].ends}
           m == CHOOSE i \in ends : \A j \in ends : j <= i
<1>1. n \in Nat /\ DOMAIN kept = 1 .. n
  OBVIOUS
<1>2. CASE ends = {}
  <2>1. Truncated(kept) = kept
    BY <1>2 DEF Truncated
  <2>2. SubSeq(kept, 1, n) = kept
    <3> DEFINE t == SubSeq(kept, 1, n)
    <3>1. t \in Seq(Told(I)) /\ Len(t) = n /\ \A i \in 1 .. n : t[i] = kept[i]
      BY <1>1, BeginningIs
    <3> HIDE DEF t, n
    <3> QED BY <1>1, <3>1 DEF t, n
  <2>3. ASSUME NEW i \in 1 .. n, kept[i].ends PROVE n > 0 /\ kept[n].ends
    <3>1. i \in Int /\ 1 <= i /\ i <= n
      BY <1>1
    <3>2. ~(i <= n - 1)
      <4> SUFFICES ASSUME i <= n - 1 PROVE FALSE
        OBVIOUS
      <4>1. i \in 1 .. n - 1
        BY <1>1, <3>1
      <4> QED BY <1>2, <2>3, <4>1
    <3> HIDE DEF n, ends
    <3>3. i = n /\ n > 0
      BY <1>1, <3>1, <3>2
    <3> QED BY <2>3, <3>3 DEF n
  <2>4. n \in 0 .. Len(kept)
    BY <1>1
  <2> QED BY <2>1, <2>2, <2>3, <2>4
<1>3. CASE ends # {}
  <2>1. Truncated(kept) = SubSeq(kept, 1, m)
    BY <1>3 DEF Truncated
  <2>2. ends \in SUBSET (0 .. n)
    BY <1>1
  <2>3. \E i \in ends : \A j \in ends : j <= i
    <3> HIDE DEF ends
    <3> QED BY <1>1, <1>3, <2>2, LargestExists
  <2>4. m \in ends
    <3> HIDE DEF ends
    <3> QED BY <2>3
  <2> HIDE DEF m
  <2>5. m \in 0 .. Len(kept) /\ m > 0 /\ kept[m].ends
    BY <1>1, <2>4
  <2> QED BY <2>1, <2>5
<1> QED BY <1>2, <1>3

\* A summary that fits leaves no claim with text out, and one that is cut keeps the
\* limit before it says so, and breaks off no sentence when it has finished one:
\* whatever the claims say and however long.  (compose_executive_summary)
THEOREM SummariesAreWhole ==
    ASSUME NEW I, NEW E, NEW X, NEW O, NEW obs \in [O -> Noticed(I, E, X)],
           NEW approved \in Seq(Approved(I, O)), NEW limit \in Nat,
           \A o \in O : \A r, s \in Range(obs[o].readings) : r.iid = s.iid => r = s
    PROVE  SummaryLaw(obs, approved, limit)
<1> DEFINE words == SummaryWords(obs, approved)
           told == ExecutiveSummary(words, limit)
           T == Told(I)
<1>1. /\ words \in Seq(T)
      /\ {w.fid : w \in Range(words)} =
            {f.fid : f \in {g \in Range(approved) : ~Silent(ReadingOf(obs, g))}}
  <2>1. Source(I, E, X, O, obs, approved)
    BY DEF Source
  <2>2. words \in Seq(Told(I)) /\ SaysOf(words, obs, approved)
    BY <2>1, SummaryWordsAre
  <2> QED BY <2>2 DEF SaysOf
<1> HIDE DEF words, T
<1>2. \A g \in Range(approved) :
         ~Silent(ReadingOf(obs, g)) <=>
            \E r \in Range(obs[g.oid].readings) : r.iid = g.iid /\ r.words # <<>>
  <2> SUFFICES ASSUME NEW g \in Range(approved)
               PROVE  ~Silent(ReadingOf(obs, g)) <=>
                         \E r \in Range(obs[g.oid].readings) : r.iid = g.iid /\ r.words # <<>>
    OBVIOUS
  <2> DEFINE rs == ReadingOf(obs, g)
             all == Range(obs[g.oid].readings)
  <2>1. g \in Approved(I, O)
    BY DEF Range
  <2>2. g.oid \in O /\ obs[g.oid] \in Noticed(I, E, X)
    BY <2>1 DEF Approved
  <2>3. obs[g.oid].readings \in Seq(Reading(I, E))
    BY <2>2 DEF Noticed
  <2>4. rs \in Seq(Reading(I, E)) /\ Range(rs) = {r \in all : r.iid = g.iid}
    BY <2>3, ReadingsAre
  <2>5. \A r, s \in all : r.iid = s.iid => r = s
    BY <2>2
  <2> HIDE DEF rs, all
  <2>6. CASE rs = <<>>
    <3>1. Range(rs) = {}
      BY <2>6 DEF Range
    <3>2. \A r \in all : r.iid # g.iid
      BY <2>4, <3>1
    <3> QED BY <2>6, <3>2 DEF Silent, rs, all
  <2>7. CASE rs # <<>>
    <3>1. 1 \in DOMAIN rs
      BY <2>4, <2>7
    <3>2. rs[1] \in Range(rs)
      BY <3>1 DEF Range
    <3>3. rs[1] \in all /\ rs[1].iid = g.iid
      BY <2>4, <3>2
    <3>4. \A r \in all : r.iid = g.iid => r = rs[1]
      BY <2>5, <3>3
    <3>5. ~Silent(rs) <=> rs[1].words # <<>>
      BY <2>7 DEF Silent
    <3>6. ~Silent(rs) <=> \E r \in all : r.iid = g.iid /\ r.words # <<>>
      BY <3>3, <3>4, <3>5
    <3> QED BY <3>6 DEF rs, all
  <2> QED BY <2>6, <2>7
<1>3. {f.fid : f \in {g \in Range(approved) : ~Silent(ReadingOf(obs, g))}} =
        {f.fid : f \in {g \in Range(approved) :
            \E r \in Range(obs[g.oid].readings) : r.iid = g.iid /\ r.words # <<>>}}
  BY <1>2
<1>4. CASE Len(words) <= limit
  <2>1. told = words
    BY <1>4 DEF ExecutiveSummary
  <2>2. {told[i].fid : i \in DOMAIN told} = {w.fid : w \in Range(words)}
    BY <2>1 DEF Range
  <2>3. {told[i].fid : i \in DOMAIN told} =
          {f.fid : f \in {g \in Range(approved) :
             \E r \in Range(obs[g.oid].readings) : r.iid = g.iid /\ r.words # <<>>}}
    BY <1>1, <1>3, <2>2
  <2> QED BY <1>4, <2>1, <2>3, Zenon DEF SummaryLaw, told, words
<1>5. CASE ~(Len(words) <= limit)
  <2> DEFINE kept == SubSeq(words, 1, limit)
  <2>1. limit \in 0 .. Len(words) /\ Len(words) \in Nat /\ limit < Len(words)
    BY <1>1, <1>5
  <2>2. kept \in Seq(T) /\ Len(kept) = limit /\ \A i \in 1 .. limit : kept[i] = words[i]
    BY <1>1, <2>1, BeginningIs
  <2>3. told = Truncated(kept) \o TruncationMarker
    BY <1>5 DEF ExecutiveSummary
  <2> HIDE DEF kept
  <2>4. PICK k \in 0 .. limit : /\ Truncated(kept) = SubSeq(kept, 1, k)
                                /\ (\E i \in 1 .. k : kept[i].ends) => k > 0 /\ kept[k].ends
    BY <2>2, TruncatedIs DEF T
  <2>5. /\ SubSeq(kept, 1, k) \in Seq(T) /\ Len(SubSeq(kept, 1, k)) = k
        /\ \A i \in 1 .. k : SubSeq(kept, 1, k)[i] = kept[i]
    BY <2>2, <2>4, BeginningIs
  <2>6. k \in 0 .. Len(words) /\ k <= limit /\ \A i \in 1 .. k : i \in 1 .. limit
    BY <2>1
  <2>7. /\ SubSeq(words, 1, k) \in Seq(T) /\ Len(SubSeq(words, 1, k)) = k
        /\ \A i \in 1 .. k : SubSeq(words, 1, k)[i] = words[i]
    BY <1>1, <2>6, BeginningIs
  <2>8. SubSeq(kept, 1, k) = SubSeq(words, 1, k)
    <3> DEFINE a == SubSeq(kept, 1, k)
               b == SubSeq(words, 1, k)
    <3>1. \A i \in 1 .. k : a[i] = b[i]
      BY <2>2, <2>5, <2>6, <2>7
    <3>2. a \in Seq(T) /\ b \in Seq(T) /\ Len(a) = k /\ Len(b) = k
      BY <2>5, <2>7
    <3> HIDE DEF a, b
    <3>3. a = b
      BY <3>1, <3>2
    <3> QED BY <3>3 DEF a, b
  <2>9. \A i \in 1 .. k : kept[i] = words[i]
    BY <2>2, <2>6
  <2>10. (\E i \in 1 .. k : words[i].ends) => words[k].ends
    BY <2>4, <2>6, <2>9
  <2>11. told = SubSeq(words, 1, k) \o TruncationMarker
    BY <2>3, <2>4, <2>8
  <2>12. Len(words) > limit
    BY <2>1
  <2> QED BY <2>10, <2>11, <2>12, Zenon DEF SummaryLaw, told, words
<1> QED BY <1>4, <1>5

\* The files of audit/, each of lines L if it can be read; and the rows in them.
TrailFile(L) == [readable : BOOLEAN, lines : Seq(L)]
RowsIn(trail) ==
    UNION {{l \in Range(trail[k].lines) : l.kind = "row" /\ trail[k].readable} : k \in DOMAIN trail}

LEMMA EntriesAre ==
    ASSUME NEW L, NEW trail \in Seq(TrailFile(L))
    PROVE  TrailEntries(trail) \in Seq(L) /\ Range(TrailEntries(trail)) = RowsIn(trail)
<1> DEFINE n == Len(trail)
           ss == [k \in DOMAIN trail |-> IF trail[k].readable THEN trail[k].lines ELSE <<>>]
           lines == Chained(ss)
           S == {l \in Range(lines) : l.kind = "row"}
<1>1. n \in Nat /\ DOMAIN trail = 1 .. n /\ \A k \in 1 .. n : trail[k].lines \in Seq(L)
  <2>1. \A k \in 1 .. n : trail[k] \in TrailFile(L)
    OBVIOUS
  <2> QED BY <2>1 DEF TrailFile
<1>2. TrailEntries(trail) = Among(lines, S)
  BY DEF TrailEntries
<1>3. /\ ss \in Seq(Seq(L)) /\ DOMAIN ss = 1 .. n
      /\ \A k \in 1 .. n : ss[k] = IF trail[k].readable THEN trail[k].lines ELSE <<>>
  BY <1>1
<1> HIDE DEF ss, n
<1>4. lines \in Seq(L) /\ Range(lines) = UNION {Range(ss[k]) : k \in DOMAIN ss}
  BY <1>3, ChainedIs
<1>5. Range(<<>>) = {}
  BY DEF Range
<1>6. ASSUME NEW l PROVE l \in Range(lines) <=> \E k \in 1 .. n : trail[k].readable /\ l \in Range(trail[k].lines)
  <2>1. l \in Range(lines) <=> \E k \in 1 .. n : l \in Range(ss[k])
    BY <1>3, <1>4
  <2>2. \A k \in 1 .. n : l \in Range(ss[k]) <=> trail[k].readable /\ l \in Range(trail[k].lines)
    BY <1>3, <1>5
  <2> QED BY <2>1, <2>2
<1> HIDE DEF lines
<1>7. S = RowsIn(trail) /\ Range(lines) \cap S = S
  <2>1. \A l : l \in S <=> l \in RowsIn(trail)
    BY <1>1, <1>6 DEF RowsIn
  <2> QED BY <2>1
<1> HIDE DEF S
<1>8. Among(lines, S) \in Seq(L) /\ Range(Among(lines, S)) = Range(lines) \cap S
  BY <1>4, AmongIs
<1> QED BY <1>2, <1>7, <1>8

\* The tools that a report lists.
LEMMA ToolsAre ==
    ASSUME NEW L, NEW trail \in Seq(TrailFile(L))
    PROVE  Range(ToolsUsed(trail)) = {l.tool : l \in RowsIn(trail)} \ {""}
<1> DEFINE e == TrailEntries(trail)
           T == {l.tool : l \in L}
           named == [k \in DOMAIN e |-> e[k].tool]
           S == Range(named) \ {""}
<1>1. e \in Seq(L) /\ Range(e) = RowsIn(trail)
  BY EntriesAre
<1>2. ToolsUsed(trail) = Distinct(Among(named, S))
  BY DEF ToolsUsed
<1> HIDE DEF e
<1>3. named \in Seq(T)
  <2>1. DOMAIN e = 1 .. Len(e) /\ Len(e) \in Nat /\ \A k \in 1 .. Len(e) : e[k] \in L
    BY <1>1
  <2>2. \A k \in 1 .. Len(e) : e[k].tool \in T
    BY <2>1
  <2> HIDE DEF T
  <2> QED BY <2>1, <2>2
<1>4. Range(named) = {l.tool : l \in RowsIn(trail)}
  <2>1. Range(named) = {e[k].tool : k \in DOMAIN e}
    BY DEF Range
  <2>2. Range(e) = {e[k] : k \in DOMAIN e}
    BY DEF Range
  <2> QED BY <1>1, <2>1, <2>2
<1>5. Among(named, S) \in Seq(T) /\ Range(Among(named, S)) = Range(named) \cap S
  <2> HIDE DEF named, S, T
  <2> QED BY <1>3, AmongIs
<1>6. Range(Distinct(Among(named, S))) = Range(Among(named, S))
  <2> HIDE DEF named, S, T
  <2> QED BY <1>5, DistinctIs
<1>7. Range(named) \cap S = Range(named) \ {""}
  OBVIOUS
<1> QED BY <1>2, <1>4, <1>5, <1>6, <1>7

\* The references of a report name each id behind an approved claim and each that an
\* observation names, and no other when the texts of the readings have none.
IdsBehind(obs, approved) == UNION {Range(obs[f.oid].audit) : f \in Range(approved)}
IdsNamed(obs) == UNION {{r.aid : r \in Range(obs[o].said)} : o \in DOMAIN obs}
Silences(obs) == \A o \in DOMAIN obs : \A r \in Range(obs[o].readings) : r.refs = <<>>
Refers(refs, obs, approved) ==
    /\ IdsBehind(obs, approved) \cup IdsNamed(obs) \subseteq {r.aid : r \in Range(refs)}
    /\ Silences(obs) => {r.aid : r \in Range(refs)} \subseteq IdsBehind(obs, approved) \cup IdsNamed(obs)

LEMMA TextRefsAre ==
    ASSUME NEW I, NEW E, NEW readings \in Seq(Reading(I, E)), NEW said \in Seq(Reference(I, E))
    PROVE  /\ TextRefs(readings, said) \in Seq(Reference(I, E))
           /\ \A x : x \in Range(TextRefs(readings, said)) <=>
                  \/ readings # <<>> /\ x \in Range(readings[1].refs)
                  \/ x \in Range(said)
<1> DEFINE R == Reference(I, E)
           a == IF readings = <<>> THEN <<>> ELSE readings[1].refs
<1>1. TextRefs(readings, said) = a \o said
  BY DEF TextRefs
<1>2. a \in Seq(R) /\ \A x : x \in Range(a) <=> readings # <<>> /\ x \in Range(readings[1].refs)
  <2>1. CASE readings = <<>>
    BY <2>1 DEF Range
  <2>2. CASE readings # <<>>
    <3>1. readings[1] \in Reading(I, E)
      BY <2>2
    <3> QED BY <2>2, <3>1 DEF Reading
  <2> QED BY <2>1, <2>2
<1> HIDE DEF a
<1>3. a \o said \in Seq(R) /\ Range(a \o said) = Range(a) \cup Range(said)
  <2> HIDE DEF R
  <2> QED BY <1>2, ConcatIs DEF R
<1> QED BY <1>1, <1>2, <1>3

LEMMA ReferencesAre ==
    ASSUME NEW I, NEW E, NEW O, NEW f \in Approved(I, O), NEW readings \in Seq(Reading(I, E)),
           NEW said \in Seq(Reference(I, E)), NEW audit \in Seq(E)
    PROVE  /\ References(f, readings, said, audit) \in Seq(Reference(I, E))
           /\ \A x : x \in Range(References(f, readings, said, audit)) <=>
                  \/ readings # <<>> /\ x \in Range(readings[1].refs)
                  \/ x \in Range(said)
                  \/ \E a \in Range(audit) : x = [fid |-> f.fid, aid |-> a]
<1> DEFINE R == Reference(I, E)
           a == TextRefs(readings, said)
           b == [k \in DOMAIN audit |-> [fid |-> f.fid, aid |-> audit[k]]]
<1>1. References(f, readings, said, audit) = a \o b
  BY DEF References
<1>2. a \in Seq(R) /\ \A x : x \in Range(a) <=> \/ readings # <<>> /\ x \in Range(readings[1].refs)
                                             \/ x \in Range(said)
  BY TextRefsAre
<1>3. b \in Seq(R) /\ \A x : x \in Range(b) <=> \E y \in Range(audit) : x = [fid |-> f.fid, aid |-> y]
  <2>1. DOMAIN audit = 1 .. Len(audit) /\ Len(audit) \in Nat /\ \A k \in 1 .. Len(audit) : audit[k] \in E
    OBVIOUS
  <2>2. f.fid \in I
    BY DEF Approved
  <2>3. \A k \in 1 .. Len(audit) : [fid |-> f.fid, aid |-> audit[k]] \in R
    BY <2>1, <2>2 DEF Reference
  <2>4. b \in Seq(R)
    BY <2>1, <2>3
  <2> QED BY <2>4 DEF Range
<1> HIDE DEF a, b
<1>4. a \o b \in Seq(R) /\ Range(a \o b) = Range(a) \cup Range(b)
  <2> HIDE DEF R
  <2> QED BY <1>2, <1>3, ConcatIs
<1> QED BY <1>1, <1>2, <1>3, <1>4

LEMMA ExtractedIs ==
    ASSUME NEW I, NEW E, NEW X, NEW O, NEW obs, NEW approved, Source(I, E, X, O, obs, approved),
           IsFiniteSet(O)
    PROVE  /\ ExtractedRefs(obs, approved) \in Seq(Reference(I, E))
           /\ Refers(ExtractedRefs(obs, approved), obs, approved)
<1> DEFINE n == Len(approved)
           R == Reference(I, E)
           Of(f) == References(f, ReadingOf(obs, f), obs[f.oid].said, obs[f.oid].audit)
           ss == [k \in DOMAIN approved |-> Of(approved[k])]
           U == Unapproved(obs, approved)
           Text(o) == TextRefs(obs[o].readings, obs[o].said)
           B == {Text(o) : o \in U}
           a == Chained(ss)
           b == Chained(SetToSeq(B))
<1>0. obs \in [O -> Noticed(I, E, X)] /\ approved \in Seq(Approved(I, O))
  BY DEF Source
<1>1. n \in Nat /\ DOMAIN approved = 1 .. n /\ \A k \in 1 .. n : approved[k] \in Approved(I, O)
  BY <1>0
<1>2. ExtractedRefs(obs, approved) = a \o b
  BY DEF ExtractedRefs
<1>3. ASSUME NEW f \in Approved(I, O)
      PROVE  /\ Of(f) \in Seq(R)
             /\ \A y \in Range(obs[f.oid].audit) : \E x \in Range(Of(f)) : x.aid = y
             /\ Range(obs[f.oid].said) \subseteq Range(Of(f))
             /\ Silences(obs) => \A x \in Range(Of(f)) :
                  x.aid \in Range(obs[f.oid].audit) \/ x \in Range(obs[f.oid].said)
  <2> DEFINE rs == ReadingOf(obs, f)
             said == obs[f.oid].said
             audit == obs[f.oid].audit
  <2>1. f.oid \in O /\ obs[f.oid] \in Noticed(I, E, X)
    BY <1>0 DEF Approved
  <2>2. obs[f.oid].readings \in Seq(Reading(I, E)) /\ said \in Seq(R) /\ audit \in Seq(E)
    BY <2>1 DEF Noticed
  <2>3. rs \in Seq(Reading(I, E)) /\ Range(rs) = {r \in Range(obs[f.oid].readings) : r.iid = f.iid}
    BY <2>2, ReadingsAre
  <2> HIDE DEF rs, said, audit
  <2>4. /\ References(f, rs, said, audit) \in Seq(R)
        /\ \A x : x \in Range(References(f, rs, said, audit)) <=>
               \/ rs # <<>> /\ x \in Range(rs[1].refs)
               \/ x \in Range(said)
               \/ \E y \in Range(audit) : x = [fid |-> f.fid, aid |-> y]
    BY <2>2, <2>3, ReferencesAre
  <2>5. Of(f) = References(f, rs, said, audit)
    BY DEF rs, said, audit
  <2> HIDE DEF Of, R
  <2>6. \A y \in Range(audit) : \E x \in Range(Of(f)) : x.aid = y
    <3> SUFFICES ASSUME NEW y \in Range(audit) PROVE \E x \in Range(Of(f)) : x.aid = y
      OBVIOUS
    <3> DEFINE x == [fid |-> f.fid, aid |-> y]
    <3>1. x \in Range(Of(f)) /\ x.aid = y
      BY <2>4, <2>5
    <3> QED BY <3>1
  <2>7. Silences(obs) => \A x \in Range(Of(f)) : x.aid \in Range(audit) \/ x \in Range(said)
    <3> SUFFICES ASSUME Silences(obs), NEW x \in Range(Of(f))
                 PROVE  x.aid \in Range(audit) \/ x \in Range(said)
      OBVIOUS
    <3>1. rs # <<>> => rs[1] \in Range(rs)
      <4>1. rs # <<>> => 1 \in DOMAIN rs
        BY <2>3
      <4> QED BY <4>1 DEF Range
    <3>2. rs # <<>> => rs[1].refs = <<>>
      <4>1. f.oid \in DOMAIN obs
        BY <1>0, <2>1
      <4> QED BY <2>3, <3>1, <4>1 DEF Silences
    <3>3. Range(<<>>) = {}
      BY DEF Range
    <3>4. x \in Range(said) \/ \E y \in Range(audit) : x = [fid |-> f.fid, aid |-> y]
      BY <2>4, <2>5, <3>2, <3>3
    <3> QED BY <3>4
  <2>8. Range(said) \subseteq Range(Of(f))
    BY <2>4, <2>5
  <2> QED BY <2>4, <2>5, <2>6, <2>7, <2>8 DEF said, audit
<1>4. /\ a \in Seq(R)
      /\ \A x : x \in Range(a) <=> \E f \in Range(approved) : x \in Range(Of(f))
  <2> HIDE DEF Of, R
  <2>1. ss \in Seq(Seq(R)) /\ DOMAIN ss = 1 .. n /\ \A k \in 1 .. n : ss[k] = Of(approved[k])
    BY <1>1, <1>3
  <2> HIDE DEF ss, n
  <2>2. Chained(ss) \in Seq(R) /\ Range(Chained(ss)) = UNION {Range(ss[k]) : k \in DOMAIN ss}
    BY <2>1, ChainedIs
  <2>3. Range(approved) = {approved[k] : k \in 1 .. n}
    BY <1>1 DEF Range
  <2>4. \A x : x \in Range(Chained(ss)) <=> \E k \in 1 .. n : x \in Range(Of(approved[k]))
    BY <2>1, <2>2
  <2> QED BY <2>2, <2>3, <2>4
<1>5. /\ b \in Seq(R)
      /\ \A o \in U : Range(obs[o].said) \subseteq Range(b)
      /\ Silences(obs) => \A x \in Range(b) : \E o \in U : x \in Range(obs[o].said)
  <2>1. U \in SUBSET O
    BY <1>0 DEF Unapproved
  <2>2. ASSUME NEW o \in U
        PROVE  /\ Text(o) \in Seq(R) /\ Range(obs[o].said) \subseteq Range(Text(o))
               /\ Silences(obs) => Range(Text(o)) = Range(obs[o].said)
    <3>1. obs[o] \in Noticed(I, E, X) /\ o \in DOMAIN obs
      BY <1>0, <2>1
    <3>2. obs[o].readings \in Seq(Reading(I, E)) /\ obs[o].said \in Seq(R)
      BY <3>1 DEF Noticed
    <3>3. /\ Text(o) \in Seq(R)
          /\ \A x : x \in Range(Text(o)) <=>
                 \/ obs[o].readings # <<>> /\ x \in Range(obs[o].readings[1].refs)
                 \/ x \in Range(obs[o].said)
      BY <3>2, TextRefsAre
    <3>4. ASSUME Silences(obs), obs[o].readings # <<>> PROVE obs[o].readings[1].refs = <<>>
      <4>1. 1 \in DOMAIN obs[o].readings
        BY <3>2, <3>4
      <4>2. obs[o].readings[1] \in Range(obs[o].readings)
        BY <4>1 DEF Range
      <4> QED BY <3>1, <3>4, <4>2 DEF Silences
    <3>5. Range(<<>>) = {}
      BY DEF Range
    <3> HIDE DEF Text, R
    <3> QED BY <3>3, <3>4, <3>5
  <2>3. IsFiniteSet(B)
    <3> DEFINE textOf == [o \in U |-> Text(o)]
    <3>1. B = {textOf[o] : o \in U}
      OBVIOUS
    <3>2. IsFiniteSet(U)
      BY <2>1, FS_Subset
    <3> HIDE DEF textOf, B, U
    <3> QED BY <3>1, <3>2, ImageFinite
  <2> HIDE DEF Text
  <2>4. B \in SUBSET Seq(R)
    BY <2>2
  <2>5. (\A t \in B : \E o \in U : t = Text(o)) /\ \A o \in U : Text(o) \in B
    OBVIOUS
  <2> HIDE DEF B, U
  <2> DEFINE s == SetToSeq(B)
  <2>6. s \in Seq(B) /\ Range(s) = B
    BY <2>3, SetToSeqIs
  <2> HIDE DEF s
  <2>7. s \in Seq(Seq(R))
    <3>1. ASSUME NEW S, NEW T, S \subseteq T, NEW q \in Seq(S) PROVE q \in Seq(T)
      BY <3>1
    <3>2. B \subseteq Seq(R)
      BY <2>4
    <3> QED BY <2>6, <3>1, <3>2, Zenon
  <2>8. Chained(s) \in Seq(R) /\ Range(Chained(s)) = UNION {Range(s[k]) : k \in DOMAIN s}
    <3> HIDE DEF R
    <3> QED BY <2>7, ChainedIs
  <2>9. \A x : x \in Range(Chained(s)) <=> \E t \in B : x \in Range(t)
    <3>1. (\A k \in DOMAIN s : s[k] \in B) /\ \A t \in B : \E k \in DOMAIN s : t = s[k]
      BY <2>6 DEF Range
    <3> QED BY <2>8, <3>1
  <2>10. \A x : x \in Range(Chained(s)) <=> \E o \in U : x \in Range(Text(o))
    BY <2>5, <2>9
  <2> QED BY <2>2, <2>8, <2>10 DEF s
<1> HIDE DEF a, b, R, Of
<1>6. a \o b \in Seq(R) /\ Range(a \o b) = Range(a) \cup Range(b)
  BY <1>4, <1>5, ConcatIs
<1>7. \A f \in Range(approved) : f \in Approved(I, O) /\ f.oid \in DOMAIN obs
  BY <1>0, <1>1 DEF Range, Approved
<1>8. DOMAIN obs = U \cup {f.oid : f \in Range(approved)}
  BY <1>7 DEF Unapproved, Range
<1> HIDE DEF U
<1>9. IdsBehind(obs, approved) \subseteq {r.aid : r \in Range(a \o b)}
  <2> SUFFICES ASSUME NEW f \in Range(approved), NEW y \in Range(obs[f.oid].audit)
               PROVE  \E r \in Range(a \o b) : r.aid = y
    BY DEF IdsBehind
  <2>1. PICK x \in Range(Of(f)) : x.aid = y
    BY <1>3, <1>7
  <2> QED BY <1>4, <1>6, <2>1
<1>10. IdsNamed(obs) \subseteq {r.aid : r \in Range(a \o b)}
  <2> SUFFICES ASSUME NEW o \in DOMAIN obs, NEW r \in Range(obs[o].said) PROVE r \in Range(a \o b)
    BY DEF IdsNamed
  <2>1. CASE o \in U
    BY <1>5, <1>6, <2>1
  <2>2. ASSUME NEW f \in Range(approved), o = f.oid PROVE r \in Range(a \o b)
    BY <1>3, <1>4, <1>6, <1>7, <2>2
  <2> QED BY <1>8, <2>1, <2>2
<1>11. ASSUME Silences(obs)
       PROVE  {r.aid : r \in Range(a \o b)} \subseteq IdsBehind(obs, approved) \cup IdsNamed(obs)
  <2> SUFFICES ASSUME NEW r \in Range(a \o b)
               PROVE  r.aid \in IdsBehind(obs, approved) \/ r.aid \in IdsNamed(obs)
    OBVIOUS
  <2>1. ASSUME NEW o \in DOMAIN obs, r \in Range(obs[o].said) PROVE r.aid \in IdsNamed(obs)
    BY <2>1 DEF IdsNamed
  <2>2. CASE r \in Range(b)
    BY <1>5, <1>8, <1>11, <2>1, <2>2
  <2>3. CASE r \in Range(a)
    <3>1. PICK f \in Range(approved) : r \in Range(Of(f))
      BY <1>4, <2>3
    <3>2. r.aid \in Range(obs[f.oid].audit) \/ r \in Range(obs[f.oid].said)
      BY <1>3, <1>7, <1>11, <3>1
    <3>3. r.aid \in Range(obs[f.oid].audit) => r.aid \in IdsBehind(obs, approved)
      BY DEF IdsBehind
    <3> QED BY <1>7, <2>1, <3>2, <3>3
  <2> QED BY <1>6, <2>2, <2>3
<1> QED BY <1>2, <1>6, <1>9, <1>10, <1>11 DEF Refers, R

\* Nothing is broken when every reference can be resolved, and only then.
LEMMA BrokenIs ==
    ASSUME NEW R, NEW refs \in Seq(R), NEW trail
    PROVE  Broken(refs, trail) = <<>> <=>
              {r.aid : r \in Range(refs)} \subseteq AuditIndex(trail)
<1> DEFINE S == {r \in Range(refs) : r.aid \notin AuditIndex(trail)}
           s == Among(refs, S)
<1>1. Broken(refs, trail) = IF s = <<>> THEN <<>> ELSE <<s[1]>>
  BY DEF Broken, FirstOf
<1>2. s \in Seq(R) /\ Range(s) = Range(refs) \cap S
  <2> HIDE DEF S
  <2> QED BY AmongIs
<1>3. Range(refs) \cap S = S
  OBVIOUS
<1>4. S = {} <=> {r.aid : r \in Range(refs)} \subseteq AuditIndex(trail)
  OBVIOUS
<1> HIDE DEF S, s
<1>5. s = <<>> <=> Range(s) = {}
  <2>1. s = <<>> => Range(s) = {}
    BY DEF Range
  <2>2. s # <<>> => 1 \in DOMAIN s
    BY <1>2
  <2> QED BY <2>1, <2>2 DEF Range
<1>6. <<s[1]>> # <<>>
  OBVIOUS
<1> QED BY <1>1, <1>2, <1>3, <1>4, <1>5, <1>6

\* A PDF is written only when every audit id that it refers to is that of a row which
\* can be read, and is written when that is so and nothing else is missing; the
\* tools it lists are those of such rows, and a file that cannot be read says so.
\* (AuditIndex.from_dir, VerifyLinkRenderer, PdfRenderer.render, export.run)
THEOREM PdfsResolve ==
    ASSUME NEW I, NEW E, NEW X, NEW O, NEW obs \in [O -> Noticed(I, E, X)], IsFiniteSet(O), 0 \notin E,
           NEW approved \in Seq(Approved(I, O)), NEW L, NEW trail \in Seq(TrailFile(L)),
           NEW env \in [{"weasyprint", "report", "frontmatter", "draws"} -> BOOLEAN]
    PROVE  PdfLaw(obs, approved, trail, env)
<1> DEFINE rows == RowsIn(trail)
           refs == ExtractedRefs(obs, approved)
           done == ExportPdf("old", refs, trail, env)
           behind == IdsBehind(obs, approved)
           named == IdsNamed(obs)
           index == AuditIndex(trail)
<1>1. refs \in Seq(Reference(I, E)) /\ Refers(refs, obs, approved)
  <2>1. Source(I, E, X, O, obs, approved)
    BY DEF Source
  <2> QED BY <2>1, ExtractedIs
<1>2. index = {l.id : l \in rows} \ {0}
  <2> DEFINE e == TrailEntries(trail)
  <2>1. Range(e) = rows
    BY EntriesAre
  <2>2. index = {e[k].id : k \in DOMAIN e} \ {0}
    BY DEF AuditIndex
  <2> HIDE DEF e, rows
  <2>3. {e[k].id : k \in DOMAIN e} = {l.id : l \in rows}
    BY <2>1 DEF Range
  <2> QED BY <2>2, <2>3
<1>3. Broken(refs, trail) = <<>> <=> {r.aid : r \in Range(refs)} \subseteq index
  <2> HIDE DEF refs
  <2> QED BY <1>1, BrokenIs
<1>4. 0 \notin behind \cup named
  <2>1. ASSUME NEW o \in O PROVE 0 \notin Range(obs[o].audit) \cup {r.aid : r \in Range(obs[o].said)}
    <3>1. obs[o] \in Noticed(I, E, X)
      OBVIOUS
    <3>2. obs[o].audit \in Seq(E) /\ obs[o].said \in Seq(Reference(I, E))
      BY <3>1 DEF Noticed
    <3>3. \A y \in Range(obs[o].audit) : y \in E
      BY <3>2 DEF Range
    <3>4. \A r \in Range(obs[o].said) : r.aid \in E
      <4>1. \A r \in Range(obs[o].said) : r \in Reference(I, E)
        BY <3>2 DEF Range
      <4> QED BY <4>1 DEF Reference
    <3> QED BY <3>3, <3>4
  <2>2. \A f \in Range(approved) : f.oid \in O
    <3>1. \A f \in Range(approved) : f \in Approved(I, O)
      BY DEF Range
    <3> QED BY <3>1 DEF Approved
  <2>3. DOMAIN obs = O
    OBVIOUS
  <2> QED BY <2>1, <2>2, <2>3 DEF IdsBehind, IdsNamed
<1> HIDE DEF rows, refs, behind, named, index
<1>5. PdfRender(refs, trail, env) = "rendered" => Broken(refs, trail) = <<>>
  BY DEF PdfRender
<1>6. /\ done.code = 0 <=> PdfRender(refs, trail, env) = "rendered"
      /\ done.code # 0 => done.pdf = "old"
  BY DEF ExportPdf
<1> HIDE DEF done
<1>7. done.code = 0 => behind \cup named \subseteq {l.id : l \in rows}
  BY <1>1, <1>2, <1>3, <1>5, <1>6 DEF Refers, behind, named
<1>8. ASSUME Silences(obs), \A e \in DOMAIN env : env[e], behind \cup named \subseteq {l.id : l \in rows}
      PROVE  done.code = 0
  <2>1. {r.aid : r \in Range(refs)} \subseteq index
    BY <1>1, <1>2, <1>4, <1>8 DEF Refers, behind, named
  <2>2. Broken(refs, trail) = <<>>
    BY <1>3, <2>1
  <2>3. env["weasyprint"] /\ env["report"] /\ env["frontmatter"] /\ env["draws"]
    BY <1>8
  <2>4. PdfRender(refs, trail, env) = "rendered"
    BY <2>2, <2>3 DEF PdfRender
  <2> QED BY <1>6, <2>4
<1>9. Range(ToolsUsed(trail)) = {l.tool : l \in rows} \ {""}
  BY ToolsAre DEF rows
<1>10. {k \in DOMAIN trail : Appendix(trail)[k] = <<"unreadable">>}
         = {k \in DOMAIN trail : ~trail[k].readable}
  <2>1. \A k \in DOMAIN trail : Appendix(trail)[k] =
           IF trail[k].readable THEN <<"sha256", trail[k].lines>> ELSE <<"unreadable">>
    BY DEF Appendix
  <2>2. \A x : <<"sha256", x>> # <<"unreadable">>
    OBVIOUS
  <2> QED BY <2>1, <2>2
<1>12. rows = UNION {{l \in Range(trail[k].lines) : l.kind = "row" /\ trail[k].readable} :
                        k \in DOMAIN trail}
  BY DEF rows, RowsIn
<1>13. behind = UNION {Range(obs[f.oid].audit) : f \in Range(approved)}
  BY DEF behind, IdsBehind
<1>17. named = UNION {{r.aid : r \in Range(obs[o].said)} : o \in DOMAIN obs}
  BY DEF named, IdsNamed
<1>14. Silences(obs) <=> \A o \in DOMAIN obs : \A r \in Range(obs[o].readings) : r.refs = <<>>
  BY DEF Silences
<1>15. done = ExportPdf("old", ExtractedRefs(obs, approved), trail, env)
  BY DEF done, refs
<1>16. Range(ToolsUsed(trail)) = {l.tool : l \in rows} \ {""}
  BY <1>9
<1> QED BY <1>6, <1>7, <1>8, <1>10, <1>12, <1>13, <1>14, <1>15, <1>16, <1>17, Zenon DEF PdfLaw

\* What the run's inputs to the report are: observations read at most once, findings
\* about them, detections, rows of audit ids, and what a claim cites.
TagNames == {"a", "b", "s", "t", "x"}
Seen == [1 .. 2 -> Noticed(Nat, 1 .. 2, {"ip", "md5"})]
Found == Seq(Approved(Nat, 1 .. 2))
Shown == [shows : {{}, {"presence"}, {"execution"}, {"memory"}}, stamps : SUBSET Stamp(Nat)]
EachOnce(obs) == \A o \in 1 .. 2 : \A r, s \in Range(obs[o].readings) : r.iid = s.iid => r = s

ReportInput ==
    /\ input.law = "claims" => input.obs \in Seen /\ input.approved \in Found
    /\ input.law = "summary" => /\ input.obs \in Seen /\ input.approved \in Found
                                /\ input.limit \in Nat /\ EachOnce(input.obs)
    /\ input.law = "techniques" => input.records \in Seq(Record(1 .. 2, TagNames))
    /\ input.law = "pdf" => /\ input.obs \in Seen /\ input.approved \in Found
                            /\ input.trail \in Seq(TrailFile(AuditLines))
                            /\ input.env \in [Needs -> BOOLEAN]
    /\ input.law = "tier" => input.spans \in Spans(0 .. 3)
    /\ input.law = "challenge" => input.claim.stamps \subseteq Stamp(Nat) /\ input.cited \in Seq(Shown)

LEMMA SequenceWidens ==
    ASSUME NEW S, NEW T, S \subseteq T, NEW q \in Seq(S)
    PROVE  q \in Seq(T)
OBVIOUS

LEMMA FoundTyped ==
    ASSUME NEW n \in Nat, NEW approved \in About(n)
    PROVE  approved \in Found
<1> DEFINE S == [fid : 1 .. 2, oid : 1 .. 2, iid : {1}]
<1>1. approved \in BoundedSeq(S, n)
  BY DEF About
<1>2. approved \in Seq(S)
  BY <1>1, BoundedIsSeq
<1>3. S \subseteq Approved(Nat, 1 .. 2)
  BY DEF Approved
<1> HIDE DEF S
<1> QED BY <1>2, <1>3, SequenceWidens DEF Found

\* No reading, or one.
LEMMA ReadingsTyped ==
    ASSUME NEW words \in Seq(Spoken), NEW at \in Int, NEW refs \in Seq(Reference(Nat, 1 .. 2))
    PROVE  /\ ReadOnce(words, at, refs) \in Seq(Reading(Nat, 1 .. 2))
           /\ NoReading \in Seq(Reading(Nat, 1 .. 2))
<1>1. [iid |-> 1, words |-> words, at |-> at, refs |-> refs] \in Reading(Nat, 1 .. 2)
  BY DEF Reading
<1>2. ASSUME NEW S, NEW x \in S PROVE <<x>> \in Seq(S) /\ <<>> \in Seq(S)
  OBVIOUS
<1> QED BY <1>1, <1>2, Zenon DEF ReadOnce, NoReading

LEMMA SeenTyped ==
    /\ Dated \subseteq Noticed(Nat, 1 .. 2, {"ip", "md5"})
    /\ Worded \subseteq Noticed(Nat, 1 .. 2, {"ip", "md5"})
    /\ \A audits : audits \subseteq Seq(1 .. 2) => Linked(audits) \subseteq Noticed(Nat, 1 .. 2, {"ip", "md5"})
<1> DEFINE X == {"ip", "md5"}
           R == Seq(Reading(Nat, 1 .. 2))
<1>1. ASSUME NEW a \in Seq(1 .. 2), NEW n \in Seq(X), NEW r \in R, NEW s \in Seq(Reference(Nat, 1 .. 2))
      PROVE  Observed(a, n, r, s) \in Noticed(Nat, 1 .. 2, X)
  BY <1>1 DEF Observed, Noticed
<1>2. /\ <<>> \in Seq(1 .. 2) /\ <<1>> \in Seq(1 .. 2) /\ <<2, 1>> \in Seq(1 .. 2)
      /\ <<>> \in Seq(X) /\ <<"ip">> \in Seq(X) /\ <<"md5", "ip", "md5">> \in Seq(X)
      /\ <<>> \in Seq(Spoken) /\ 0 \in Int /\ 1 \in Int
      /\ <<>> \in Seq(Reference(Nat, 1 .. 2)) /\ <<[fid |-> 9, aid |-> 2]>> \in Seq(Reference(Nat, 1 .. 2))
  <2>1. [fid |-> 9, aid |-> 2] \in Reference(Nat, 1 .. 2)
    BY DEF Reference
  <2>2. ASSUME NEW S, NEW x \in S PROVE <<x>> \in Seq(S) /\ <<>> \in Seq(S)
    OBVIOUS
  <2>3. <<[fid |-> 9, aid |-> 2]>> \in Seq(Reference(Nat, 1 .. 2)) /\ <<>> \in Seq(Reference(Nat, 1 .. 2))
    BY <2>1, <2>2, Zenon
  <2> QED BY <2>3
<1>3. /\ NoReading \in R
      /\ \A w \in Seq(Spoken), at \in Int, refs \in Seq(Reference(Nat, 1 .. 2)) : ReadOnce(w, at, refs) \in R
  BY <1>2, ReadingsTyped
<1> HIDE DEF X, R
<1>4. ASSUME NEW o \in Dated PROVE o \in Noticed(Nat, 1 .. 2, X)
  <2>1. PICK a \in {<<>>, <<1>>, <<2, 1>>}, n \in {<<>>, <<"ip">>, <<"md5", "ip", "md5">>},
             r \in {NoReading, ReadOnce(<<>>, 0, <<>>), ReadOnce(<<>>, 1, <<>>)} : o = Observed(a, n, r, <<>>)
    BY <1>4 DEF Dated
  <2>2. a \in Seq(1 .. 2) /\ n \in Seq(X)
    BY <1>2
  <2>3. ReadOnce(<<>>, 0, <<>>) \in R /\ ReadOnce(<<>>, 1, <<>>) \in R
    BY <1>2, <1>3
  <2> QED BY <1>1, <1>2, <1>3, <2>1, <2>2, <2>3
<1>5. ASSUME NEW o \in Worded PROVE o \in Noticed(Nat, 1 .. 2, X)
  <2>1. PICK w \in BoundedSeq([ends : BOOLEAN], 2) : o = Observed(<<>>, <<>>, ReadOnce(w, 0, <<>>), <<>>)
    BY <1>5 DEF Worded
  <2>2. w \in Seq(Spoken)
    BY BoundedIsSeq DEF Spoken
  <2> QED BY <1>1, <1>2, <1>3, <2>1, <2>2
<1>6. ASSUME NEW audits, audits \subseteq Seq(1 .. 2), NEW o \in Linked(audits)
      PROVE  o \in Noticed(Nat, 1 .. 2, X)
  <2>1. PICK a \in audits, refs \in Wordings, said \in Wordings :
             o = Observed(a, <<>>, ReadOnce(<<>>, 0, refs), said)
    BY <1>6 DEF Linked
  <2>2. refs \in Seq(Reference(Nat, 1 .. 2)) /\ said \in Seq(Reference(Nat, 1 .. 2)) /\ a \in Seq(1 .. 2)
    BY <1>2, <1>6 DEF Wordings
  <2> QED BY <1>1, <1>2, <1>3, <2>1, <2>2
<1> QED BY <1>4, <1>5, <1>6 DEF X

LEMMA WordedOnce ==
    ASSUME NEW obs \in [1 .. 2 -> Worded]
    PROVE  EachOnce(obs)
<1> SUFFICES ASSUME NEW o \in 1 .. 2, NEW r \in Range(obs[o].readings), NEW s \in Range(obs[o].readings)
             PROVE  r = s
  BY DEF EachOnce
<1>1. PICK w : obs[o] = Observed(<<>>, <<>>, ReadOnce(w, 0, <<>>), <<>>)
  BY DEF Worded
<1>2. obs[o].readings = <<[iid |-> 1, words |-> w, at |-> 0, refs |-> <<>>]>>
  BY <1>1 DEF Observed, ReadOnce
<1>3. \A x : Range(<<x>>) = {x}
  BY DEF Range
<1> QED BY <1>2, <1>3

LEMMA ClaimsTyped ==
    ASSUME NEW obs \in [1 .. 2 -> Dated], NEW approved \in About(2),
           input = [law |-> "claims", obs |-> obs, approved |-> approved]
    PROVE  ReportInput
<1>1. obs \in Seen
  BY SeenTyped DEF Seen
<1>2. approved \in Found
  BY FoundTyped
<1>3. input.law = "claims" /\ input.obs = obs /\ input.approved = approved
  OBVIOUS
<1> QED BY <1>1, <1>2, <1>3 DEF ReportInput

LEMMA SummaryTyped ==
    ASSUME NEW obs \in [1 .. 2 -> Worded], NEW approved \in About(2), NEW limit \in 1 .. 10,
           input = [law |-> "summary", obs |-> obs, approved |-> approved, limit |-> limit]
    PROVE  ReportInput
<1>1. obs \in Seen
  BY SeenTyped DEF Seen
<1>2. approved \in Found
  BY FoundTyped
<1>3. EachOnce(obs)
  BY WordedOnce
<1>4. /\ input.law = "summary" /\ input.obs = obs /\ input.approved = approved
      /\ input.limit = limit /\ limit \in Nat
  OBVIOUS
<1> QED BY <1>1, <1>2, <1>3, <1>4 DEF ReportInput

LEMMA TechniquesTyped ==
    ASSUME NEW s \in BoundedSeq(Tags, 2), NEW t \in BoundedSeq(Tags, 2), NEW oid \in 1 .. 2,
           input = [law |-> "techniques", records |->
                      IF oid = 1 THEN <<Detections(1, <<s, t>>), Detections(1, <<>>)>>
                      ELSE <<Detections(1, <<s \o t>>), Detections(2, <<t>>)>>]
    PROVE  ReportInput
<1> DEFINE M == Mark(TagNames)
           all == IF oid = 1 THEN <<Detections(1, <<s, t>>), Detections(1, <<>>)>>
                  ELSE <<Detections(1, <<s \o t>>), Detections(2, <<t>>)>>
<1>1. s \in Seq(M) /\ t \in Seq(M) /\ s \o t \in Seq(M)
  <2>1. Tags \subseteq M
    BY DEF Tags, Tag, Mark, TagNames
  <2>2. s \in Seq(Tags) /\ t \in Seq(Tags)
    BY BoundedIsSeq
  <2> HIDE DEF M
  <2>3. s \in Seq(M) /\ t \in Seq(M)
    BY <2>1, <2>2, SequenceWidens
  <2> QED BY <2>3
<1>2. ASSUME NEW o \in 1 .. 2, NEW spans \in Seq(Seq(M))
      PROVE  Detections(o, spans) \in Record(1 .. 2, TagNames)
  BY <1>2 DEF Detections, Record
<1> DEFINE Q == Record(1 .. 2, TagNames)
<1>3. \A x, y \in Seq(M) : <<x, y>> \in Seq(Seq(M)) /\ <<x>> \in Seq(Seq(M))
  <2> HIDE DEF M
  <2> QED OBVIOUS
<1> HIDE DEF M
<1>4. /\ Detections(1, <<>>) \in Q /\ Detections(1, <<s, t>>) \in Q /\ Detections(1, <<s \o t>>) \in Q /\ Detections(2, <<t>>) \in Q
  <2>1. <<>> \in Seq(Seq(M)) /\ <<s, t>> \in Seq(Seq(M)) /\ <<s \o t>> \in Seq(Seq(M)) /\ <<t>> \in Seq(Seq(M))
    <3>1. <<>> \in Seq(Seq(M))
      OBVIOUS
    <3> QED BY <1>1, <1>3, <3>1, Zenon
  <2>2. 1 \in 1 .. 2 /\ 2 \in 1 .. 2
    OBVIOUS
  <2> QED BY <1>2, <2>1, <2>2, Zenon
<1>5. ASSUME NEW S, NEW x \in S, NEW y \in S PROVE <<x>> \in Seq(S) /\ <<x, y>> \in Seq(S)
  OBVIOUS
<1> HIDE DEF Q
<1>6. all \in Seq(Q)
  BY <1>4, <1>5
<1> HIDE DEF all
<1>7. input = [law |-> "techniques", records |-> all]
  BY DEF all
<1>8. input.law = "techniques" /\ input.records = all
  BY <1>7
<1> QED BY <1>6, <1>8 DEF ReportInput, Q

FirstIds == {<<>>, <<1>>, <<1, 2>>}
SecondIds == {<<1>>}

LEMMA PdfTyped ==
    ASSUME NEW obs \in Linked(FirstIds) \X Linked(SecondIds), NEW approved \in About(1),
           NEW trail \in Trails, NEW missing \in SUBSET Needs,
           input = [law |-> "pdf", obs |-> obs, approved |-> approved, trail |-> trail,
                    env |-> [n \in Needs |-> n \notin missing]]
    PROVE  ReportInput
<1> DEFINE V == Noticed(Nat, 1 .. 2, {"ip", "md5"})
           env == [n \in Needs |-> n \notin missing]
           F == TrailFile(AuditLines)
<1>1. obs \in Seen
  <2>1. FirstIds \subseteq Seq(1 .. 2) /\ SecondIds \subseteq Seq(1 .. 2)
    BY DEF FirstIds, SecondIds
  <2>2. Linked(FirstIds) \subseteq V /\ Linked(SecondIds) \subseteq V
    BY <2>1, SeenTyped, Zenon
  <2> HIDE DEF V
  <2>3. obs \in V \X V
    BY <2>2
  <2>4. obs \in [1 .. 2 -> V]
    BY <2>3
  <2> QED BY <2>4 DEF Seen, V
<1>2. approved \in Found
  BY FoundTyped
<1>3. env \in [Needs -> BOOLEAN]
  OBVIOUS
<1>4. trail \in Seq(F)
  <2> DEFINE B == BOOLEAN
             K == BoundedSeq(AuditLines, 2)
             One(b, l, f) == <<AuditFile(b, l)>> \o f
             more == {<<>>} \cup {<<AuditFile(c, <<[kind |-> "row", id |-> 2, tool |-> "u"]>>)>> : c \in BOOLEAN}
  <2>a. Trails = {One(b, l, f) : b \in B, l \in K, f \in more}
    BY DEF Trails
  <2> HIDE DEF B, K, One, more
  <2>b. \E b \in B, l \in K, f \in more : trail = One(b, l, f)
    BY <2>a
  <2>1. PICK b \in B, l \in K, f \in more : trail = <<AuditFile(b, l)>> \o f
    BY <2>b, Zenon DEF One
  <2>2. l \in Seq(AuditLines)
    BY BoundedIsSeq DEF K
  <2>3. <<[kind |-> "row", id |-> 2, tool |-> "u"]>> \in Seq(AuditLines)
    <3>1. [kind |-> "row", id |-> 2, tool |-> "u"] \in AuditLines
      BY DEF AuditLines
    <3>2. ASSUME NEW S, NEW x \in S PROVE <<x>> \in Seq(S)
      OBVIOUS
    <3> QED BY <3>1, <3>2, Zenon
  <2>4. \A c \in BOOLEAN, q \in Seq(AuditLines) : AuditFile(c, q) \in F
    BY DEF AuditFile, TrailFile
  <2> HIDE DEF F
  <2>5. \A x \in F : <<x>> \in Seq(F)
    OBVIOUS
  <2>6. <<AuditFile(b, l)>> \in Seq(F)
    BY <2>2, <2>4, <2>5 DEF B
  <2>7. f \in Seq(F)
    <3>1. <<>> \in Seq(F)
      OBVIOUS
    <3> QED BY <2>3, <2>4, <2>5, <3>1 DEF more
  <2> QED BY <2>1, <2>6, <2>7
<1> HIDE DEF env, V, F
<1>5. input = [law |-> "pdf", obs |-> obs, approved |-> approved, trail |-> trail, env |-> env]
  BY DEF env
<1>6. /\ input.law = "pdf" /\ input.obs = obs /\ input.approved = approved
      /\ input.trail = trail /\ input.env = env
  BY <1>5
<1> QED BY <1>1, <1>2, <1>3, <1>4, <1>6 DEF ReportInput, F

LEMMA TierTyped ==
    ASSUME NEW spans, NEW index,
           spans \in BoundedSeq([record : 1 .. 3, wellformed : {TRUE}]
                                   \cup {[record |-> 0, wellformed |-> FALSE]}, 3),
           input = [law |-> "tier", spans |-> spans, index |-> index]
    PROVE  ReportInput
<1> DEFINE S == [record : 1 .. 3, wellformed : {TRUE}] \cup {[record |-> 0, wellformed |-> FALSE]}
           T == [record : 0 .. 3, wellformed : BOOLEAN]
<1>1. S \subseteq T
  <2>1. [record : 1 .. 3, wellformed : {TRUE}] \subseteq T
    <3>1. ASSUME NEW A, NEW B, A \subseteq B, NEW C, NEW D, C \subseteq D
          PROVE  [record : A, wellformed : C] \subseteq [record : B, wellformed : D]
      BY <3>1
    <3>2. 1 .. 3 \subseteq 0 .. 3
      OBVIOUS
    <3>3. {TRUE} \subseteq BOOLEAN
      OBVIOUS
    <3> QED BY <3>1, <3>2, <3>3, Zenon
  <2>2. [record |-> 0, wellformed |-> FALSE] \in T
    OBVIOUS
  <2> QED BY <2>1, <2>2
<1>2. spans \in BoundedSeq(S, 3)
  OBVIOUS
<1> HIDE DEF S, T
<1>3. spans \in Seq(T)
  BY <1>1, <1>2, BoundedIsSeq, SequenceWidens
<1>4. input.law = "tier" /\ input.spans = spans
  OBVIOUS
<1> QED BY <1>3, <1>4 DEF ReportInput, Spans, T

LEMMA StampsTyped == Stamps \subseteq Stamp(Nat)
<1>1. {<<1>>, <<1, 1>>, <<1, 1, 1>>, <<1, 1, 2>>, <<2>>} \subseteq {q \in Seq(Nat) : Len(q) \in 1 .. 3}
  OBVIOUS
<1> QED BY <1>1 DEF Stamps, Stamp

LEMMA ChallengeTyped ==
    ASSUME NEW e, NEW r, NEW s \in OneStamp,
           NEW first \in {<<>>} \cup {<<c>> : c \in Cited(OneStamp)},
           NEW second \in {<<>>} \cup {<<c>> : c \in Cited({{}})},
           input = [law |-> "challenge", claim |-> [execution |-> e, running |-> r, stamps |-> s],
                    cited |-> first \o second]
    PROVE  ReportInput
<1>1. \A x \in OneStamp : x \subseteq Stamp(Nat)
  BY StampsTyped DEF OneStamp
<1>2. Cited(OneStamp) \subseteq Shown /\ Cited({{}}) \subseteq Shown
  BY <1>1 DEF Cited, Shown
<1>3. first \in Seq(Shown) /\ second \in Seq(Shown)
  <2>1. \A x \in Shown : <<x>> \in Seq(Shown) /\ <<>> \in Seq(Shown)
    OBVIOUS
  <2>2. <<>> \in Seq(Shown)
    OBVIOUS
  <2> QED BY <1>2, <2>1, <2>2
<1>4. first \o second \in Seq(Shown)
  BY <1>3
<1>5. input.law = "challenge" /\ input.claim.stamps = s /\ input.cited = first \o second
  OBVIOUS
<1> QED BY <1>1, <1>4, <1>5 DEF ReportInput

LEMMA ReportInputInit == Inputs => ReportInput
<1> SUFFICES ASSUME Inputs PROVE ReportInput
  OBVIOUS
<1>1. CASE EvidenceInputs
  BY <1>1 DEF EvidenceInputs, ReportInput
<1>2. CASE ReportInputs
  BY <1>2, ClaimsTyped, SummaryTyped, TechniquesTyped, PdfTyped DEF ReportInputs, FirstIds, SecondIds
<1>3. CASE FindingInputs
  BY <1>3, TierTyped, ChallengeTyped DEF FindingInputs
<1>4. CASE PrepareInputs \/ AccuracyInputs \/ GateInputs \/ ListingInputs \/ PinsInputs \/ input = [law |-> "download"]
  BY <1>4 DEF PrepareInputs, AccuracyInputs, GateInputs, ListingInputs, PinsInputs, ReportInput
<1> QED BY <1>1, <1>2, <1>3, <1>4 DEF Inputs

\* The run's reading of all six: what report.md and its PDF draw from the approved
\* claims is what they are, and a finding's tier and challenges are what its
\* citations bear out.
THEOREM ReportHolds == Spec => []ReportIsBorneOut
<1>1. Init => ReportInput
  BY ReportInputInit DEF Init
<1>2. ReportInput /\ [Next]_<<input, dvars>> => ReportInput'
  BY DEF Next, ReportInput, EachOnce
<1>3. ReportInput => ReportIsBorneOut
  <2> SUFFICES ASSUME ReportInput PROVE ReportIsBorneOut
    OBVIOUS
  <2>1. input.law = "summary" => SummaryLaw(input.obs, input.approved, input.limit)
    BY SummariesAreWhole DEF ReportInput, Seen, Found, EachOnce
  <2>2. input.law = "claims" => ClaimsLaw(input.obs, input.approved)
    BY ClaimsAreAllTold DEF ReportInput, Seen, Found
  <2>3. input.law = "techniques" => TechniquesLaw(input.records)
    BY TechniquesAreCarried DEF ReportInput
  <2>4. input.law = "pdf" => PdfLaw(input.obs, input.approved, input.trail, input.env)
    <3>1. 0 \notin 1 .. 2
      OBVIOUS
    <3>2. IsFiniteSet(1 .. 2)
      <4>1. 1 \in Int /\ 2 \in Int
        OBVIOUS
      <4> QED BY <4>1, FS_Interval
    <3> QED BY <3>1, <3>2, PdfsResolve DEF ReportInput, Seen, Found, Needs
  <2>5. input.law = "tier" => TierLaw(input.spans, input.index)
    BY TiersAreEarned DEF ReportInput
  <2>6. input.law = "challenge" => ChallengeLaw(input.claim, input.cited)
    <3>1. \A x \in Shown : x.stamps \subseteq Stamp(Nat)
      BY DEF Shown
    <3> QED BY <3>1, ChallengesAreBorneOut DEF ReportInput
  <2> QED BY <2>1, <2>2, <2>3, <2>4, <2>5, <2>6 DEF ReportIsBorneOut
<1> QED BY <1>1, <1>2, <1>3, PTL DEF Spec

-----------------------------------------------------------------------------
(* What prepare extracts and registers (Preparation) *)

\* What comes of copies under paths P with contents C, and what they leave behind
\* when each path has its one.
Tried(P, C) == [path : P, got : SUBSET C]
Lies(P, C) == [path : P, content : C]
CopiesOf(E) == UNION {{[path |-> w.path, content |-> x] : x \in w.got} : w \in E}
OneEach(files) == \A f, g \in files : f.path = g.path => f = g

LEMMA CopiesAre ==
    ASSUME NEW P, NEW C, NEW es \in Seq(Tried(P, C))
    PROVE  /\ Walked(es, {}, Copy) \in SUBSET Lies(P, C)
           /\ OneEach(Range(es)) => Walked(es, {}, Copy) = CopiesOf(Range(es))
<1> DEFINE N == Len(es)
           A == SUBSET Lies(P, C)
           first == {}
           To(n, x) == Copy(x, es[n])
<1>0. DOMAIN es = 1 .. N /\ \A n \in 1 .. N : es[n] \in Tried(P, C)
  OBVIOUS
<1>1. N \in Nat /\ first \in A
  OBVIOUS
<1>2. \A n \in 1 .. N, x \in A : To(n, x) \in A
  BY <1>0 DEF Copy, Tried, Lies
<1>3. Walked(es, {}, Copy) = (CHOOSE h : h = [n \in 0 .. N |-> IF n = 0 THEN first ELSE To(n, h[n - 1])])[N]
  BY DEF Walked
<1> HIDE DEF N, A, first, To
<1> DEFINE step == [x \in (1 .. N) \X A |-> To(x[1], x[2])]
           Walk(h) == h = [n \in 0 .. N |-> IF n = 0 THEN first ELSE To(n, h[n - 1])]
           c == CHOOSE h : Walk(h)
<1>4. step \in [(1 .. N) \X A -> A]
  BY <1>2
<1>5. PICK g \in [0 .. N -> A] : Iterates(g, N, first, step)
  <2> HIDE DEF step
  <2> QED BY <1>1, <1>4, RecursionExists
<1>6. Walk(g)
  <2>1. ASSUME NEW n \in 0 .. N PROVE g[n] = IF n = 0 THEN first ELSE To(n, g[n - 1])
    <3>1. CASE n = 0
      BY <1>5, <3>1 DEF Iterates
    <3>2. CASE n # 0
      <4>1. n \in 1 .. N /\ n - 1 \in 0 .. N
        BY <1>1, <3>2
      <4>2. g[n] = step[<<n, g[n - 1]>>]
        BY <1>5, <4>1 DEF Iterates
      <4> QED BY <3>2, <4>1, <4>2
    <3> QED BY <3>1, <3>2
  <2> QED BY <2>1
<1>7. Walk(c)
  <2> HIDE DEF Walk
  <2> QED BY <1>6
<1> HIDE DEF c
<1>8. c[0] = first /\ \A n \in 1 .. N : c[n] = To(n, c[n - 1])
  <2>1. \A n \in 0 .. N : c[n] = IF n = 0 THEN first ELSE To(n, c[n - 1])
    BY <1>7, Zenon
  <2> QED BY <1>1, <2>1
<1>9. c \in [0 .. N -> A]
  <2> DEFINE Typed == {n \in 0 .. N : c[n] \in A}
  <2>1. 0 \in Typed
    BY <1>1, <1>8
  <2>2. ASSUME NEW n \in 0 .. N, n \in Typed, n < N PROVE n + 1 \in Typed
    <3>1. n + 1 \in 1 .. N /\ (n + 1) - 1 = n
      BY <1>1, <2>2
    <3>2. c[n + 1] = To(n + 1, c[n])
      BY <1>8, <3>1
    <3> QED BY <1>1, <1>2, <2>2, <3>1, <3>2
  <2>3. 0 .. N \subseteq Typed
    <3> HIDE DEF Typed
    <3> QED BY <1>1, <2>1, <2>2, IntervalInduction
  <2>4. c = [n \in 0 .. N |-> c[n]]
    BY <1>7, Zenon
  <2> QED BY <2>3, <2>4
<1>10. Walked(es, {}, Copy) = c[N]
  BY <1>3, Zenon DEF c
<1> DEFINE Past(n) == {es[j] : j \in 1 .. n}
           G == {n \in 0 .. N : c[n] = CopiesOf(Past(n))}
<1>11. ASSUME OneEach(Range(es)) PROVE 0 .. N \subseteq G
  <2>1. 0 \in G
    BY <1>1, <1>8 DEF CopiesOf, first
  <2>2. ASSUME NEW n \in 0 .. N, n \in G, n < N PROVE n + 1 \in G
    <3>1. n + 1 \in 1 .. N /\ (n + 1) - 1 = n /\ 1 .. n + 1 = (1 .. n) \cup {n + 1}
      BY <1>1, <2>2
    <3> DEFINE w == es[n + 1]
               new == {[path |-> w.path, content |-> x] : x \in w.got}
               old == CopiesOf(Past(n))
    <3>2. c[n + 1] = {f \in old : f.path # w.path} \cup new
      BY <1>8, <2>2, <3>1 DEF To, Copy
    <3>3. Past(n + 1) = Past(n) \cup {w}
      BY <3>1
    <3>4. CopiesOf(Past(n + 1)) = old \cup new
      BY <3>3 DEF CopiesOf
    <3>5. ASSUME NEW f \in old, f.path = w.path PROVE f \in new
      <4>1. PICK v \in Past(n) : \E x \in v.got : f = [path |-> v.path, content |-> x]
        BY DEF CopiesOf
      <4>2. v \in Range(es) /\ w \in Range(es)
        BY <1>0, <1>1, <2>2, <3>1, <4>1 DEF Range
      <4>3. v = w
        BY <1>11, <3>5, <4>1, <4>2 DEF OneEach
      <4>4. f \in {[path |-> v.path, content |-> x] : x \in v.got}
        BY <4>1
      <4> QED BY <4>3, <4>4
    <3> HIDE DEF w, new, old, Past
    <3>6. c[n + 1] = old \cup new
      BY <3>2, <3>5
    <3>7. n + 1 \in 0 .. N
      BY <1>1, <3>1
    <3>8. c[n + 1] = CopiesOf(Past(n + 1))
      BY <3>4, <3>6
    <3> QED BY <3>7, <3>8
  <2> HIDE DEF G
  <2> QED BY <1>1, <2>1, <2>2, IntervalInduction
<1>12. Past(N) = Range(es)
  BY <1>0 DEF Range
<1>13. c[N] \in SUBSET Lies(P, C)
  BY <1>1, <1>9 DEF A
<1> HIDE DEF Past
<1> QED BY <1>1, <1>10, <1>11, <1>12, <1>13

\* registering takes in every file in turn, keeps what is registered, and fails
\* only on a file that is missing or has changed.
Registry(P, C) == {reg \in SUBSET Lies(P, C) : OneEach(reg)}
Missed(files) == \E f \in files : f.content = <<>>
Solid(files) == {f \in files : f.content # <<>>}

\* r is what registering the files comes to.
Registers(reg, files, r) ==
    /\ r.registry \subseteq reg \cup Solid(files)
    /\ r.exit = 0 => r.registry = reg \cup files /\ ~Missed(files)
    /\ ~Missed(files) /\ OneEach(reg \cup files) => r.exit = 0

LEMMA RegisteredIs ==
    ASSUME NEW P, NEW C, NEW reg \in Registry(P, C), NEW files \in Seq(Lies(P, C))
    PROVE  /\ RegisterAll(reg, files) \in [registry : Registry(P, C), exit : 0 .. 2]
           /\ Registers(reg, Range(files), RegisterAll(reg, files))
<1> DEFINE N == Len(files)
           A == [registry : Registry(P, C), exit : 0 .. 2]
           first == [registry |-> reg, exit |-> 0]
           To(n, x) == RegisterOne(x, files[n])
<1>0. DOMAIN files = 1 .. N /\ \A n \in 1 .. N : files[n] \in Lies(P, C)
  OBVIOUS
<1>1. N \in Nat /\ first \in A
  OBVIOUS
<1>a. ASSUME NEW x \in A, NEW file \in Lies(P, C)
      PROVE  /\ RegisterOne(x, file) \in A
             /\ RegisterOne(x, file).registry \subseteq
                   x.registry \cup (IF file.content = <<>> THEN {} ELSE {file})
             /\ RegisterOne(x, file).exit = 0 =>
                   /\ x.exit = 0 /\ file.content # <<>>
                   /\ RegisterOne(x, file).registry = x.registry \cup {file}
             /\ x.exit = 0 /\ file.content # <<>> /\ OneEach(x.registry \cup {file}) =>
                   RegisterOne(x, file).exit = 0
  <2> DEFINE r == RegisterOne(x, file)
             known == {y \in x.registry : y.path = file.path}
  <2>1. /\ x = [registry |-> x.registry, exit |-> x.exit] /\ x.registry \in Registry(P, C)
        /\ x.exit \in 0 .. 2
    OBVIOUS
  <2>2. x.registry \in SUBSET Lies(P, C) /\ OneEach(x.registry)
    BY <2>1 DEF Registry
  <2>3. CASE x.exit # 0
    <3>1. r = x
      BY <2>3 DEF RegisterOne
    <3> QED BY <2>1, <2>3, <3>1
  <2>4. CASE x.exit = 0 /\ file.content = <<>>
    <3>1. r = [x EXCEPT !.exit = 1]
      BY <2>4 DEF RegisterOne
    <3>2. r \in A /\ r.exit = 1 /\ r.registry = x.registry
      BY <2>1, <3>1
    <3> QED BY <2>1, <2>4, <3>2
  <2>5. CASE x.exit = 0 /\ file.content # <<>> /\ known = {}
    <3>1. r = [x EXCEPT !.registry = @ \cup {file}]
      BY <2>5 DEF RegisterOne
    <3>2. r.exit = 0 /\ r.registry = x.registry \cup {file}
          /\ r = [registry |-> x.registry \cup {file}, exit |-> 0]
      BY <2>1, <2>5, <3>1
    <3>3. x.registry \cup {file} \in Registry(P, C)
      BY <2>2, <2>5 DEF Registry, OneEach
    <3>4. r \in A
      BY <3>2, <3>3
    <3> QED BY <2>5, <3>2, <3>4
  <2>6. CASE x.exit = 0 /\ file.content # <<>> /\ known # {} /\ \E y \in known : y.content # file.content
    <3>1. r = [x EXCEPT !.exit = 2]
      BY <2>6 DEF RegisterOne
    <3>2. r.exit = 2 /\ r.registry = x.registry /\ r \in A
      BY <2>1, <3>1
    <3>3. ~OneEach(x.registry \cup {file})
      BY <2>6 DEF OneEach
    <3> HIDE DEF known
    <3> QED BY <2>6, <3>2, <3>3
  <2>7. CASE x.exit = 0 /\ file.content # <<>> /\ known # {} /\ ~\E y \in known : y.content # file.content
    <3>1. r = x
      BY <2>7 DEF RegisterOne
    <3>2. file \in x.registry
      <4>1. PICK y \in x.registry : y.path = file.path /\ y.content = file.content
        BY <2>7
      <4>2. y \in Lies(P, C)
        BY <2>2, <4>1
      <4>3. y = file
        BY <4>1, <4>2 DEF Lies
      <4> QED BY <4>1, <4>3
    <3> QED BY <2>1, <2>7, <3>1, <3>2
  <2> HIDE DEF known
  <2> QED BY <2>1, <2>3, <2>4, <2>5, <2>6, <2>7
<1>2. \A n \in 1 .. N, x \in A : To(n, x) \in A
  BY <1>0, <1>a
<1>3. RegisterAll(reg, files) =
        (CHOOSE h : h = [n \in 0 .. N |-> IF n = 0 THEN first ELSE To(n, h[n - 1])])[N]
  BY DEF RegisterAll, Walked
<1> DEFINE Brings(x, f, r) ==
             /\ r.registry \subseteq x.registry \cup (IF f.content = <<>> THEN {} ELSE {f})
             /\ r.exit = 0 => x.exit = 0 /\ f.content # <<>> /\ r.registry = x.registry \cup {f}
             /\ x.exit = 0 /\ f.content # <<>> /\ OneEach(x.registry \cup {f}) => r.exit = 0
<1>b. \A n \in 1 .. N, x \in A : Brings(x, files[n], To(n, x))
  BY <1>0, <1>a
<1>c. first.registry = reg /\ first.exit = 0
  OBVIOUS
<1> HIDE DEF N, A, first, To, Brings
<1> DEFINE step == [x \in (1 .. N) \X A |-> To(x[1], x[2])]
           Walk(h) == h = [n \in 0 .. N |-> IF n = 0 THEN first ELSE To(n, h[n - 1])]
           c == CHOOSE h : Walk(h)
<1>4. step \in [(1 .. N) \X A -> A]
  BY <1>2
<1>5. PICK g \in [0 .. N -> A] : Iterates(g, N, first, step)
  <2> HIDE DEF step
  <2> QED BY <1>1, <1>4, RecursionExists
<1>6. Walk(g)
  <2>1. ASSUME NEW n \in 0 .. N PROVE g[n] = IF n = 0 THEN first ELSE To(n, g[n - 1])
    <3>1. CASE n = 0
      BY <1>5, <3>1 DEF Iterates
    <3>2. CASE n # 0
      <4>1. n \in 1 .. N /\ n - 1 \in 0 .. N
        BY <1>1, <3>2
      <4>2. g[n] = step[<<n, g[n - 1]>>]
        BY <1>5, <4>1 DEF Iterates
      <4> QED BY <3>2, <4>1, <4>2
    <3> QED BY <3>1, <3>2
  <2> QED BY <2>1
<1>7. Walk(c)
  <2> HIDE DEF Walk
  <2> QED BY <1>6
<1> HIDE DEF c
<1>8. c[0] = first /\ \A n \in 1 .. N : c[n] = To(n, c[n - 1])
  <2>1. \A n \in 0 .. N : c[n] = IF n = 0 THEN first ELSE To(n, c[n - 1])
    BY <1>7, Zenon
  <2> QED BY <1>1, <2>1
<1>9. c \in [0 .. N -> A]
  <2> DEFINE Typed == {n \in 0 .. N : c[n] \in A}
  <2>1. 0 \in Typed
    BY <1>1, <1>8
  <2>2. ASSUME NEW n \in 0 .. N, n \in Typed, n < N PROVE n + 1 \in Typed
    <3>1. n + 1 \in 1 .. N /\ (n + 1) - 1 = n
      BY <1>1, <2>2
    <3>2. c[n + 1] = To(n + 1, c[n])
      BY <1>8, <3>1
    <3> QED BY <1>1, <1>2, <2>2, <3>1, <3>2
  <2>3. 0 .. N \subseteq Typed
    <3> HIDE DEF Typed
    <3> QED BY <1>1, <2>1, <2>2, IntervalInduction
  <2>4. c = [n \in 0 .. N |-> c[n]]
    BY <1>7, Zenon
  <2> QED BY <2>3, <2>4
<1>10. RegisterAll(reg, files) = c[N]
  BY <1>3, Zenon DEF c
<1> DEFINE Past(n) == {files[j] : j \in 1 .. n}
           Grown(n) == c[n].registry \subseteq reg \cup Solid(Past(n))
           Whole(n) == c[n].exit = 0 => c[n].registry = reg \cup Past(n) /\ ~Missed(Past(n))
           Passed(n) == ~Missed(Past(n)) /\ OneEach(reg \cup Past(n)) => c[n].exit = 0
           G == {n \in 0 .. N : Grown(n) /\ Whole(n) /\ Passed(n)}
<1>11. 0 \in G
  <2>1. Past(0) = {}
    OBVIOUS
  <2> HIDE DEF Past
  <2> QED BY <1>1, <1>8, <1>c, <2>1 DEF Missed, Solid
<1>12. ASSUME NEW n \in 0 .. N, n \in G, n < N PROVE n + 1 \in G
  <2>1. n + 1 \in 1 .. N /\ (n + 1) - 1 = n /\ 1 .. n + 1 = (1 .. n) \cup {n + 1}
    BY <1>1, <1>12
  <2> DEFINE w == files[n + 1]
  <2>2. c[n + 1] = To(n + 1, c[n]) /\ c[n] \in A
    BY <1>8, <1>9, <2>1
  <2>3. Past(n + 1) = Past(n) \cup {w}
    BY <2>1
  <2>4. Brings(c[n], w, c[n + 1])
    BY <1>b, <2>1, <2>2
  <2>5. Grown(n) /\ Whole(n) /\ Passed(n)
    BY <1>12
  <2> HIDE DEF w, Past
  <2>6. Grown(n + 1)
    BY <2>3, <2>4, <2>5 DEF Solid, Brings
  <2>7. Whole(n + 1)
    BY <2>3, <2>4, <2>5 DEF Missed, Brings
  <2>8. Passed(n + 1)
    <3> SUFFICES ASSUME ~Missed(Past(n + 1)), OneEach(reg \cup Past(n + 1)) PROVE c[n + 1].exit = 0
      OBVIOUS
    <3>1. ~Missed(Past(n)) /\ w.content # <<>>
      BY <2>3 DEF Missed
    <3>2. OneEach(reg \cup Past(n))
      BY <2>3 DEF OneEach
    <3>3. c[n].exit = 0 /\ c[n].registry = reg \cup Past(n)
      BY <2>5, <3>1, <3>2
    <3>4. c[n].registry \cup {w} = reg \cup Past(n + 1)
      BY <2>3, <3>3
    <3> HIDE DEF Grown, Whole, Passed
    <3> QED BY <2>4, <3>1, <3>3, <3>4 DEF Brings
  <2> HIDE DEF Grown, Whole, Passed
  <2> QED BY <2>1, <2>6, <2>7, <2>8
<1>13. 0 .. N \subseteq G
  <2> HIDE DEF G
  <2> QED BY <1>1, <1>11, <1>12, IntervalInduction
<1>14. Past(N) = Range(files)
  BY <1>0 DEF Range
<1>15. c[N] \in [registry : Registry(P, C), exit : 0 .. 2]
  BY <1>1, <1>9 DEF A
<1>16. Grown(N) /\ Whole(N) /\ Passed(N)
  <2> HIDE DEF Grown, Whole, Passed
  <2> QED BY <1>1, <1>13
<1> HIDE DEF Past
<1> QED BY <1>10, <1>14, <1>15, <1>16 DEF Registers

\* The filesystems of an image: finitely many files, each below the root, and each
\* readable in one of the four ways.
Hows == {"whole", "cut", "empty", "unreadable"}
FileSets(N) == {D \in SUBSET (Seq(N) \ {<<>>}) : IsFiniteSet(D)}
Volumes(N) == [files : UNION {[D -> Hows] : D \in FileSets(N)}, opened_by : SUBSET {"NTFS", "TSK"}]
ImageOf(N, image) ==
    /\ image.partitions \in Seq(Volumes(N))
    /\ image.partitions = <<>> => image.medium \in Volumes(N)
Entry(N) == [fs : Nat, location : Seq(N)]

LEMMA SpecsAre ==
    ASSUME NEW N, NEW image, ImageOf(N, image)
    PROVE  OpenImage(image) \in Seq(Volumes(N))
<1> DEFINE parents == IF image.partitions = <<>> THEN <<image.medium>> ELSE image.partitions
           S == {p \in Range(parents) : Among(Backends, p.opened_by) # <<>>}
<1>1. parents \in Seq(Volumes(N))
  <2> DEFINE V == Volumes(N)
  <2>1. image.partitions \in Seq(V) /\ (image.partitions = <<>> => image.medium \in V)
    BY DEF ImageOf
  <2>2. CASE image.partitions = <<>>
    <3>1. image.medium \in V /\ parents = <<image.medium>>
      BY <2>1, <2>2
    <3> HIDE DEF parents
    <3> QED BY <3>1
  <2> QED BY <2>1, <2>2
<1>2. OpenImage(image) = Among(parents, S)
  BY DEF OpenImage, FilesystemSpecs
<1> HIDE DEF parents, S
<1> QED BY <1>1, <1>2, AmongIs

LEMMA FrontIs ==
    ASSUME NEW N, NEW l \in Seq(N), NEW n \in 1 .. Len(l)
    PROVE  /\ SubSeq(l, 1, n) \in Seq(N) /\ SubSeq(l, 1, n) # <<>>
           /\ Front(SubSeq(l, 1, n)) = SubSeq(l, 1, n - 1)
<1> DEFINE s == SubSeq(l, 1, n)
<1>1. s \in Seq(N) /\ Len(s) = n /\ \A i \in 1 .. n : s[i] = l[i]
  OBVIOUS
<1>2. Front(s) = SubSeq(s, 1, n - 1)
  BY <1>1 DEF Front
<1> HIDE DEF s
<1>3. SubSeq(s, 1, n - 1) \in Seq(N) /\ SubSeq(l, 1, n - 1) \in Seq(N)
      /\ Len(SubSeq(s, 1, n - 1)) = n - 1 /\ Len(SubSeq(l, 1, n - 1)) = n - 1
  BY <1>1
<1>4. \A i \in 1 .. n - 1 : SubSeq(s, 1, n - 1)[i] = SubSeq(l, 1, n - 1)[i]
  BY <1>1
<1>5. SubSeq(s, 1, n - 1) = SubSeq(l, 1, n - 1)
  BY <1>3, <1>4
<1> QED BY <1>1, <1>2, <1>5 DEF s

LEMMA VolumeIs ==
    ASSUME NEW N, NEW specs \in Seq(Volumes(N)), NEW i \in DOMAIN specs
    PROVE  /\ DOMAIN specs[i].files \subseteq Seq(N) \ {<<>>} /\ IsFiniteSet(DOMAIN specs[i].files)
           /\ \A l \in DOMAIN specs[i].files : specs[i].files[l] \in Hows
           /\ Dirs(specs[i].files) \subseteq Seq(N) /\ IsFiniteSet(Dirs(specs[i].files))
           /\ \A l \in DOMAIN specs[i].files \cup Dirs(specs[i].files) :
                 l # <<>> => Front(l) \in Dirs(specs[i].files)
<1> DEFINE F == specs[i].files
           D == DOMAIN F
           Above(l) == {SubSeq(l, 1, n) : n \in 0 .. Len(l) - 1}
<1>1. specs[i] \in Volumes(N)
  OBVIOUS
<1>2. D \in FileSets(N) /\ F \in [D -> Hows]
  <2>1. PICK E \in FileSets(N) : F \in [E -> Hows]
    BY <1>1 DEF Volumes
  <2> HIDE DEF F
  <2> QED BY <2>1
<1>3. D \subseteq Seq(N) \ {<<>>} /\ IsFiniteSet(D)
  BY <1>2 DEF FileSets
<1>4. Dirs(F) = UNION {Above(l) : l \in D}
  BY DEF Dirs
<1> HIDE DEF F, D
<1>5. ASSUME NEW l \in D PROVE Above(l) \subseteq Seq(N) /\ IsFiniteSet(Above(l)) /\ Front(l) \in Above(l)
  <2>1. l \in Seq(N) /\ l # <<>> /\ Len(l) \in Nat /\ Len(l) - 1 \in 0 .. Len(l) - 1
    BY <1>3
  <2> DEFINE f == [n \in 0 .. Len(l) - 1 |-> SubSeq(l, 1, n)]
  <2>2. IsFiniteSet(0 .. Len(l) - 1)
    BY <2>1, FS_Interval
  <2>3. IsFiniteSet({f[n] : n \in 0 .. Len(l) - 1})
    <3> HIDE DEF f
    <3> QED BY <2>2, ImageFinite
  <2>4. Above(l) = {f[n] : n \in 0 .. Len(l) - 1}
    OBVIOUS
  <2>5. Front(l) = SubSeq(l, 1, Len(l) - 1)
    BY DEF Front
  <2>6. \A n \in 0 .. Len(l) - 1 : SubSeq(l, 1, n) \in Seq(N)
    BY <2>1
  <2> QED BY <2>1, <2>3, <2>4, <2>5, <2>6
<1>6. Dirs(F) \subseteq Seq(N)
  BY <1>4, <1>5
<1>7. IsFiniteSet(Dirs(F))
  <2> DEFINE f == [l \in D |-> Above(l)]
  <2>1. {Above(l) : l \in D} = {f[l] : l \in D}
    OBVIOUS
  <2>2. IsFiniteSet({f[l] : l \in D})
    <3> HIDE DEF f
    <3> QED BY <1>3, ImageFinite
  <2> HIDE DEF Above
  <2>3. \A T \in {f[l] : l \in D} : IsFiniteSet(T)
    BY <1>5
  <2> HIDE DEF f
  <2> QED BY <1>4, <2>1, <2>2, <2>3, FS_UNION
<1>8. ASSUME NEW l \in Dirs(F), l # <<>> PROVE Front(l) \in Dirs(F)
  <2>1. PICK k \in D : l \in Above(k)
    BY <1>4
  <2>2. PICK n \in 0 .. Len(k) - 1 : l = SubSeq(k, 1, n)
    BY <2>1
  <2>3. k \in Seq(N) /\ Len(k) \in Nat
    BY <1>3
  <2>4. n # 0
    <3>1. SubSeq(k, 1, 0) = <<>>
      BY <2>3
    <3> QED BY <1>8, <2>2, <3>1
  <2>5. n \in 1 .. Len(k) /\ n - 1 \in 0 .. Len(k) - 1
    BY <2>3, <2>4
  <2>6. Front(l) = SubSeq(k, 1, n - 1)
    BY <2>2, <2>3, <2>5, FrontIs
  <2>7. Front(l) \in Above(k)
    BY <2>5, <2>6
  <2> HIDE DEF Above
  <2> QED BY <1>4, <2>7
<1>9. \A l \in D : Front(l) \in Dirs(F)
  BY <1>4, <1>5
<1> QED BY <1>2, <1>3, <1>6, <1>7, <1>8, <1>9 DEF F, D

LEMMA OpenedAt ==
    ASSUME NEW N, NEW specs \in Seq(Volumes(N)), NEW l
    PROVE  OpenLocation(specs, l) \in 0 .. Len(specs)
<1> DEFINE n == Len(specs)
           S == {i \in DOMAIN specs : Has(specs[i].files, l)} \cup {n + 1}
<1>1. n \in Nat /\ S \in SUBSET Nat /\ S # {}
  OBVIOUS
<1>2. PICK m \in S : \A x \in S : m <= x
  <2> HIDE DEF S
  <2> QED BY <1>1, SmallestExists
<1>3. Min(S) \in S
  <2> HIDE DEF S
  <2> QED BY <1>2 DEF Min
<1>4. OpenLocation(specs, l) = Min(S) % (n + 1)
  BY DEF OpenLocation
<1>5. Min(S) \in Nat
  BY <1>1, <1>3
<1> HIDE DEF S, n
<1>6. Min(S) % (n + 1) \in 0 .. n
  BY <1>1, <1>5
<1> QED BY <1>4, <1>6 DEF n

\* The children of a directory on one of the filesystems.
ChildSet(N, specs, i, dir) ==
    {e \in Entry(N) : /\ i # 0 /\ e.fs = i
                      /\ e.location \in DOMAIN specs[i].files \cup Dirs(specs[i].files)
                      /\ e.location # <<>> /\ Front(e.location) = dir}

LEMMA ChildrenAre ==
    ASSUME NEW N, NEW specs \in Seq(Volumes(N)), NEW i \in 0 .. Len(specs), NEW dir
    PROVE  /\ Children(specs, i, dir) \in Seq(Entry(N))
           /\ Range(Children(specs, i, dir)) = ChildSet(N, specs, i, dir)
<1> DEFINE F == specs[i].files
           C == {l \in DOMAIN F \cup Dirs(F) : l # <<>> /\ Front(l) = dir}
           E == {[fs |-> i, location |-> l] : l \in C}
<1>1. CASE ~IsDirectory(specs, i, dir)
  <2>1. Children(specs, i, dir) = <<>>
    BY <1>1 DEF Children
  <2>2. ChildSet(N, specs, i, dir) = {}
    <3>1. CASE i = 0
      BY <3>1 DEF ChildSet
    <3>2. CASE i # 0
      <4>1. i \in DOMAIN specs
        BY <3>2
      <4>2. dir \notin Dirs(specs[i].files)
        BY <1>1, <3>2 DEF IsDirectory
      <4>3. \A l \in DOMAIN specs[i].files \cup Dirs(specs[i].files) :
                 l # <<>> => Front(l) \in Dirs(specs[i].files)
        BY <4>1, VolumeIs
      <4> QED BY <4>2, <4>3 DEF ChildSet
    <3> QED BY <3>1, <3>2
  <2>3. <<>> \in Seq(Entry(N)) /\ Range(<<>>) = {}
    BY DEF Range
  <2> QED BY <2>1, <2>2, <2>3
<1>2. CASE IsDirectory(specs, i, dir)
  <2>1. i # 0 /\ i \in DOMAIN specs
    BY <1>2 DEF IsDirectory
  <2>2. /\ DOMAIN F \subseteq Seq(N) \ {<<>>} /\ IsFiniteSet(DOMAIN F)
        /\ Dirs(F) \subseteq Seq(N) /\ IsFiniteSet(Dirs(F))
    BY <2>1, VolumeIs
  <2>3. Children(specs, i, dir) = SetToSeq(E)
    BY <1>2 DEF Children
  <2> HIDE DEF F
  <2>4. IsFiniteSet(C)
    <3>1. IsFiniteSet(DOMAIN F \cup Dirs(F))
      BY <2>2, FS_Union
    <3>2. C \in SUBSET (DOMAIN F \cup Dirs(F))
      OBVIOUS
    <3> HIDE DEF C
    <3> QED BY <3>1, <3>2, FS_Subset
  <2>5. IsFiniteSet(E)
    <3> DEFINE f == [l \in C |-> [fs |-> i, location |-> l]]
    <3>1. E = {f[l] : l \in C}
      OBVIOUS
    <3> HIDE DEF f, C
    <3> QED BY <2>4, <3>1, ImageFinite
  <2>6. E = ChildSet(N, specs, i, dir)
    <3>1. ASSUME NEW e \in E PROVE e \in ChildSet(N, specs, i, dir)
      <4>1. PICK l \in C : e = [fs |-> i, location |-> l]
        OBVIOUS
      <4>2. l \in Seq(N)
        BY <2>2
      <4>3. i \in Nat
        OBVIOUS
      <4> QED BY <2>1, <4>1, <4>2, <4>3 DEF ChildSet, Entry, F
    <3>2. ASSUME NEW e \in ChildSet(N, specs, i, dir) PROVE e \in E
      <4>1. e.location \in C /\ e.fs = i /\ e \in Entry(N)
        BY DEF ChildSet, F
      <4>2. e = [fs |-> i, location |-> e.location]
        BY <4>1 DEF Entry
      <4> QED BY <4>1, <4>2
    <3> HIDE DEF E
    <3> QED BY <3>1, <3>2
  <2>7. E \subseteq Entry(N)
    BY <2>6 DEF ChildSet
  <2> HIDE DEF E
  <2>8. /\ SetToSeq(E) \in [1 .. Cardinality(E) -> E] /\ Range(SetToSeq(E)) = E
        /\ Cardinality(E) \in Nat
    BY <2>5, SetToSeqIs
  <2>9. SetToSeq(E) \in Seq(Entry(N))
    BY <2>7, <2>8
  <2> QED BY <2>3, <2>6, <2>8, <2>9
<1> QED BY <1>1, <1>2

\* What a target asks for at a place, and what is found there.
AskedEntries(N, specs, sought, place) ==
    {e \in Entry(N) : /\ e.fs = OpenLocation(specs, place) /\ e.fs # 0
                      /\ e.location \in DOMAIN specs[e.fs].files
                      /\ AskedAt(sought, place, e.location)}
FoundAt(specs, sought, place) ==
    IF sought.kind \in {"file", "per_user"} THEN FileAt(specs, place) ELSE Globbed(specs, place)

LEMMA FoundIs ==
    ASSUME NEW N, NEW specs \in Seq(Volumes(N)), NEW sought, NEW place
    PROVE  /\ FoundAt(specs, sought, place) \in Seq(Entry(N))
           /\ Range(FoundAt(specs, sought, place)) = AskedEntries(N, specs, sought, place)
<1> DEFINE i == OpenLocation(specs, place)
           Asked == AskedEntries(N, specs, sought, place)
<1>1. i \in 0 .. Len(specs) /\ Len(specs) \in Nat
  BY OpenedAt
<1>2. ASSUME i # 0
      PROVE  i \in DOMAIN specs /\ DOMAIN specs[i].files \subseteq Seq(N) \ {<<>>}
  <2>1. i \in DOMAIN specs
    BY <1>1, <1>2
  <2> HIDE DEF i
  <2> QED BY <2>1, VolumeIs
<1>3. CASE sought.kind \in {"file", "per_user"}
  <2> DEFINE e == [fs |-> i, location |-> place]
  <2>1. FoundAt(specs, sought, place) = IF IsFile(specs, i, place) THEN <<e>> ELSE <<>>
    BY <1>3 DEF FoundAt, FileAt
  <2>2. \A l : AskedAt(sought, place, l) <=> l = place
    BY <1>3 DEF AskedAt
  <2>3. CASE IsFile(specs, i, place)
    <3>1. i # 0 /\ place \in DOMAIN specs[i].files /\ place \in Seq(N)
      BY <1>2, <2>3 DEF IsFile
    <3>2. e \in Entry(N) /\ e.fs = i /\ e.location = place
      BY <1>1, <3>1 DEF Entry
    <3>3. \A a \in Asked : a = e
      BY <2>2 DEF AskedEntries, Entry
    <3>4. e \in Asked
      BY <2>2, <3>1, <3>2 DEF AskedEntries
    <3>5. <<e>> \in Seq(Entry(N)) /\ Range(<<e>>) = {e}
      BY <3>2 DEF Range
    <3>6. Asked = {e}
      BY <3>3, <3>4
    <3> QED BY <2>1, <2>3, <3>5, <3>6
  <2>4. CASE ~IsFile(specs, i, place)
    <3>1. Asked = {}
      BY <2>2, <2>4 DEF AskedEntries, IsFile
    <3>2. <<>> \in Seq(Entry(N)) /\ Range(<<>>) = {}
      BY DEF Range
    <3> QED BY <2>1, <2>4, <3>1, <3>2
  <2> QED BY <2>3, <2>4
<1>4. CASE sought.kind \notin {"file", "per_user"}
  <2> DEFINE s == Children(specs, i, place)
             S == {x \in Range(s) : IsFile(specs, x.fs, x.location) /\ Taking(Last(x.location))}
  <2>1. FoundAt(specs, sought, place) = Among(s, S)
    BY <1>4 DEF FoundAt, Globbed, IterDir
  <2>2. s \in Seq(Entry(N)) /\ Range(s) = ChildSet(N, specs, i, place)
    <3> HIDE DEF i
    <3> QED BY <1>1, ChildrenAre
  <2>3. Among(s, S) \in Seq(Entry(N)) /\ Range(Among(s, S)) = Range(s) \cap S
    <3> HIDE DEF s, S
    <3> QED BY <2>2, AmongIs
  <2>4. Range(s) \cap S = S
    OBVIOUS
  <2>5. \A l : AskedAt(sought, place, l) <=> Front(l) = place /\ Taking(Last(l))
    BY <1>4 DEF AskedAt
  <2>6. \A e : e \in S <=> /\ e \in Entry(N) /\ i # 0 /\ e.fs = i /\ e.location \in DOMAIN specs[i].files
                           /\ e.location # <<>> /\ Front(e.location) = place
                           /\ Taking(Last(e.location))
    <3>1. \A e : e \in S <=> /\ e \in ChildSet(N, specs, i, place)
                             /\ IsFile(specs, e.fs, e.location) /\ Taking(Last(e.location))
      BY <2>2
    <3> HIDE DEF S, s, i
    <3> QED BY <3>1 DEF ChildSet, IsFile
  <2>7. \A e : e \in Asked <=> /\ e \in Entry(N) /\ i # 0 /\ e.fs = i
                               /\ e.location \in DOMAIN specs[i].files
                               /\ Front(e.location) = place /\ Taking(Last(e.location))
    <3> HIDE DEF i
    <3> QED BY <2>5 DEF AskedEntries, i
  <2> HIDE DEF S, Asked, i
  <2>8. S = Asked
    BY <1>2, <2>6, <2>7
  <2> QED BY <2>1, <2>3, <2>4, <2>8 DEF Asked
<1> QED BY <1>3, <1>4

\* The folders of the users, and where below them a file lies.
LEMMA UsersAre ==
    ASSUME NEW N, NEW specs \in Seq(Volumes(N))
    PROVE  /\ UserDirs(specs) \in Seq(Entry(N))
           /\ {u.location : u \in Range(UserDirs(specs))} = UserPlaces(specs)
<1> DEFINE i == OpenLocation(specs, Users)
           s == Children(specs, i, Users)
           S == {x \in Range(s) : IsDirectory(specs, x.fs, x.location)}
<1>1. i \in 0 .. Len(specs) /\ Len(specs) \in Nat
  BY OpenedAt
<1>2. UserDirs(specs) = Among(s, S)
  BY DEF UserDirs, IterDir
<1>3. s \in Seq(Entry(N)) /\ Range(s) = ChildSet(N, specs, i, Users)
  <2> HIDE DEF i
  <2> QED BY <1>1, ChildrenAre
<1>4. Among(s, S) \in Seq(Entry(N)) /\ Range(Among(s, S)) = Range(s) \cap S
  <2> HIDE DEF s, S
  <2> QED BY <1>3, AmongIs
<1>5. Range(s) \cap S = S
  OBVIOUS
<1>6. \A e : e \in S <=> /\ e \in Entry(N) /\ i # 0 /\ e.fs = i /\ e.location \in Dirs(specs[i].files)
                         /\ e.location # <<>> /\ Front(e.location) = Users
  <2>1. \A e : e \in S <=> e \in ChildSet(N, specs, i, Users) /\ IsDirectory(specs, e.fs, e.location)
    BY <1>3
  <2> HIDE DEF S, s, i
  <2> QED BY <2>1 DEF ChildSet, IsDirectory
<1>7. \A l : l \in UserPlaces(specs) <=>
                i # 0 /\ l \in Dirs(specs[i].files) /\ l # <<>> /\ Front(l) = Users
  BY DEF UserPlaces
<1>8. i # 0 => Dirs(specs[i].files) \subseteq Seq(N)
  <2>1. i # 0 => i \in DOMAIN specs
    BY <1>1
  <2> HIDE DEF i
  <2> QED BY <2>1, VolumeIs
<1> HIDE DEF i, S, s
<1>9. ASSUME NEW l \in UserPlaces(specs) PROVE \E u \in S : u.location = l
  <2> DEFINE u == [fs |-> i, location |-> l]
  <2>1. u \in Entry(N) /\ u.fs = i /\ u.location = l
    BY <1>1, <1>7, <1>8 DEF Entry
  <2>2. u \in S
    BY <1>6, <1>7, <2>1
  <2> QED BY <2>1, <2>2
<1>10. \A u \in S : u.location \in UserPlaces(specs)
  BY <1>6, <1>7
<1>11. {u.location : u \in S} = UserPlaces(specs)
  BY <1>9, <1>10
<1> QED BY <1>2, <1>4, <1>5, <1>11

\* The entries of a target are: those asked for at its places.
AllAsked(N, specs, sought) ==
    UNION {AskedEntries(N, specs, sought, place) : place \in Places(specs, sought)}

LEMMA TargetEntriesAre ==
    ASSUME NEW N, NEW specs \in Seq(Volumes(N)), NEW sought
    PROVE  /\ Entries(specs, sought) \in Seq(Entry(N))
           /\ Range(Entries(specs, sought)) = AllAsked(N, specs, sought)
<1> DEFINE users == UserDirs(specs)
           bases == IF sought.kind \in {"file", "dir_glob"} THEN <<sought.location>>
                    ELSE [k \in DOMAIN users |-> users[k].location \o sought.location]
           ss == [k \in DOMAIN bases |-> FoundAt(specs, sought, bases[k])]
<1>1. Entries(specs, sought) = Chained(ss)
  BY DEF Entries, EntriesOf, FoundAt
<1>2. \E n \in Nat : DOMAIN bases = 1 .. n
  <2>1. users \in Seq(Entry(N))
    BY UsersAre
  <2>2. DOMAIN users = 1 .. Len(users) /\ Len(users) \in Nat
    BY <2>1
  <2> HIDE DEF users
  <2>3. CASE sought.kind \in {"file", "dir_glob"}
    <3>1. DOMAIN bases = 1 .. 1
      BY <2>3
    <3> QED BY <3>1
  <2>4. CASE sought.kind \notin {"file", "dir_glob"}
    <3>1. DOMAIN bases = 1 .. Len(users)
      BY <2>2, <2>4
    <3> QED BY <2>2, <3>1
  <2> QED BY <2>3, <2>4
<1>3. {bases[k] : k \in DOMAIN bases} = Places(specs, sought)
  <2>1. CASE sought.kind \in {"file", "dir_glob"}
    <3>1. bases = <<sought.location>> /\ Places(specs, sought) = {sought.location}
      BY <2>1 DEF Places
    <3>2. DOMAIN <<sought.location>> = {1}
      OBVIOUS
    <3> HIDE DEF bases
    <3> QED BY <3>1, <3>2
  <2>2. CASE sought.kind \notin {"file", "dir_glob"}
    <3>1. bases = [k \in DOMAIN users |-> users[k].location \o sought.location]
      BY <2>2
    <3>2. Places(specs, sought) = {u \o sought.location : u \in UserPlaces(specs)}
      BY <2>2 DEF Places
    <3>3. {u.location : u \in Range(users)} = UserPlaces(specs)
      BY UsersAre
    <3>4. Range(users) = {users[k] : k \in DOMAIN users}
      BY DEF Range
    <3> HIDE DEF users, bases
    <3>5. UserPlaces(specs) = {users[k].location : k \in DOMAIN users}
      BY <3>3, <3>4
    <3>6. Places(specs, sought) = {users[k].location \o sought.location : k \in DOMAIN users}
      BY <3>2, <3>5
    <3> QED BY <3>1, <3>6
  <2> QED BY <2>1, <2>2
<1> HIDE DEF bases, users
<1>4. PICK n \in Nat : DOMAIN bases = 1 .. n
  BY <1>2
<1>5. \A k \in 1 .. n : FoundAt(specs, sought, bases[k]) \in Seq(Entry(N))
  BY FoundIs
<1>6. ss \in Seq(Seq(Entry(N))) /\ DOMAIN ss = 1 .. n
  BY <1>4, <1>5
<1>7. \A k \in 1 .. n : Range(ss[k]) = AskedEntries(N, specs, sought, bases[k])
  <2>1. \A k \in 1 .. n : ss[k] = FoundAt(specs, sought, bases[k])
    BY <1>4
  <2> HIDE DEF ss
  <2> QED BY <2>1, FoundIs
<1> HIDE DEF ss
<1>8. Chained(ss) \in Seq(Entry(N)) /\ Range(Chained(ss)) = UNION {Range(ss[k]) : k \in DOMAIN ss}
  BY <1>6, ChainedIs
<1>9. UNION {Range(ss[k]) : k \in DOMAIN ss} = AllAsked(N, specs, sought)
  <2>1. {Range(ss[k]) : k \in 1 .. n} = {AskedEntries(N, specs, sought, bases[k]) : k \in 1 .. n}
    BY <1>7
  <2>2. {AskedEntries(N, specs, sought, bases[k]) : k \in 1 .. n}
           = {AskedEntries(N, specs, sought, place) : place \in Places(specs, sought)}
    BY <1>3, <1>4
  <2> QED BY <1>6, <2>1, <2>2 DEF AllAsked
<1> QED BY <1>1, <1>8, <1>9

LEMMA WantedIs ==
    ASSUME NEW N, NEW specs \in Seq(Volumes(N))
    PROVE  \A w : w \in Wanted(specs) <=>
                    \E t \in Range(Targets) : \E e \in AllAsked(N, specs, t) : w = <<t.label, e>>
<1>1. ASSUME NEW t, NEW place, NEW w
      PROVE  w \in AskedUnder(specs, t, place) <=>
                \E e \in AskedEntries(N, specs, t, place) : w = <<t.label, e>>
  <2> DEFINE i == OpenLocation(specs, place)
  <2>1. i \in 0 .. Len(specs) /\ Len(specs) \in Nat
    BY OpenedAt
  <2>2. i # 0 => DOMAIN specs[i].files \subseteq Seq(N)
    <3>1. i # 0 => i \in DOMAIN specs
      BY <2>1
    <3> HIDE DEF i
    <3> QED BY <3>1, VolumeIs
  <2>3. w \in AskedUnder(specs, t, place) <=>
          /\ i # 0
          /\ \E l \in DOMAIN specs[i].files : AskedAt(t, place, l) /\ w = <<t.label, [fs |-> i, location |-> l]>>
    <3> HIDE DEF i
    <3> QED BY DEF AskedUnder, i
  <2> HIDE DEF i
  <2>4. ASSUME w \in AskedUnder(specs, t, place)
        PROVE  \E e \in AskedEntries(N, specs, t, place) : w = <<t.label, e>>
    <3>1. PICK l \in DOMAIN specs[i].files : AskedAt(t, place, l) /\ w = <<t.label, [fs |-> i, location |-> l]>>
      BY <2>3, <2>4
    <3> DEFINE e == [fs |-> i, location |-> l]
    <3>2. i # 0 /\ i \in Nat /\ l \in Seq(N)
      BY <2>1, <2>2, <2>3, <2>4
    <3>3. e \in AskedEntries(N, specs, t, place)
      BY <3>1, <3>2 DEF AskedEntries, Entry, i
    <3> QED BY <3>1, <3>3
  <2>5. ASSUME NEW e \in AskedEntries(N, specs, t, place), w = <<t.label, e>>
        PROVE  w \in AskedUnder(specs, t, place)
    <3>1. e \in Entry(N) /\ e.fs = i /\ i # 0 /\ e.location \in DOMAIN specs[i].files
          /\ AskedAt(t, place, e.location)
      BY DEF AskedEntries, i
    <3>2. e = [fs |-> i, location |-> e.location]
      BY <3>1 DEF Entry
    <3> QED BY <2>3, <2>5, <3>1, <3>2
  <2> QED BY <2>4, <2>5
<1>2. ASSUME NEW t, NEW w
      PROVE  w \in UNION {AskedUnder(specs, t, place) : place \in Places(specs, t)} <=>
                \E e \in AllAsked(N, specs, t) : w = <<t.label, e>>
  BY <1>1 DEF AllAsked
<1> DEFINE U(t) == UNION {AskedUnder(specs, t, place) : place \in Places(specs, t)}
<1>3. Wanted(specs) = UNION {U(t) : t \in Range(Targets)}
  BY DEF Wanted
<1>4. \A t, w : w \in U(t) <=> \E e \in AllAsked(N, specs, t) : w = <<t.label, e>>
  BY <1>2
<1> HIDE DEF U
<1> QED BY <1>3, <1>4

\* The copies of a target, the paths they lie at and what can be in them.
TargetPath(w) == OutPath(w[1], w[2].location)
PathsOf(specs) == {TargetPath(w) : w \in Wanted(specs)}
CopiedFrom(specs) == {w[2] : w \in Wanted(specs)} \X Hows

LEMMA WantedFinite ==
    ASSUME NEW N, NEW specs \in Seq(Volumes(N))
    PROVE  /\ IsFiniteSet(Wanted(specs))
           /\ \A w \in Wanted(specs) : /\ w[2].fs \in DOMAIN specs
                                       /\ w[2].location \in DOMAIN specs[w[2].fs].files
                                       /\ specs[w[2].fs].files[w[2].location] \in Hows
<1> DEFINE W(t) == {<<t.label, e>> : e \in AllAsked(N, specs, t)}
<1>1. ASSUME NEW t PROVE IsFiniteSet(W(t))
  <2>1. Entries(specs, t) \in Seq(Entry(N)) /\ Range(Entries(specs, t)) = AllAsked(N, specs, t)
    BY TargetEntriesAre
  <2>2. IsFiniteSet(AllAsked(N, specs, t))
    BY <2>1, SeqRangeFinite
  <2> DEFINE f == [e \in AllAsked(N, specs, t) |-> <<t.label, e>>]
  <2>3. W(t) = {f[e] : e \in AllAsked(N, specs, t)}
    OBVIOUS
  <2> HIDE DEF f
  <2> QED BY <2>2, <2>3, ImageFinite
<1>2. IsFiniteSet(Range(Targets))
  <2>1. Targets \in Seq(Range(Targets))
    BY DEF Targets, Range
  <2> QED BY <2>1, SeqRangeFinite
<1>3. IsFiniteSet({W(t) : t \in Range(Targets)})
  <2> DEFINE f == [t \in Range(Targets) |-> W(t)]
  <2>1. {W(t) : t \in Range(Targets)} = {f[t] : t \in Range(Targets)}
    OBVIOUS
  <2>2. IsFiniteSet({f[t] : t \in Range(Targets)})
    <3> HIDE DEF f
    <3> QED BY <1>2, ImageFinite
  <2> HIDE DEF f, W
  <2> QED BY <2>1, <2>2
<1>4. Wanted(specs) = UNION {W(t) : t \in Range(Targets)}
  BY WantedIs
<1> HIDE DEF W
<1>5. \A T \in {W(t) : t \in Range(Targets)} : IsFiniteSet(T)
  BY <1>1
<1>6. IsFiniteSet(Wanted(specs))
  BY <1>3, <1>4, <1>5, FS_UNION
<1>7. ASSUME NEW w \in Wanted(specs)
      PROVE  /\ w[2].fs \in DOMAIN specs
             /\ w[2].location \in DOMAIN specs[w[2].fs].files
             /\ specs[w[2].fs].files[w[2].location] \in Hows
  <2>1. PICK t \in Range(Targets) : \E e \in AllAsked(N, specs, t) : w = <<t.label, e>>
    BY WantedIs
  <2>a. PICK e \in AllAsked(N, specs, t) : w = <<t.label, e>>
    BY <2>1
  <2>2. PICK place \in Places(specs, t) : e \in AskedEntries(N, specs, t, place)
    BY DEF AllAsked
  <2>3. /\ e.fs = OpenLocation(specs, place) /\ e.fs # 0
        /\ e.location \in DOMAIN specs[e.fs].files
    BY <2>2 DEF AskedEntries
  <2>4. OpenLocation(specs, place) \in 0 .. Len(specs)
    BY OpenedAt
  <2>5. e.fs \in DOMAIN specs
    BY <2>3, <2>4
  <2>6. specs[e.fs].files[e.location] \in Hows
    BY <2>3, <2>5, VolumeIs
  <2>7. w[2] = e
    BY <2>a
  <2> QED BY <2>3, <2>5, <2>6, <2>7
<1> QED BY <1>6, <1>7

\* The copies tried are those of what is wanted.
LEMMA ExtractedAre ==
    ASSUME NEW N, NEW specs \in Seq(Volumes(N))
    PROVE  /\ Extracted(specs) \in Seq(Tried(PathsOf(specs), CopiedFrom(specs)))
           /\ \A x : x \in Range(Extracted(specs)) <=>
                       \E w \in Wanted(specs) : x = ExtractOne(specs, w[1], w[2])
<1> DEFINE W == Wanted(specs)
           T == Tried(PathsOf(specs), CopiedFrom(specs))
           of(k) == ExtractAll(specs, Targets[k].label, Entries(specs, Targets[k]))
           ss == [k \in DOMAIN Targets |-> of(k)]
<1>1. DOMAIN Targets = 1 .. 4
  BY DEF Targets
<1>2. ASSUME NEW w \in W PROVE ExtractOne(specs, w[1], w[2]) \in T
  <2> DEFINE h == specs[w[2].fs].files[w[2].location]
             x == ExtractOne(specs, w[1], w[2])
  <2>1. h \in Hows
    BY WantedFinite
  <2>2. x = [path |-> TargetPath(w), got |-> {<<w[2], g>> : g \in {h} \ {"empty", "unreadable"}}]
    BY DEF ExtractOne, TargetPath
  <2>3. TargetPath(w) \in PathsOf(specs)
    BY DEF PathsOf
  <2>4. <<w[2], h>> \in CopiedFrom(specs)
    BY <2>1 DEF CopiedFrom
  <2>5. {<<w[2], g>> : g \in {h} \ {"empty", "unreadable"}} \subseteq CopiedFrom(specs)
    BY <2>4
  <2> HIDE DEF h, x
  <2> QED BY <2>2, <2>3, <2>5 DEF Tried, x
<1>3. ASSUME NEW k \in 1 .. 4
      PROVE  /\ of(k) \in Seq(T)
             /\ \A x : x \in Range(of(k)) <=>
                         \E e \in AllAsked(N, specs, Targets[k]) : x = ExtractOne(specs, Targets[k].label, e)
  <2> DEFINE t == Targets[k]
             es == Entries(specs, t)
  <2>1. es \in Seq(Entry(N)) /\ Range(es) = AllAsked(N, specs, t)
    BY TargetEntriesAre
  <2>2. DOMAIN es = 1 .. Len(es) /\ Len(es) \in Nat
    BY <2>1
  <2>3. of(k) = [j \in DOMAIN es |-> ExtractOne(specs, t.label, es[j])]
    BY DEF ExtractAll
  <2>4. t \in Range(Targets)
    BY <1>1 DEF Range
  <2> HIDE DEF t, es, T
  <2>5. ASSUME NEW j \in DOMAIN es PROVE ExtractOne(specs, t.label, es[j]) \in T
    <3>1. es[j] \in AllAsked(N, specs, t)
      BY <2>1 DEF Range
    <3> DEFINE w == <<t.label, es[j]>>
    <3>2. w \in W
      BY <2>4, <3>1, WantedIs
    <3>3. w[1] = t.label /\ w[2] = es[j]
      OBVIOUS
    <3> HIDE DEF w
    <3> QED BY <1>2, <3>2, <3>3
  <2>6. [j \in DOMAIN es |-> ExtractOne(specs, t.label, es[j])] \in Seq(T)
    BY <2>2, <2>5
  <2>7. \A x : x \in Range([j \in DOMAIN es |-> ExtractOne(specs, t.label, es[j])]) <=>
                 \E j \in DOMAIN es : x = ExtractOne(specs, t.label, es[j])
    BY DEF Range
  <2>8. \A x : (\E j \in DOMAIN es : x = ExtractOne(specs, t.label, es[j])) <=>
                 \E e \in AllAsked(N, specs, t) : x = ExtractOne(specs, t.label, e)
    <3>1. AllAsked(N, specs, t) = {es[j] : j \in DOMAIN es}
      BY <2>1 DEF Range
    <3> QED BY <3>1
  <2> QED BY <2>3, <2>6, <2>7, <2>8 DEF t
<1> HIDE DEF of
<1>4. ss \in Seq(Seq(T)) /\ DOMAIN ss = 1 .. 4 /\ \A k \in 1 .. 4 : ss[k] = of(k)
  <2>1. \A k \in 1 .. 4 : of(k) \in Seq(T)
    BY <1>3
  <2> HIDE DEF T
  <2> QED BY <1>1, <2>1
<1>5. Extracted(specs) = Chained(ss)
  BY DEF Extracted, of
<1> HIDE DEF ss, T
<1>6. Chained(ss) \in Seq(T) /\ Range(Chained(ss)) = UNION {Range(ss[k]) : k \in DOMAIN ss}
  BY <1>4, ChainedIs
<1>7. ASSUME NEW x
      PROVE  x \in Range(Extracted(specs)) <=> \E w \in W : x = ExtractOne(specs, w[1], w[2])
  <2>1. x \in Range(Extracted(specs)) <=> \E k \in 1 .. 4 : x \in Range(of(k))
    BY <1>4, <1>5, <1>6
  <2>2. x \in Range(Extracted(specs)) <=>
          \E k \in 1 .. 4 : \E e \in AllAsked(N, specs, Targets[k]) : x = ExtractOne(specs, Targets[k].label, e)
    BY <1>3, <2>1
  <2>3. Range(Targets) = {Targets[k] : k \in 1 .. 4}
    BY <1>1 DEF Range
  <2>4. x \in Range(Extracted(specs)) <=>
          \E t \in Range(Targets) : \E e \in AllAsked(N, specs, t) : x = ExtractOne(specs, t.label, e)
    BY <2>2, <2>3
  <2>5. ASSUME NEW t \in Range(Targets), NEW e \in AllAsked(N, specs, t), x = ExtractOne(specs, t.label, e)
        PROVE  \E w \in W : x = ExtractOne(specs, w[1], w[2])
    <3> DEFINE w == <<t.label, e>>
    <3>1. w \in W
      BY WantedIs
    <3>2. w[1] = t.label /\ w[2] = e
      OBVIOUS
    <3> HIDE DEF w, W
    <3> QED BY <2>5, <3>1, <3>2
  <2>6. ASSUME NEW w \in W, x = ExtractOne(specs, w[1], w[2])
        PROVE  \E t \in Range(Targets) : \E e \in AllAsked(N, specs, t) : x = ExtractOne(specs, t.label, e)
    <3>1. PICK t \in Range(Targets) : \E e \in AllAsked(N, specs, t) : w = <<t.label, e>>
      BY WantedIs
    <3>2. PICK e \in AllAsked(N, specs, t) : w = <<t.label, e>>
      BY <3>1
    <3>3. w[1] = t.label /\ w[2] = e
      BY <3>2
    <3> QED BY <2>6, <3>3
  <2> HIDE DEF W
  <2> QED BY <2>4, <2>5, <2>6
<1> QED BY <1>5, <1>6, <1>7 DEF T

\* The files that are registered of an image.
ArtifactFiles(specs) ==
    [k \in DOMAIN ExtractArtifacts(specs) |-> Lying(FilesLeft(specs), ExtractArtifacts(specs)[k])]
ArtifactContents(specs) == CopiedFrom(specs) \cup {<<>>}
Apart(specs) == \A v, w \in Wanted(specs) : TargetPath(v) = TargetPath(w) => v = w

LEMMA ArtifactsAre ==
    ASSUME NEW N, NEW specs \in Seq(Volumes(N))
    PROVE  /\ ArtifactFiles(specs) \in Seq(Lies(PathsOf(specs), ArtifactContents(specs)))
           /\ Solid(Range(ArtifactFiles(specs))) \subseteq FilesLeft(specs)
           /\ Apart(specs) => /\ Range(ArtifactFiles(specs)) = CopiesOf(Range(Extracted(specs)))
                              /\ ~Missed(Range(ArtifactFiles(specs)))
                              /\ OneEach(Range(ArtifactFiles(specs)))
<1> DEFINE P == PathsOf(specs)
           C == CopiedFrom(specs)
           es == Extracted(specs)
           A == ExtractArtifacts(specs)
           S == {w \in Range(es) : w.got # {}}
           left == FilesLeft(specs)
           F == ArtifactFiles(specs)
<1>1. es \in Seq(Tried(P, C))
  BY ExtractedAre
<1>2. \A x : x \in Range(es) <=> \E w \in Wanted(specs) : x = ExtractOne(specs, w[1], w[2])
  BY ExtractedAre
<1>3. A = Among(es, S)
  BY DEF ExtractArtifacts
<1>4. F = [k \in DOMAIN A |-> Lying(left, A[k])]
  BY DEF ArtifactFiles
<1>5. left \in SUBSET Lies(P, C) /\ (OneEach(Range(es)) => left = CopiesOf(Range(es)))
  <2>1. left = Walked(es, {}, Copy)
    BY DEF FilesLeft
  <2> HIDE DEF P, C, es, left
  <2> QED BY <1>1, <2>1, CopiesAre
<1> HIDE DEF es, A, left, F, P
<1>6. A \in Seq(Tried(P, C)) /\ Range(A) = S
  <2>1. A \in Seq(Tried(P, C)) /\ Range(A) = Range(es) \cap S
    <3> HIDE DEF S, C
    <3> QED BY <1>1, <1>3, AmongIs
  <2>2. Range(es) \cap S = S
    OBVIOUS
  <2> QED BY <2>1, <2>2
<1>7. DOMAIN A = 1 .. Len(A) /\ Len(A) \in Nat /\ \A k \in DOMAIN A : A[k] \in Tried(P, C) /\ A[k] \in S
  <2>1. DOMAIN A = 1 .. Len(A) /\ Len(A) \in Nat /\ \A k \in DOMAIN A : A[k] \in Tried(P, C)
    <3> HIDE DEF C
    <3> QED BY <1>6
  <2>2. \A k \in DOMAIN A : A[k] \in Range(A)
    BY DEF Range
  <2> QED BY <1>6, <2>1, <2>2
<1>8. ASSUME NEW a \in Tried(P, C)
      PROVE  /\ Lying(left, a) \in Lies(P, C \cup {<<>>})
             /\ Lying(left, a).content # <<>> => Lying(left, a) \in left
             /\ (\E f \in left : f.path = a.path) => Lying(left, a) \in left /\ Lying(left, a).path = a.path
  <2> DEFINE there == {f \in left : f.path = a.path}
  <2>1. a.path \in P
    BY DEF Tried
  <2>2. CASE there = {}
    <3>1. Lying(left, a) = [path |-> a.path, content |-> <<>>]
      BY <2>2 DEF Lying
    <3>2. [path |-> a.path, content |-> <<>>] \in Lies(P, C \cup {<<>>})
      BY <2>1 DEF Lies
    <3> QED BY <2>2, <3>1, <3>2
  <2>3. CASE there # {}
    <3>1. Lying(left, a) = CHOOSE f \in there : TRUE
      BY <2>3 DEF Lying
    <3>2. Lying(left, a) \in there
      <4> HIDE DEF there
      <4> QED BY <2>3, <3>1
    <3>3. Lying(left, a) \in Lies(P, C) /\ Lying(left, a) \in left /\ Lying(left, a).path = a.path
      BY <1>5, <3>2
    <3>4. Lies(P, C) \subseteq Lies(P, C \cup {<<>>})
      BY DEF Lies
    <3> QED BY <3>3, <3>4
  <2> QED BY <2>2, <2>3
<1>9. F \in Seq(Lies(P, C \cup {<<>>})) /\ DOMAIN F = DOMAIN A
  <2> DEFINE T == Lies(P, C \cup {<<>>})
             e(k) == Lying(left, A[k])
  <2>1. \A k \in DOMAIN A : e(k) \in T
    BY <1>7, <1>8
  <2>2. F = [k \in DOMAIN A |-> e(k)]
    BY <1>4
  <2> HIDE DEF T, e
  <2>3. F \in Seq(T) /\ DOMAIN F = DOMAIN A
    BY <1>7, <2>1, <2>2
  <2> QED BY <2>3 DEF T
<1>10. \A f \in Range(F) : f.content # <<>> => f \in left
  BY <1>4, <1>7, <1>8, <1>9 DEF Range
<1>11. ASSUME Apart(specs) PROVE OneEach(Range(es))
  <2> SUFFICES ASSUME NEW x \in Range(es), NEW y \in Range(es), x.path = y.path PROVE x = y
    BY DEF OneEach
  <2>1. PICK v \in Wanted(specs) : x = ExtractOne(specs, v[1], v[2])
    BY <1>2
  <2>2. PICK w \in Wanted(specs) : y = ExtractOne(specs, w[1], w[2])
    BY <1>2
  <2>3. x.path = TargetPath(v) /\ y.path = TargetPath(w)
    BY <2>1, <2>2 DEF ExtractOne, TargetPath
  <2>4. v = w
    BY <1>11, <2>3 DEF Apart
  <2> QED BY <2>1, <2>2, <2>4
<1>12. ASSUME NEW w \in Range(es), NEW x \in w.got, NEW y \in w.got PROVE x = y /\ x # <<>>
  <2>1. PICK v \in Wanted(specs) : w = ExtractOne(specs, v[1], v[2])
    BY <1>2
  <2> DEFINE h == specs[v[2].fs].files[v[2].location]
  <2>2. w.got = {<<v[2], g>> : g \in {h} \ {"empty", "unreadable"}}
    BY <2>1 DEF ExtractOne
  <2>3. x = <<v[2], h>> /\ y = <<v[2], h>>
    BY <2>2
  <2> QED BY <2>3
<1>13. ASSUME Apart(specs)
       PROVE  Range(F) = CopiesOf(Range(es)) /\ ~Missed(Range(F)) /\ OneEach(Range(F))
  <2>1. OneEach(Range(es)) /\ left = CopiesOf(Range(es))
    BY <1>5, <1>11, <1>13
  <2>2. \A f : f \in left <=> \E w \in Range(es) : \E x \in w.got : f = [path |-> w.path, content |-> x]
    BY <2>1 DEF CopiesOf
  <2>3. ASSUME NEW f \in left, NEW g \in left, f.path = g.path PROVE f = g /\ f.content # <<>>
    <3>1. PICK w \in Range(es) : \E x \in w.got : f = [path |-> w.path, content |-> x]
      BY <2>2
    <3>2. PICK x \in w.got : f = [path |-> w.path, content |-> x]
      BY <3>1
    <3>3. PICK v \in Range(es) : \E y \in v.got : g = [path |-> v.path, content |-> y]
      BY <2>2
    <3>4. PICK y \in v.got : g = [path |-> v.path, content |-> y]
      BY <3>3
    <3>5. w = v
      BY <2>1, <2>3, <3>2, <3>4 DEF OneEach
    <3>6. x = y /\ x # <<>>
      BY <1>12, <3>5
    <3> QED BY <3>2, <3>4, <3>5, <3>6
  <2>4. ASSUME NEW w \in S PROVE Lying(left, w) \in left /\ Lying(left, w).path = w.path
    <3>1. w \in Tried(P, C)
      <4>1. PICK k \in DOMAIN A : A[k] = w
        BY <1>6 DEF Range
      <4> QED BY <1>7, <4>1
    <3>2. PICK x \in w.got : TRUE
      OBVIOUS
    <3>3. [path |-> w.path, content |-> x] \in left
      BY <2>2, <3>2
    <3>4. \E f \in left : f.path = w.path
      BY <3>3
    <3> QED BY <1>8, <3>1, <3>4
  <2>5. \A f : f \in Range(F) <=> \E w \in S : f = Lying(left, w)
    <3>1. \A f : f \in Range(F) <=> \E k \in DOMAIN A : f = Lying(left, A[k])
      BY <1>4, <1>9 DEF Range
    <3>2. S = {A[k] : k \in DOMAIN A}
      BY <1>6 DEF Range
    <3> HIDE DEF S
    <3> QED BY <3>1, <3>2
  <2>6. Range(F) \subseteq left
    <3> HIDE DEF S
    <3> QED BY <2>4, <2>5
  <2>7. ASSUME NEW f \in left PROVE f \in Range(F)
    <3>1. PICK w \in Range(es) : \E x \in w.got : f = [path |-> w.path, content |-> x]
      BY <2>2
    <3>2. w \in S /\ f.path = w.path
      BY <3>1
    <3>3. Lying(left, w) = f
      <4> HIDE DEF S
      <4> QED BY <2>3, <2>4, <3>2
    <3> HIDE DEF S
    <3> QED BY <2>5, <3>2, <3>3
  <2>8. Range(F) = left
    BY <2>6, <2>7
  <2> QED BY <2>1, <2>3, <2>8 DEF OneEach, Missed
<1>14. F \in Seq(Lies(P, ArtifactContents(specs)))
  BY <1>9 DEF ArtifactContents
<1>15. Solid(Range(F)) \subseteq left
  BY <1>10 DEF Solid
<1> QED BY <1>13, <1>14, <1>15 DEF F, P, es, left

\* What PrepareImage does with an image that can be opened.
LEMMA PreparedIs ==
    ASSUME NEW reg, NEW specs, specs # <<>>
    PROVE  PrepareFrom(reg, specs) = RegisterAll(reg, ArtifactFiles(specs))
BY DEF PrepareFrom, RegisterFrom, ArtifactFiles

\* evidence/artifacts.py:56-61, prepare.py: of any image, what is wanted and can be
\* read is registered with its label's place, nothing else is, and a digest is of
\* what lies at its path (RegisteredRight).
LEMMA ImageRegistered ==
    ASSUME NEW N, NEW image, ImageOf(N, image)
    PROVE  RegisteredRight(OpenImage(image), Wanted(OpenImage(image)), PrepareImage({}, image).registry)
<1> DEFINE specs == OpenImage(image)
           W == Wanted(specs)
           how(w) == specs[w[2].fs].files[w[2].location]
           path(w) == OutPath(w[1], w[2].location)
           reg == PrepareImage({}, image).registry
           P == PathsOf(specs)
           C == ArtifactContents(specs)
           F == ArtifactFiles(specs)
<1>1. specs \in Seq(Volumes(N))
  BY SpecsAre
<1>2. IsFiniteSet(W) /\ \A w \in W : w[2].fs \in DOMAIN specs /\ how(w) \in Hows
  BY <1>1, WantedFinite
<1>3. CASE specs = <<>>
  <2>1. W = {} /\ reg = {}
    BY <1>2, <1>3 DEF PrepareImage, PrepareFrom
  <2> HIDE DEF specs, W, reg
  <2> QED BY <2>1 DEF RegisteredRight, W, reg, specs
<1>4. CASE specs # <<>>
  <2>1. reg = RegisterAll({}, F).registry
    BY <1>4, PreparedIs DEF PrepareImage
  <2>2. F \in Seq(Lies(P, C)) /\ Solid(Range(F)) \subseteq FilesLeft(specs)
    BY <1>1, ArtifactsAre
  <2>3. {} \in Registry(P, C)
    BY DEF Registry, OneEach
  <2> HIDE DEF specs, F, P, C, W, reg
  <2>4. /\ reg \subseteq Solid(Range(F))
        /\ ~Missed(Range(F)) /\ OneEach(Range(F)) => reg = Range(F)
    <3>1. {} \cup Range(F) = Range(F) /\ {} \cup Solid(Range(F)) = Solid(Range(F))
      OBVIOUS
    <3>2. Registers({}, Range(F), RegisterAll({}, F))
      BY <2>2, <2>3, RegisteredIs
    <3> QED BY <2>1, <3>1, <3>2 DEF Registers
  <2>5. reg \subseteq FilesLeft(specs)
    BY <2>2, <2>4
  <2>6. ASSUME Cardinality({path(w) : w \in W}) = Cardinality(W) PROVE Apart(specs)
    <3> DEFINE f == [w \in W |-> path(w)]
               T == {path(w) : w \in W}
    <3>1. f \in Surjection(W, T)
      BY DEF Surjection
    <3>2. f \in Injection(W, T)
      <4> HIDE DEF f, T
      <4>1. Cardinality(T) = Cardinality(W)
        BY <2>6 DEF T
      <4> QED BY <1>2, <3>1, <4>1, FS_Surjection
    <3>3. \A v, w \in W : path(v) = path(w) => v = w
      BY <3>2 DEF Injection, IsInjective
    <3> QED BY <3>3 DEF Apart, TargetPath, W
  <2>7. ASSUME Apart(specs)
        PROVE  reg = {[path |-> path(w), content |-> <<w[2], how(w)>>] :
                        w \in {w \in W : how(w) \in {"whole", "cut"}}}
    <3>1. reg = CopiesOf(Range(Extracted(specs)))
      BY <1>1, <2>4, <2>7, ArtifactsAre DEF F
    <3>2. \A x : x \in Range(Extracted(specs)) <=> \E w \in W : x = ExtractOne(specs, w[1], w[2])
      BY <1>1, ExtractedAre DEF W
    <3>3. ASSUME NEW w \in W
          PROVE  {[path |-> ExtractOne(specs, w[1], w[2]).path, content |-> x] :
                     x \in ExtractOne(specs, w[1], w[2]).got}
                   = IF how(w) \in {"whole", "cut"} THEN {[path |-> path(w), content |-> <<w[2], how(w)>>]} ELSE {}
      <4> DEFINE e == ExtractOne(specs, w[1], w[2])
      <4>1. e.path = path(w) /\ e.got = {<<w[2], h>> : h \in {how(w)} \ {"empty", "unreadable"}}
        BY DEF ExtractOne
      <4>2. how(w) \in Hows
        BY <1>2
      <4> HIDE DEF e
      <4>3. e.got = IF how(w) \in {"whole", "cut"} THEN {<<w[2], how(w)>>} ELSE {}
        <5> DEFINE y == how(w)
        <5>1. y \in {"whole", "cut", "empty", "unreadable"}
          BY <4>2 DEF Hows
        <5>2. {y} \ {"empty", "unreadable"} = IF y \in {"whole", "cut"} THEN {y} ELSE {}
          <6> HIDE DEF y
          <6> QED BY <5>1
        <5>3. \A S : {<<w[2], h>> : h \in IF S THEN {y} ELSE {}} = IF S THEN {<<w[2], y>>} ELSE {}
          OBVIOUS
        <5> QED BY <4>1, <5>2, <5>3
      <4> QED BY <4>1, <4>3 DEF e
    <3>4. ASSUME NEW f
          PROVE  f \in reg <=> \E w \in W : /\ how(w) \in {"whole", "cut"}
                                            /\ f = [path |-> path(w), content |-> <<w[2], how(w)>>]
      <4> DEFINE of(w) == {[path |-> ExtractOne(specs, w[1], w[2]).path, content |-> x] :
                             x \in ExtractOne(specs, w[1], w[2]).got}
      <4>1. f \in reg <=> \E w \in W : f \in of(w)
        BY <3>1, <3>2 DEF CopiesOf
      <4>2. \A w \in W : of(w) = IF how(w) \in {"whole", "cut"}
                                 THEN {[path |-> path(w), content |-> <<w[2], how(w)>>]} ELSE {}
        BY <3>3
      <4> HIDE DEF of, how, path
      <4> QED BY <4>1, <4>2
    <3> HIDE DEF how, path
    <3> QED BY <3>4
  <2> QED BY <2>5, <2>6, <2>7 DEF RegisteredRight, reg, specs, W
<1> QED BY <1>3, <1>4

\* A nest of archives: its members are leaves or archives of the nest, and a leaf is
\* not 0, which stands for an archive that is refused.
Member == [leaf : Nat, archive : Nat]
NestOf(nest) ==
    /\ 1 \in DOMAIN nest
    /\ \A a \in DOMAIN nest :
          /\ nest[a].members \in Seq(Member)
          /\ \A m \in Range(nest[a].members) :
                IF m.archive = 0 THEN m.leaf # 0 ELSE m.archive \in DOMAIN nest

\* f is what the loop of DecompressArchive makes of each state, and g what LeavesOf
\* says of each archive, by how much deeper the walk may go.
LoopOf(nest, f) ==
    f = [s \in Walks(nest) |-> IF s.raised \/ s.pending = <<>> THEN s ELSE f[Unpack(nest, s)]]
NamesUnder(nest, a, below) ==
    UNION {IF m.archive = 0 THEN {m.leaf} ELSE below[m.archive] : m \in Range(nest[a].members)}
BelowOf(nest, g) ==
    g = [levels \in 0 .. MaxArchiveDepth |->
           [a \in DOMAIN nest |-> IF levels = 0 \/ nest[a].fails THEN {0} ELSE NamesUnder(nest, a, g[levels - 1])]]

\* The archives that are members of an archive, and its leaves.
InnerOf(nest, a) == {m \in Range(nest[a].members) : m.archive # 0}
OuterOf(nest, a) == {m \in Range(nest[a].members) : m.archive = 0}

Frames(nest) == [archive : DOMAIN nest, depth : Nat]
NamesIn(s) == {s.leaves[k].leaf.leaf : k \in DOMAIN s.leaves}

\* Unpacking the archive on top refuses it, or puts its archives on the stack and
\* keeps its leaves.
Unpacks(nest, B, fr, t, u) ==
    IF fr.depth >= MaxArchiveDepth \/ nest[fr.archive].fails THEN u.raised
    ELSE /\ ~u.raised
         /\ \E Q \in Seq([archive : DOMAIN nest, depth : {fr.depth + 1}]) :
               /\ u.pending = B \o Q
               /\ {Q[k].archive : k \in DOMAIN Q} = {m.archive : m \in InnerOf(nest, fr.archive)}
         /\ NamesIn(u) = NamesIn(t) \cup {m.leaf : m \in OuterOf(nest, fr.archive)}

LEMMA UnpackIs ==
    ASSUME NEW nest, NestOf(nest),
           NEW B \in Seq(Frames(nest)), NEW t \in Walks(nest), NEW fr \in Frames(nest),
           t.pending = Append(B, fr), ~t.raised
    PROVE  Unpack(nest, t) \in Walks(nest) /\ Unpacks(nest, B, fr, t, Unpack(nest, t))
<1> DEFINE D == DOMAIN nest
           a == fr.archive
           F == Frames(nest)
           L == [stage : Nat, leaf : LeafMembers(nest)]
           members == nest[a].members
           inner == Among(members, InnerOf(nest, a))
           leaves == Among(members, OuterOf(nest, a))
           Q == [k \in DOMAIN inner |-> [archive |-> inner[k].archive, depth |-> fr.depth + 1]]
           K == [k \in DOMAIN leaves |-> [stage |-> t.stage + 1, leaf |-> leaves[k]]]
           x == t.stage + 1
           y == B \o Q
           z == t.leaves \o K
           Made(i, j, k) == [t EXCEPT !.stage = i, !.pending = j, !.leaves = k]
           u == Made(x, y, z)
           v == [t EXCEPT !.raised = TRUE]
<1>1. a \in D /\ fr.depth \in Nat
  BY DEF Frames
<1>2. t \in [pending : Seq(F), stage : Nat, leaves : Seq(L), raised : BOOLEAN]
  BY DEF Walks, Frames
<1>3. Last(t.pending) = fr /\ Front(t.pending) = B
  <2>1. Len(Append(B, fr)) = Len(B) + 1 /\ Append(B, fr)[Len(B) + 1] = fr
    OBVIOUS
  <2>2. SubSeq(Append(B, fr), 1, Len(B)) = B
    <3> DEFINE w == SubSeq(Append(B, fr), 1, Len(B))
    <3>1. Append(B, fr) \in Seq(F) /\ Len(B) \in Nat /\ Len(B) <= Len(Append(B, fr))
      BY DEF F
    <3>2. w \in Seq(F) /\ Len(w) = Len(B) /\ \A k \in 1 .. Len(B) : w[k] = Append(B, fr)[k]
      <4> HIDE DEF F
      <4> QED BY <3>1
    <3>3. \A k \in 1 .. Len(B) : w[k] = B[k]
      BY <3>2
    <3> HIDE DEF w, F
    <3>4. w = B
      BY <3>2, <3>3, SeqEqual DEF F
    <3> QED BY <3>4 DEF w
  <2> QED BY <2>1, <2>2 DEF Last, Front
<1>4. members \in Seq(Member) /\ \A m \in Range(members) : IF m.archive = 0 THEN m.leaf # 0 ELSE m.archive \in D
  BY <1>1 DEF NestOf
<1>5. Unpack(nest, t) = IF fr.depth >= MaxArchiveDepth \/ nest[a].fails THEN v ELSE u
  BY <1>3 DEF Unpack, InnerOf, OuterOf
<1>6. inner \in Seq(Member) /\ Range(inner) = InnerOf(nest, a)
  <2>1. inner \in Seq(Member) /\ Range(inner) = Range(members) \cap InnerOf(nest, a)
    <3> HIDE DEF members
    <3> QED BY <1>4, AmongIs
  <2> QED BY <2>1 DEF InnerOf
<1>7. leaves \in Seq(Member) /\ Range(leaves) = OuterOf(nest, a)
  <2>1. leaves \in Seq(Member) /\ Range(leaves) = Range(members) \cap OuterOf(nest, a)
    <3> HIDE DEF members
    <3> QED BY <1>4, AmongIs
  <2> QED BY <2>1 DEF OuterOf
<1> HIDE DEF inner, leaves
<1>8. Q \in Seq([archive : D, depth : {fr.depth + 1}]) /\ DOMAIN Q = DOMAIN inner
  <2>1. \A k \in DOMAIN inner : inner[k].archive \in D
    <3>1. \A k \in DOMAIN inner : inner[k] \in Range(inner)
      BY DEF Range
    <3> QED BY <1>4, <1>6, <3>1 DEF InnerOf
  <2>2. DOMAIN inner = 1 .. Len(inner) /\ Len(inner) \in Nat
    BY <1>6
  <2> QED BY <2>1, <2>2
<1>9. {Q[k].archive : k \in DOMAIN Q} = {m.archive : m \in InnerOf(nest, a)}
  <2>1. {Q[k].archive : k \in DOMAIN Q} = {inner[k].archive : k \in DOMAIN inner}
    BY <1>8
  <2>2. \A m : m \in InnerOf(nest, a) <=> \E k \in DOMAIN inner : m = inner[k]
    BY <1>6 DEF Range
  <2> DEFINE S == {Q[k].archive : k \in DOMAIN Q}
  <2>3. \A b : b \in S <=> \E k \in DOMAIN inner : b = inner[k].archive
    BY <2>1
  <2>4. \A b : b \in S <=> \E m \in InnerOf(nest, a) : b = m.archive
    <3> HIDE DEF S
    <3> QED BY <2>2, <2>3
  <2>5. S = {m.archive : m \in InnerOf(nest, a)}
    <3> HIDE DEF S
    <3> QED BY <2>4
  <2> QED BY <2>5
<1>10. K \in Seq(L) /\ DOMAIN K = DOMAIN leaves
  <2>1. \A k \in DOMAIN leaves : leaves[k] \in LeafMembers(nest)
    <3>1. \A k \in DOMAIN leaves : leaves[k] \in Range(leaves)
      BY DEF Range
    <3>2. \A m \in OuterOf(nest, a) : m \in LeafMembers(nest)
      BY <1>1 DEF OuterOf, LeafMembers
    <3> QED BY <1>7, <3>1, <3>2
  <2>2. DOMAIN leaves = 1 .. Len(leaves) /\ Len(leaves) \in Nat /\ t.stage + 1 \in Nat
    BY <1>2, <1>7
  <2> QED BY <2>1, <2>2
<1>11. u \in Walks(nest)
  <2>1. Q \in Seq(F)
    <3>1. [archive : D, depth : {fr.depth + 1}] \subseteq F
      BY <1>1 DEF Frames
    <3> HIDE DEF Q, F, D
    <3> QED BY <1>8, <3>1, SequenceWidens
  <2>2. B \o Q \in Seq(F) /\ t.leaves \o K \in Seq(L) /\ t.stage + 1 \in Nat
    <3> HIDE DEF Q, K, L
    <3> QED BY <1>2, <1>10, <2>1, ConcatProperties
  <2> DEFINE LL == Seq(L)
             FF == Seq(F)
             BB == BOOLEAN
             T == [pending : FF, stage : Nat, leaves : LL, raised : BB]
  <2>3. t \in T
    BY <1>2
  <2>4. ASSUME NEW i \in Nat, NEW j \in FF, NEW k \in LL
        PROVE  Made(i, j, k) \in T
    <3> HIDE DEF LL, FF, BB
    <3> QED BY <2>3
  <2>5. u \in T
    <3>1. x \in Nat /\ y \in FF /\ z \in LL
      BY <2>2
    <3> HIDE DEF x, y, z, FF, LL, T, Made
    <3> QED BY <2>4, <3>1
  <2> HIDE DEF Q, K, u
  <2> QED BY <2>5 DEF Walks, Frames
<1>12. v \in Walks(nest)
  BY <1>2 DEF Walks, Frames
<1>13. CASE fr.depth >= MaxArchiveDepth \/ nest[a].fails
  <2>1. v.raised
    <3> DEFINE LL == Seq(L)
               FF == Seq(F)
               BB == BOOLEAN
    <3>1. t \in [pending : FF, stage : Nat, leaves : LL, raised : BB]
      BY <1>2
    <3> HIDE DEF LL, FF, BB
    <3>2. ASSUME NEW k \in BB PROVE [t EXCEPT !.raised = k].raised = k
      BY <3>1
    <3>3. TRUE \in BB
      BY DEF BB
    <3>4. v.raised = TRUE
      BY <3>2, <3>3, Zenon
    <3> QED BY <3>4
  <2> HIDE DEF v, u
  <2> QED BY <1>5, <1>12, <1>13, <2>1 DEF Unpacks
<1>14. CASE ~(fr.depth >= MaxArchiveDepth \/ nest[a].fails)
  <2>1. Unpack(nest, t) = u
    BY <1>5, <1>14
  <2>2. u.pending = B \o Q /\ u.leaves = t.leaves \o K /\ u.raised = t.raised
    <3> HIDE DEF Q, K, L
    <3> QED BY <1>2
  <2>3. NamesIn(u) = NamesIn(t) \cup {m.leaf : m \in OuterOf(nest, a)}
    <3> DEFINE n == Len(t.leaves)
    <3>1. n \in Nat /\ DOMAIN t.leaves = 1 .. n /\ DOMAIN K = 1 .. Len(K) /\ Len(K) \in Nat
      <4> HIDE DEF K, L
      <4> QED BY <1>2, <1>10
    <3>2. /\ DOMAIN (t.leaves \o K) = 1 .. (n + Len(K))
          /\ \A k \in 1 .. n : (t.leaves \o K)[k] = t.leaves[k]
          /\ \A k \in 1 .. Len(K) : (t.leaves \o K)[n + k] = K[k]
      <4> HIDE DEF K, L
      <4> QED BY <1>2, <1>10, <3>1
    <3>3. \A k \in 1 .. Len(K) : K[k].leaf.leaf = leaves[k].leaf
      BY <1>10, <3>1
    <3>4. {m.leaf : m \in OuterOf(nest, a)} = {leaves[k].leaf : k \in DOMAIN leaves}
      <4>1. \A m : m \in OuterOf(nest, a) <=> \E k \in DOMAIN leaves : m = leaves[k]
        BY <1>7 DEF Range
      <4> QED BY <4>1
    <3> DEFINE w == t.leaves \o K
               name(k) == w[k].leaf.leaf
    <3>5. NamesIn(u) = {name(k) : k \in 1 .. (n + Len(K))}
      <4>1. u.leaves = w /\ DOMAIN w = 1 .. (n + Len(K))
        BY <2>2, <3>2
      <4> HIDE DEF w, u, K, n
      <4> QED BY <4>1 DEF NamesIn
    <3>6. \A k \in 1 .. n : name(k) = t.leaves[k].leaf.leaf
      BY <3>2
    <3>7. \A k \in 1 .. Len(K) : name(n + k) = leaves[k].leaf
      BY <3>2, <3>3
    <3>8. NamesIn(t) = {t.leaves[k].leaf.leaf : k \in 1 .. n}
      BY <3>1 DEF NamesIn
    <3>9. DOMAIN leaves = 1 .. Len(K)
      BY <1>10, <3>1
    <3> HIDE DEF name, K, u, n
    <3>10. ASSUME NEW k \in 1 .. (n + Len(K)) PROVE k \in 1 .. n \/ \E j \in 1 .. Len(K) : k = n + j
      <4>1. CASE k <= n
        BY <3>1, <4>1
      <4>2. CASE k > n
        <5>1. k - n \in 1 .. Len(K) /\ k = n + (k - n)
          BY <3>1, <4>2
        <5> QED BY <5>1
      <4> QED BY <3>1, <4>1, <4>2
    <3>11. (\A k \in 1 .. n : k \in 1 .. (n + Len(K))) /\ \A k \in 1 .. Len(K) : n + k \in 1 .. (n + Len(K))
      BY <3>1
    <3>12. ASSUME NEW b PROVE b \in NamesIn(u) <=> b \in NamesIn(t) \cup {m.leaf : m \in OuterOf(nest, a)}
      <4>1. b \in NamesIn(u) <=> \E k \in 1 .. (n + Len(K)) : b = name(k)
        BY <3>5
      <4>2. b \in NamesIn(t) <=> \E k \in 1 .. n : b = name(k)
        BY <3>6, <3>8
      <4>3. b \in {m.leaf : m \in OuterOf(nest, a)} <=> \E k \in 1 .. Len(K) : b = name(n + k)
        BY <3>4, <3>7, <3>9
      <4> QED BY <3>10, <3>11, <4>1, <4>2, <4>3
    <3> QED BY <3>12
  <2> HIDE DEF Q, K, u
  <2> QED BY <1>8, <1>9, <1>11, <1>14, <2>1, <2>2, <2>3 DEF Unpacks
<1> QED BY <1>13, <1>14

LEMMA LoopIs ==
    ASSUME NEW nest, NestOf(nest)
    PROVE  \E f : LoopOf(nest, f)
<1> DEFINE W == Walks(nest)
           Stop == {s \in W : s.raised \/ s.pending = <<>>}
           next == [s \in W |-> IF s \in Stop THEN s ELSE Unpack(nest, s)]
<1>1. ASSUME NEW s \in W, s \notin Stop PROVE Unpack(nest, s) \in W
  <2>1. s.pending \in Seq(Frames(nest)) /\ s.pending # <<>> /\ ~s.raised
    BY <1>1 DEF Walks, Frames
  <2> DEFINE B == Front(s.pending)
             fr == Last(s.pending)
  <2>2. B \in Seq(Frames(nest)) /\ fr \in Frames(nest) /\ s.pending = Append(B, fr)
    <3> DEFINE p == s.pending
    <3>1. p \in Seq(Frames(nest)) /\ p # <<>>
      BY <2>1
    <3>2. Len(p) \in Nat /\ Len(p) >= 1 /\ p[Len(p)] \in Frames(nest)
      <4> HIDE DEF p
      <4> QED BY <3>1
    <3>3. B = SubSeq(p, 1, Len(p) - 1) /\ fr = p[Len(p)]
      BY DEF Front, Last
    <3> HIDE DEF p, B, fr
    <3>4. B \in Seq(Frames(nest)) /\ Len(B) = Len(p) - 1 /\ \A k \in 1 .. Len(p) - 1 : B[k] = p[k]
      <4> DEFINE m == Len(p) - 1
                 q == SubSeq(p, 1, m)
                 F == Frames(nest)
      <4>1. p \in Seq(F) /\ 1 \in 1 .. Len(p) + 1 /\ m \in (1 - 1) .. Len(p)
        BY <3>1, <3>2
      <4> HIDE DEF m, F, p
      <4>2. q \in Seq(F)
        BY <4>1, SubSeqProperties
      <4>3. Len(q) = m /\ \A k \in 1 .. m : q[k] = p[k]
        <5>1. m \in Nat /\ m <= Len(p)
          BY <3>2 DEF m
        <5> QED BY <4>1, <5>1
      <4> QED BY <3>3, <4>2, <4>3 DEF m, F
    <3>5. p = Append(B, fr)
      BY <3>1, <3>2, <3>3, <3>4
    <3> QED BY <3>2, <3>3, <3>4, <3>5 DEF p
  <2> HIDE DEF B, fr
  <2> QED BY <2>1, <2>2, UnpackIs
<1>2. Stop \in SUBSET W /\ next \in [W -> W]
  <2> HIDE DEF Stop, W
  <2> QED BY <1>1 DEF Stop
<1>3. PICK f : f = [s \in W |-> IF s \in Stop THEN s ELSE f[next[s]]]
  <2> HIDE DEF Stop, W, next
  <2> QED BY <1>2, LoopExists
<1>4. f = [s \in W |-> f[s]]
  <2> DEFINE e(s) == IF s \in Stop THEN s ELSE f[next[s]]
  <2>1. f = [s \in W |-> e(s)]
    BY <1>3, Zenon
  <2> HIDE DEF e, W
  <2> QED BY <2>1
<1>5. ASSUME NEW s \in W
      PROVE  f[s] = IF s.raised \/ s.pending = <<>> THEN s ELSE f[Unpack(nest, s)]
  <2> DEFINE e(x) == IF x \in Stop THEN x ELSE f[next[x]]
  <2>1. f = [x \in W |-> e(x)]
    BY <1>3, Zenon
  <2>2. f[s] = e(s)
    <3> HIDE DEF e, W
    <3> QED BY <2>1
  <2>3. s \in Stop <=> s.raised \/ s.pending = <<>>
    OBVIOUS
  <2>4. s \notin Stop => next[s] = Unpack(nest, s)
    <3> HIDE DEF Stop, W
    <3> QED OBVIOUS
  <2> QED BY <2>2, <2>3, <2>4
<1>6. LoopOf(nest, f)
  <2> DEFINE d(s) == IF s.raised \/ s.pending = <<>> THEN s ELSE f[Unpack(nest, s)]
  <2>1. \A s \in W : f[s] = d(s)
    BY <1>5
  <2> HIDE DEF d, W
  <2>2. f = [s \in W |-> d(s)]
    BY <1>4, <2>1, Zenon
  <2> QED BY <2>2, Zenon DEF LoopOf, d, W
<1> QED BY <1>6

LEMMA LoopStep ==
    ASSUME NEW nest, NEW f, LoopOf(nest, f), NEW s \in Walks(nest)
    PROVE  f[s] = IF s.raised \/ s.pending = <<>> THEN s ELSE f[Unpack(nest, s)]
<1> DEFINE e(x) == IF x.raised \/ x.pending = <<>> THEN x ELSE f[Unpack(nest, x)]
           W == Walks(nest)
<1>1. f = [x \in W |-> e(x)]
  BY Zenon DEF LoopOf
<1>2. s \in W
  OBVIOUS
<1>3. f[s] = e(s)
  <2> HIDE DEF e, W
  <2> QED BY <1>1, <1>2
<1> QED BY <1>3

LEMMA BelowIs ==
    ASSUME NEW nest, NestOf(nest)
    PROVE  /\ \E g : BelowOf(nest, g)
           /\ \A g : BelowOf(nest, g) =>
                \A levels \in 0 .. MaxArchiveDepth, a \in DOMAIN nest :
                   g[levels][a] = IF levels = 0 \/ nest[a].fails THEN {0} ELSE NamesUnder(nest, a, g[levels - 1])
<1> DEFINE N == MaxArchiveDepth
           D == DOMAIN nest
           Here(a, levels, h) == IF levels = 0 \/ nest[a].fails THEN {0} ELSE NamesUnder(nest, a, h)
           A == [D -> SUBSET Nat]
           first == [a \in D |-> {0}]
           To(n, h) == [a \in D |-> Here(a, n, h)]
<1>1. N \in Nat /\ first \in A
  BY PreparationAssumption
<1>2. ASSUME NEW n \in 1 .. N, NEW h \in A PROVE To(n, h) \in A
  <2>1. ASSUME NEW a \in D PROVE Here(a, n, h) \in SUBSET Nat
    <3>1. ASSUME NEW m \in Range(nest[a].members)
          PROVE  (IF m.archive = 0 THEN {m.leaf} ELSE h[m.archive]) \in SUBSET Nat
      <4>1. nest[a].members \in Seq(Member) /\ (m.archive # 0 => m.archive \in D)
        BY DEF NestOf
      <4>2. m \in Member
        BY <4>1 DEF Range
      <4> QED BY <4>1, <4>2 DEF Member
    <3>2. NamesUnder(nest, a, h) \in SUBSET Nat
      BY <3>1 DEF NamesUnder
    <3> QED BY <3>2
  <2> HIDE DEF Here, D
  <2> QED BY <2>1
<1>3. \A h : \A a \in D : Here(a, 0, h) = {0}
  OBVIOUS
<1> DEFINE step == [x \in (1 .. N) \X A |-> To(x[1], x[2])]
<1>4. step \in [(1 .. N) \X A -> A]
  <2> HIDE DEF A, To, N
  <2> QED BY <1>2
<1>5. PICK g \in [0 .. N -> A] : Iterates(g, N, first, step)
  <2> HIDE DEF step, A, first, N
  <2> QED BY <1>1, <1>4, RecursionExists
<1>6. ASSUME NEW n \in 0 .. N PROVE g[n] = [a \in D |-> Here(a, n, g[n - 1])]
  <2>1. CASE n = 0
    <3>1. g[n] = first
      BY <1>5, <2>1 DEF Iterates
    <3>2. \A a \in D : Here(a, n, g[n - 1]) = {0}
      BY <1>3, <2>1
    <3> HIDE DEF Here, D
    <3> QED BY <3>1, <3>2
  <2>2. CASE n # 0
    <3>1. n \in 1 .. N /\ n - 1 \in 0 .. N
      BY <1>1, <2>2
    <3>2. g[n - 1] \in A
      <4> HIDE DEF A, N
      <4> QED BY <3>1
    <3>3. g[n] = step[<<n, g[n - 1]>>]
      <4> HIDE DEF step, A, first, N
      <4> QED BY <1>5, <3>1 DEF Iterates
    <3>4. step[<<n, g[n - 1]>>] = To(n, g[n - 1])
      <4> HIDE DEF A, To, N
      <4> QED BY <3>1, <3>2
    <3> QED BY <3>3, <3>4
  <2> QED BY <2>1, <2>2
<1>7. BelowOf(nest, g)
  <2> DEFINE e(n) == [a \in D |-> Here(a, n, g[n - 1])]
  <2>1. \A n \in 0 .. N : g[n] = e(n)
    BY <1>6
  <2> HIDE DEF e
  <2>2. g = [n \in 0 .. N |-> e(n)]
    <3> HIDE DEF N, A
    <3> QED BY <2>1
  <2> QED BY <2>2, Zenon DEF BelowOf, e
<1>8. ASSUME NEW h, BelowOf(nest, h), NEW levels \in 0 .. N, NEW a \in D
      PROVE  h[levels][a] = Here(a, levels, h[levels - 1])
  <2> DEFINE e(n) == [b \in D |-> Here(b, n, h[n - 1])]
  <2>1. h = [n \in 0 .. N |-> e(n)]
    BY <1>8, Zenon DEF BelowOf
  <2>2. h[levels] = e(levels)
    <3> HIDE DEF e, N
    <3> QED BY <2>1
  <2> HIDE DEF Here, D
  <2> QED BY <2>2
<1> QED BY <1>7, <1>8

\* What the loop makes of t once it is through with what lies above B on the stack:
\* E are the names it finds there.
Comes(nest, f, t, B, E) ==
    IF 0 \in E THEN f[t].raised
    ELSE \E u \in Walks(nest) : f[t] = f[u] /\ ~u.raised /\ u.pending = B /\ NamesIn(u) = NamesIn(t) \cup E

FramesAt(nest, d) == [archive : DOMAIN nest, depth : {MaxArchiveDepth - d}]
AllUnder(g, d, Q) == UNION {g[d][Q[k].archive] : k \in DOMAIN Q}
PopsOne(nest, f, g, d) ==
    \A t \in Walks(nest), B \in Seq(Frames(nest)), fr \in FramesAt(nest, d) :
       ~t.raised /\ t.pending = Append(B, fr) => Comes(nest, f, t, B, g[d][fr.archive])
PopsAll(nest, f, g, d) ==
    \A t \in Walks(nest), B \in Seq(Frames(nest)), Q \in Seq(FramesAt(nest, d)) :
       ~t.raised /\ t.pending = B \o Q => Comes(nest, f, t, B, AllUnder(g, d, Q))

\* Several archives on the stack, from the one on top down.
LEMMA PopsMany ==
    ASSUME NEW nest, NEW f, NEW g, NEW d \in 0 .. MaxArchiveDepth, PopsOne(nest, f, g, d)
    PROVE  PopsAll(nest, f, g, d)
<1> DEFINE F == Frames(nest)
           D == FramesAt(nest, d)
           W == Walks(nest)
           Of(n) == \A t \in W, B \in Seq(F), Q \in Seq(D) :
                       Len(Q) = n /\ ~t.raised /\ t.pending = B \o Q => Comes(nest, f, t, B, AllUnder(g, d, Q))
           S == {n \in Nat : Of(n)}
<1>0. D \subseteq F
  BY PreparationAssumption DEF FramesAt, Frames
<1> HIDE DEF D, F, W
<1>1. Of(0)
  <2> SUFFICES ASSUME NEW t \in W, NEW B \in Seq(F), NEW Q \in Seq(D),
                      Len(Q) = 0, ~t.raised, t.pending = B \o Q
               PROVE  Comes(nest, f, t, B, AllUnder(g, d, Q))
    OBVIOUS
  <2>1. Q = <<>>
    OBVIOUS
  <2>2. B \o Q = B
    BY <2>1
  <2>3. AllUnder(g, d, Q) = {}
    BY <2>1 DEF AllUnder
  <2>4. NamesIn(t) = NamesIn(t) \cup {}
    OBVIOUS
  <2> QED BY <2>2, <2>3, <2>4 DEF Comes, W
<1>2. ASSUME NEW n \in Nat, Of(n) PROVE Of(n + 1)
  <2> SUFFICES ASSUME NEW t \in W, NEW B \in Seq(F), NEW Q \in Seq(D),
                      Len(Q) = n + 1, ~t.raised, t.pending = B \o Q
               PROVE  Comes(nest, f, t, B, AllUnder(g, d, Q))
    OBVIOUS
  <2> DEFINE fr == Q[n + 1]
             R == SubSeq(Q, 1, n)
  <2>1. fr \in D /\ R \in Seq(D) /\ Len(R) = n /\ \A k \in 1 .. n : R[k] = Q[k]
    <3>1. n + 1 \in 1 .. Len(Q) /\ \A k \in 1 .. n : k \in 1 .. Len(Q)
      OBVIOUS
    <3> QED BY <3>1
  <2> HIDE DEF fr, R
  <2>2. R \in Seq(F) /\ Q \in Seq(F) /\ fr \in F
    BY <1>0, <2>1, SequenceWidens
  <2>3. B \o R \in Seq(F) /\ t.pending = Append(B \o R, fr)
    <3>1. Q = Append(R, fr)
      BY <2>1 DEF fr
    <3>2. B \o Append(R, fr) = Append(B \o R, fr)
      BY <2>2
    <3> QED BY <2>2, <3>1, <3>2
  <2> DEFINE E == g[d][fr.archive]
             X == AllUnder(g, d, R)
  <2>4. Comes(nest, f, t, B \o R, E)
    BY <2>1, <2>3 DEF PopsOne, D, F, W
  <2>5. AllUnder(g, d, Q) = X \cup E
    <3> DEFINE e(k) == g[d][Q[k].archive]
    <3>1. DOMAIN Q = 1 .. n + 1 /\ DOMAIN R = 1 .. n
      BY <2>1
    <3>2. AllUnder(g, d, Q) = UNION {e(k) : k \in 1 .. n + 1}
      BY <3>1 DEF AllUnder
    <3>3. X = UNION {e(k) : k \in 1 .. n}
      BY <2>1, <3>1 DEF AllUnder
    <3>4. E = e(n + 1)
      BY DEF fr
    <3>5. 1 .. n + 1 = (1 .. n) \cup {n + 1}
      OBVIOUS
    <3> HIDE DEF e, E, X
    <3> QED BY <3>2, <3>3, <3>4, <3>5
  <2> HIDE DEF E, X
  <2>6. CASE 0 \in E
    BY <2>4, <2>5, <2>6 DEF Comes
  <2>7. CASE 0 \notin E
    <3>1. PICK u \in W : f[t] = f[u] /\ ~u.raised /\ u.pending = B \o R /\ NamesIn(u) = NamesIn(t) \cup E
      BY <2>4, <2>7 DEF Comes, W
    <3>2. Comes(nest, f, u, B, X)
      BY <1>2, <2>1, <3>1 DEF X
    <3>3. CASE 0 \in X
      BY <2>5, <3>1, <3>2, <3>3 DEF Comes
    <3>4. CASE 0 \notin X
      <4>1. PICK v \in W : f[u] = f[v] /\ ~v.raised /\ v.pending = B /\ NamesIn(v) = NamesIn(u) \cup X
        BY <3>2, <3>4 DEF Comes, W
      <4>2. f[t] = f[v] /\ NamesIn(v) = NamesIn(t) \cup (X \cup E)
        BY <3>1, <4>1
      <4>3. 0 \notin X \cup E
        BY <2>7, <3>4
      <4> QED BY <2>5, <4>1, <4>2, <4>3 DEF Comes, W
    <3> QED BY <3>3, <3>4
  <2> QED BY <2>6, <2>7
<1>3. Nat \subseteq S
  <2>1. 0 \in S /\ \A n \in Nat : n \in S => n + 1 \in S
    <3> HIDE DEF Of
    <3> QED BY <1>1, <1>2
  <2> HIDE DEF S
  <2> QED BY <2>1, SetInduction
<1>4. \A n \in Nat : Of(n)
  <2> HIDE DEF Of
  <2> QED BY <1>3
<1>5. \A Q \in Seq(D) : Len(Q) \in Nat
  OBVIOUS
<1> QED BY <1>4, <1>5 DEF PopsAll, D, F, W

\* One archive, when those in it are taken care of.
LEMMA PopsNext ==
    ASSUME NEW nest, NestOf(nest), NEW f, LoopOf(nest, f), NEW g, BelowOf(nest, g),
           NEW d \in 0 .. MaxArchiveDepth, d # 0 => PopsAll(nest, f, g, d - 1)
    PROVE  PopsOne(nest, f, g, d)
<1> DEFINE W == Walks(nest)
<1> SUFFICES ASSUME NEW t \in W, NEW B \in Seq(Frames(nest)), NEW fr \in FramesAt(nest, d),
                    ~t.raised, t.pending = Append(B, fr)
             PROVE  Comes(nest, f, t, B, g[d][fr.archive])
  BY DEF PopsOne
<1> DEFINE a == fr.archive
           u == Unpack(nest, t)
<1>1. a \in DOMAIN nest /\ fr.depth = MaxArchiveDepth - d /\ fr \in Frames(nest)
  BY PreparationAssumption DEF FramesAt, Frames
<1>2. g[d][a] = IF d = 0 \/ nest[a].fails THEN {0} ELSE NamesUnder(nest, a, g[d - 1])
  BY <1>1, BelowIs
<1>3. fr.depth >= MaxArchiveDepth <=> d = 0
  BY <1>1, PreparationAssumption
<1>4. u \in W /\ Unpacks(nest, B, fr, t, u)
  BY <1>1, UnpackIs
<1>5. f[t] = f[u]
  <2>1. t.pending # <<>>
    <3>1. Len(Append(B, fr)) = Len(B) + 1 /\ Len(B) \in Nat
      OBVIOUS
    <3> QED BY <3>1
  <2> QED BY <2>1, LoopStep
<1> HIDE DEF u
<1>6. CASE d = 0 \/ nest[a].fails
  <2>1. u.raised
    BY <1>3, <1>4, <1>6 DEF Unpacks
  <2>2. f[u] = u
    BY <1>4, <2>1, LoopStep
  <2>3. 0 \in g[d][a]
    BY <1>2, <1>6
  <2> QED BY <1>5, <2>1, <2>2, <2>3 DEF Comes
<1>7. CASE ~(d = 0 \/ nest[a].fails)
  <2> DEFINE O == {m.leaf : m \in OuterOf(nest, a)}
  <2>1. d - 1 \in 0 .. MaxArchiveDepth /\ fr.depth + 1 = MaxArchiveDepth - (d - 1)
    BY <1>1, <1>7, PreparationAssumption
  <2>2. ~u.raised /\ NamesIn(u) = NamesIn(t) \cup O
    BY <1>3, <1>4, <1>7 DEF Unpacks
  <2>3. PICK Q \in Seq(FramesAt(nest, d - 1)) :
           u.pending = B \o Q /\ {Q[k].archive : k \in DOMAIN Q} = {m.archive : m \in InnerOf(nest, a)}
    BY <1>3, <1>4, <1>7, <2>1 DEF FramesAt, Unpacks
  <2> DEFINE E == AllUnder(g, d - 1, Q)
  <2>4. Comes(nest, f, u, B, E)
    BY <1>4, <1>7, <2>2, <2>3 DEF PopsAll
  <2>5. g[d][a] = O \cup E
    <3> DEFINE h == g[d - 1]
               M == Range(nest[a].members)
               of(m) == IF m.archive = 0 THEN {m.leaf} ELSE h[m.archive]
               I == InnerOf(nest, a)
               Z == OuterOf(nest, a)
    <3>1. g[d][a] = UNION {of(m) : m \in M}
      BY <1>2, <1>7 DEF NamesUnder
    <3>2. E = UNION {h[b] : b \in {m.archive : m \in I}}
      <4>1. E = UNION {h[b] : b \in {Q[k].archive : k \in DOMAIN Q}}
        BY DEF AllUnder
      <4> QED BY <2>3, <4>1
    <3>3. E = UNION {h[m.archive] : m \in I}
      <4> HIDE DEF E, h, I
      <4> QED BY <3>2
    <3>4. (\A m : m \in M <=> m \in I \/ m \in Z) /\ (\A m \in I : of(m) = h[m.archive]) /\ (\A m \in Z : of(m) = {m.leaf})
      BY DEF InnerOf, OuterOf
    <3> DEFINE V == g[d][a]
    <3>5. V = UNION {of(m) : m \in M}
      BY <3>1
    <3>6. ASSUME NEW x PROVE x \in V <=> x \in O \cup E
      <4>1. x \in V <=> \E m \in M : x \in of(m)
        <5> HIDE DEF V, of, M
        <5> QED BY <3>5
      <4>2. x \in E <=> \E m \in I : x \in h[m.archive]
        <5> HIDE DEF E, h, I
        <5> QED BY <3>3
      <4>3. x \in O <=> \E m \in Z : x \in {m.leaf}
        OBVIOUS
      <4> HIDE DEF V, of, M, E, h, I, O, Z
      <4> QED BY <3>4, <4>1, <4>2, <4>3
    <3>7. V = O \cup E
      <4> HIDE DEF V, O, E
      <4> QED BY <3>6
    <3> QED BY <3>7
  <2>6. 0 \notin O
    <3>1. \A m \in OuterOf(nest, a) : m.leaf # 0
      BY <1>1 DEF OuterOf, NestOf
    <3> QED BY <3>1
  <2> HIDE DEF E, O
  <2>7. CASE 0 \in E
    <3>1. 0 \in g[d][a] /\ f[t].raised
      BY <1>5, <2>4, <2>5, <2>7 DEF Comes
    <3> QED BY <3>1 DEF Comes
  <2>8. CASE 0 \notin E
    <3>1. PICK v \in W : f[u] = f[v] /\ ~v.raised /\ v.pending = B /\ NamesIn(v) = NamesIn(u) \cup E
      BY <2>4, <2>8 DEF Comes
    <3>2. f[t] = f[v] /\ NamesIn(v) = NamesIn(t) \cup (O \cup E) /\ 0 \notin O \cup E
      BY <1>5, <2>2, <2>6, <2>8, <3>1
    <3> QED BY <2>5, <3>1, <3>2 DEF Comes
  <2> QED BY <2>7, <2>8
<1> QED BY <1>6, <1>7

LEMMA PopsAt ==
    ASSUME NEW nest, NestOf(nest), NEW f, LoopOf(nest, f), NEW g, BelowOf(nest, g)
    PROVE  PopsOne(nest, f, g, MaxArchiveDepth)
<1> DEFINE N == MaxArchiveDepth
           S == {d \in 0 .. N : PopsOne(nest, f, g, d)}
<1>1. N \in Nat
  BY PreparationAssumption
<1>2. 0 \in S
  BY <1>1, PopsNext
<1>3. ASSUME NEW d \in 0 .. N, d \in S, d < N PROVE d + 1 \in S
  <2>1. d + 1 \in 0 .. N /\ (d + 1) - 1 = d
    BY <1>1, <1>3
  <2>2. PopsAll(nest, f, g, d)
    BY <1>3, PopsMany
  <2>3. PopsOne(nest, f, g, d + 1)
    BY <2>1, <2>2, PopsNext
  <2> QED BY <2>1, <2>3
<1>4. 0 .. N \subseteq S
  <2> HIDE DEF S, N
  <2> QED BY <1>1, <1>2, <1>3, IntervalInduction
<1> QED BY <1>1, <1>4

\* Where a leaf is unpacked to, and what lies there.
Stages == {"stage"} \X Nat \X Nat
Stored(nest) == {<<m>> : m \in LeafMembers(nest)}

\* r is a nest unpacked, and L the names of its leaves.
UnpacksTo(nest, r, L) ==
    /\ r.raised <=> 0 \in L \/ L = {}
    /\ ~r.raised => /\ r.leaves \in Seq(Lies(Stages, Stored(nest)))
                    /\ OneEach(Range(r.leaves)) /\ ~Missed(Range(r.leaves))
                    /\ {x.content[1].leaf : x \in Range(r.leaves)} = L

LEMMA NestIs ==
    ASSUME NEW nest, NestOf(nest)
    PROVE  UnpacksTo(nest, DecompressArchive(nest, 1), LeavesOf(nest))
<1> DEFINE W == Walks(nest)
           c == CHOOSE h : LoopOf(nest, h)
           b == CHOOSE h : BelowOf(nest, h)
           fr == [archive |-> 1, depth |-> 0]
           s0 == [pending |-> <<fr>>, stage |-> 0, leaves |-> <<>>, raised |-> FALSE]
           done == c[s0]
           r == DecompressArchive(nest, 1)
           L == LeavesOf(nest)
           file(l) == [path |-> <<"stage", l.stage, l.leaf.leaf>>, content |-> <<l.leaf>>]
<1>1. LoopOf(nest, c) /\ BelowOf(nest, b)
  <2>1. (\E h : LoopOf(nest, h)) /\ \E h : BelowOf(nest, h)
    BY LoopIs, BelowIs
  <2> QED BY <2>1, Zenon
<1>2. r = [raised |-> done.raised \/ done.leaves = <<>>,
           leaves |-> [k \in DOMAIN done.leaves |-> file(done.leaves[k])]]
  BY Zenon DEF DecompressArchive, LoopOf
<1>3. L = b[MaxArchiveDepth][1]
  BY Zenon DEF LeavesOf, BelowOf, NamesUnder
<1> HIDE DEF c, b, L, r
<1>4. fr \in FramesAt(nest, MaxArchiveDepth) /\ fr \in Frames(nest)
  BY PreparationAssumption DEF NestOf, FramesAt, Frames
<1>5. s0 \in W /\ s0.pending = Append(<<>>, fr) /\ ~s0.raised /\ NamesIn(s0) = {} /\ <<>> \in Seq(Frames(nest))
  <2>1. <<fr>> \in Seq(Frames(nest)) /\ <<fr>> = Append(<<>>, fr)
    BY <1>4
  <2>2. s0 \in W
    BY <2>1 DEF Walks, Frames
  <2>3. s0.pending = <<fr>> /\ ~s0.raised /\ s0.leaves = <<>>
    OBVIOUS
  <2> HIDE DEF fr, s0
  <2>4. NamesIn(s0) = {}
    BY <2>3 DEF NamesIn
  <2> QED BY <2>1, <2>2, <2>3, <2>4
<1>6. Comes(nest, c, s0, <<>>, L)
  <2>1. PopsOne(nest, c, b, MaxArchiveDepth)
    BY <1>1, PopsAt
  <2>2. fr.archive = 1
    OBVIOUS
  <2> HIDE DEF fr, s0
  <2> QED BY <1>3, <1>4, <1>5, <2>1, <2>2 DEF PopsOne
<1> HIDE DEF fr, s0
<1>7. CASE 0 \in L
  <2>1. done.raised
    BY <1>6, <1>7 DEF Comes
  <2>2. r.raised
    BY <1>2, <2>1
  <2> QED BY <1>7, <2>2 DEF UnpacksTo, r, L
<1>8. CASE 0 \notin L
  <2>1. PICK u \in W : c[s0] = c[u] /\ ~u.raised /\ u.pending = <<>> /\ NamesIn(u) = NamesIn(s0) \cup L
    BY <1>6, <1>8 DEF Comes
  <2>2. done = u /\ NamesIn(u) = L
    BY <1>1, <1>5, <2>1, LoopStep
  <2> HIDE DEF done
  <2> DEFINE q == u.leaves
             n == Len(q)
             K == [k \in DOMAIN q |-> file(q[k])]
             P == Stages
             C == Stored(nest)
  <2>3. q \in Seq([stage : Nat, leaf : LeafMembers(nest)])
    BY DEF Walks
  <2>4. n \in Nat /\ DOMAIN q = 1 .. n /\ \A k \in 1 .. n : q[k].stage \in Nat /\ q[k].leaf \in LeafMembers(nest)
    <3> DEFINE T == [stage : Nat, leaf : LeafMembers(nest)]
    <3>1. q \in Seq(T)
      BY <2>3
    <3>2. n \in Nat /\ DOMAIN q = 1 .. n /\ \A k \in 1 .. n : q[k] \in T
      <4> HIDE DEF q, T
      <4> QED BY <3>1
    <3> HIDE DEF q, n
    <3> QED BY <3>2
  <2>5. \A m \in LeafMembers(nest) : m \in [leaf : Nat, archive : {0}]
    <3> SUFFICES ASSUME NEW m \in LeafMembers(nest) PROVE m \in [leaf : Nat, archive : {0}]
      OBVIOUS
    <3>1. PICK a \in DOMAIN nest : m \in Range(nest[a].members)
      BY DEF LeafMembers
    <3>2. m.archive = 0
      BY DEF LeafMembers
    <3>3. m \in Member
      BY <3>1 DEF NestOf, Range
    <3> QED BY <3>2, <3>3 DEF Member
  <2>6. r.leaves = K /\ (r.raised <=> q = <<>>)
    BY <1>2, <2>1, <2>2
  <2>7. L = {q[k].leaf.leaf : k \in 1 .. n}
    BY <2>2, <2>4 DEF NamesIn
  <2>8. q = <<>> <=> L = {}
    <3> HIDE DEF q, n
    <3>1. CASE q = <<>>
      <4>1. n = 0
        BY <3>1 DEF n
      <4> QED BY <2>7, <3>1, <4>1
    <3>2. CASE q # <<>>
      <4>1. n >= 1
        BY <2>3, <2>4, <3>2 DEF n
      <4>2. 1 \in 1 .. n
        BY <2>4, <4>1
      <4> QED BY <2>7, <3>2, <4>2
    <3> QED BY <3>1, <3>2
  <2> HIDE DEF q, n
  <2>9. \A k \in 1 .. n : file(q[k]) \in Lies(P, C)
    <3> SUFFICES ASSUME NEW k \in 1 .. n PROVE file(q[k]) \in Lies(P, C)
      OBVIOUS
    <3>1. <<"stage", q[k].stage, q[k].leaf.leaf>> \in P
      BY <2>4, <2>5 DEF Stages
    <3>2. <<q[k].leaf>> \in C
      BY <2>4 DEF Stored
    <3> QED BY <3>1, <3>2 DEF Lies
  <2>10. K \in Seq(Lies(P, C)) /\ DOMAIN K = 1 .. n /\ \A k \in 1 .. n : K[k] = file(q[k])
    <3> DEFINE e(k) == file(q[k])
               X == Lies(P, C)
    <3>1. \A k \in 1 .. n : e(k) \in X
      BY <2>9
    <3>2. K = [k \in 1 .. n |-> e(k)]
      BY <2>4
    <3> HIDE DEF e, X, K
    <3>3. K \in Seq(X) /\ DOMAIN K = 1 .. n /\ \A k \in 1 .. n : K[k] = e(k)
      BY <2>4, <3>1, <3>2
    <3> QED BY <3>3 DEF e, X
  <2> HIDE DEF K
  <2>11. \A x : x \in Range(K) <=> \E k \in 1 .. n : x = file(q[k])
    BY <2>10 DEF Range
  <2>12. OneEach(Range(K))
    <3> SUFFICES ASSUME NEW x \in Range(K), NEW y \in Range(K), x.path = y.path PROVE x = y
      BY DEF OneEach
    <3>1. PICK i \in 1 .. n : x = file(q[i])
      BY <2>11
    <3>2. PICK j \in 1 .. n : y = file(q[j])
      BY <2>11
    <3>3. q[i].stage = q[j].stage /\ q[i].leaf.leaf = q[j].leaf.leaf
      BY <3>1, <3>2
    <3>4. q[i].leaf \in [leaf : Nat, archive : {0}] /\ q[j].leaf \in [leaf : Nat, archive : {0}]
      BY <2>4, <2>5
    <3>5. q[i].leaf = q[j].leaf
      BY <3>3, <3>4
    <3> QED BY <3>1, <3>2, <3>3, <3>5
  <2>13. ~Missed(Range(K))
    <3>1. \A k \in 1 .. n : file(q[k]).content # <<>>
      OBVIOUS
    <3> HIDE DEF file
    <3> QED BY <2>11, <3>1 DEF Missed
  <2>14. {x.content[1].leaf : x \in Range(K)} = L
    <3> DEFINE V == {x.content[1].leaf : x \in Range(K)}
    <3>1. \A k \in 1 .. n : file(q[k]).content[1].leaf = q[k].leaf.leaf
      OBVIOUS
    <3> HIDE DEF file
    <3>2. \A x : x \in V <=> \E k \in 1 .. n : x = q[k].leaf.leaf
      BY <2>11, <3>1
    <3>3. \A x : x \in L <=> \E k \in 1 .. n : x = q[k].leaf.leaf
      BY <2>7
    <3> HIDE DEF V
    <3>4. V = L
      BY <3>2, <3>3
    <3> QED BY <3>4 DEF V
  <2>15. UnpacksTo(nest, r, L)
    <3> HIDE DEF P, C
    <3> QED BY <1>8, <2>6, <2>8, <2>10, <2>12, <2>13, <2>14 DEF UnpacksTo, P, C
  <2> QED BY <2>15 DEF r, L
<1> QED BY <1>7, <1>8

\* evidence/access.py:243-291, prepare.py: the leaves of a nest are registered, all
\* of them and nothing else, or none when an archive of it fails or lies too deep.
THEOREM NestsAreUnpacked ==
    ASSUME NEW nest, NestOf(nest)
    PROVE  NestLaw(nest)
<1> DEFINE p == PrepareArchive({}, nest, 1)
           L == LeavesOf(nest)
           r == DecompressArchive(nest, 1)
           G == r.leaves
           P == Stages
           C == Stored(nest)
<1>1. UnpacksTo(nest, r, L)
  BY NestIs
<1>2. p = IF r.raised THEN [registry |-> {}, exit |-> 1] ELSE RegisterAll({}, G)
  BY DEF PrepareArchive
<1>3. {} \in Registry(P, C)
  BY DEF Registry, OneEach
<1> HIDE DEF p, L, r, P, C
<1>4. CASE 0 \in L \/ L = {}
  BY <1>1, <1>2, <1>4 DEF NestLaw, UnpacksTo, p, L
<1>5. CASE ~(0 \in L \/ L = {})
  <2>1. ~r.raised /\ G \in Seq(Lies(P, C)) /\ OneEach(Range(G)) /\ ~Missed(Range(G))
    BY <1>1, <1>5 DEF UnpacksTo, P, C
  <2>2. {x.content[1].leaf : x \in Range(G)} = L
    BY <1>1, <2>1 DEF UnpacksTo
  <2>3. Registers({}, Range(G), RegisterAll({}, G))
    <3> HIDE DEF G
    <3> QED BY <1>3, <2>1, RegisteredIs
  <2>4. {} \cup Range(G) = Range(G)
    OBVIOUS
  <2>5. p.exit = 0 /\ p.registry = Range(G)
    <3> HIDE DEF G
    <3> QED BY <1>2, <2>1, <2>3, <2>4 DEF Registers
  <2>6. {x.content[1].leaf : x \in p.registry} = L
    BY <2>2, <2>5
  <2> QED BY <1>5, <2>5, <2>6 DEF NestLaw, p, L
<1> QED BY <1>4, <1>5

\* Preparing again changes nothing: every file is known, with what it holds.
LEMMA PreparedOnce ==
    ASSUME NEW N, NEW image, ImageOf(N, image), NEW nest, NestOf(nest)
    PROVE  Repeated(Prepared({}, image, nest), image, nest)
<1> DEFINE specs == OpenImage(image)
           i == PrepareImage({}, image)
           all == Prepared({}, image, nest)
           r == DecompressArchive(nest, 1)
           F == ArtifactFiles(specs)
           G == r.leaves
           P == PathsOf(specs) \cup Stages
           C == ArtifactContents(specs) \cup Stored(nest)
<1> SUFFICES ASSUME all.exit = 0 PROVE Prepared(all.registry, image, nest) = all
  BY DEF Repeated
<1>1. specs \in Seq(Volumes(N))
  BY SpecsAre
<1>2. F \in Seq(Lies(P, C))
  <2>1. F \in Seq(Lies(PathsOf(specs), ArtifactContents(specs)))
    BY <1>1, ArtifactsAre
  <2>2. Lies(PathsOf(specs), ArtifactContents(specs)) \subseteq Lies(P, C)
    BY DEF Lies
  <2> HIDE DEF F, P, C
  <2> QED BY <2>1, <2>2, SequenceWidens
<1>3. ~r.raised => G \in Seq(Lies(P, C))
  <2>1. ~r.raised => G \in Seq(Lies(Stages, Stored(nest)))
    BY NestIs DEF UnpacksTo
  <2>2. Lies(Stages, Stored(nest)) \subseteq Lies(P, C)
    BY DEF Lies
  <2> HIDE DEF G, P, C, r
  <2> QED BY <2>1, <2>2, SequenceWidens
<1>4. \A reg : PrepareImage(reg, image) =
                 IF specs = <<>> THEN [registry |-> reg, exit |-> 1] ELSE RegisterAll(reg, F)
  BY PreparedIs DEF PrepareImage, PrepareFrom
<1>5. \A reg : PrepareArchive(reg, nest, 1) =
                 IF r.raised THEN [registry |-> reg, exit |-> 1] ELSE RegisterAll(reg, G)
  BY DEF PrepareArchive
<1>6. \A reg : Prepared(reg, image, nest) =
                 IF PrepareImage(reg, image).exit # 0 THEN PrepareImage(reg, image)
                 ELSE PrepareArchive(PrepareImage(reg, image).registry, nest, 1)
  BY DEF Prepared, Continue
<1> HIDE DEF specs, r, F, G, P, C, i, all
<1>7. all = IF i.exit # 0 THEN i ELSE PrepareArchive(i.registry, nest, 1)
  BY <1>6 DEF all, i
<1>8. i.exit = 0 /\ all = PrepareArchive(i.registry, nest, 1)
  BY <1>7
<1>9. specs # <<>> /\ i = RegisterAll({}, F)
  BY <1>4, <1>8 DEF i
<1>10. ~r.raised /\ all = RegisterAll(i.registry, G)
  BY <1>5, <1>8
<1>11. {} \in Registry(P, C)
  BY DEF Registry, OneEach
<1>12. i \in [registry : Registry(P, C), exit : 0 .. 2] /\ i.registry = Range(F) /\ ~Missed(Range(F))
  <2>1. i \in [registry : Registry(P, C), exit : 0 .. 2] /\ Registers({}, Range(F), i)
    BY <1>2, <1>9, <1>11, RegisteredIs
  <2>2. {} \cup Range(F) = Range(F)
    OBVIOUS
  <2> QED BY <1>8, <2>1, <2>2 DEF Registers
<1>13. /\ all \in [registry : Registry(P, C), exit : 0 .. 2]
       /\ all.registry = Range(F) \cup Range(G) /\ ~Missed(Range(G))
  <2>1. i.registry \in Registry(P, C) /\ G \in Seq(Lies(P, C))
    BY <1>3, <1>10, <1>12
  <2>2. all \in [registry : Registry(P, C), exit : 0 .. 2] /\ Registers(i.registry, Range(G), all)
    BY <1>10, <2>1, RegisteredIs
  <2> QED BY <1>12, <2>2 DEF Registers
<1> DEFINE reg == all.registry
<1>14. reg \in Registry(P, C) /\ OneEach(reg) /\ reg \cup Range(F) = reg /\ reg \cup Range(G) = reg
  BY <1>13 DEF Registry
<1>15. ASSUME NEW x \in [registry : Registry(P, C), exit : 0 .. 2], x.registry = reg, x.exit = 0 PROVE x = all
  <2> DEFINE R == Registry(P, C)
             E == 0 .. 2
  <2>1. x \in [registry : R, exit : E] /\ all \in [registry : R, exit : E]
    BY <1>13
  <2>2. x.registry = all.registry /\ x.exit = all.exit
    BY <1>15
  <2> HIDE DEF R, E
  <2> QED BY <2>1, <2>2
<1> HIDE DEF reg
<1>16. RegisterAll(reg, F) = all
  <2>1. RegisterAll(reg, F) \in [registry : Registry(P, C), exit : 0 .. 2] /\ Registers(reg, Range(F), RegisterAll(reg, F))
    BY <1>2, <1>14, RegisteredIs
  <2>2. RegisterAll(reg, F).exit = 0 /\ RegisterAll(reg, F).registry = reg
    BY <1>12, <1>14, <2>1 DEF Registers
  <2> QED BY <1>15, <2>1, <2>2
<1>17. RegisterAll(reg, G) = all
  <2>1. RegisterAll(reg, G) \in [registry : Registry(P, C), exit : 0 .. 2] /\ Registers(reg, Range(G), RegisterAll(reg, G))
    BY <1>3, <1>10, <1>14, RegisteredIs
  <2>2. RegisterAll(reg, G).exit = 0 /\ RegisterAll(reg, G).registry = reg
    BY <1>13, <1>14, <2>1 DEF Registers
  <2> QED BY <1>15, <2>1, <2>2
<1>18. PrepareImage(reg, image) = all /\ PrepareArchive(reg, nest, 1) = all
  BY <1>4, <1>5, <1>9, <1>10, <1>16, <1>17
<1>19. Prepared(reg, image, nest) = all
  <2>1. all.registry = reg
    BY DEF reg
  <2> QED BY <1>6, <1>18, <2>1
<1> QED BY <1>19 DEF reg

\* evidence/artifacts.py:56-61, prepare.py: the registry of an image is right, and
\* preparing it again with the archives changes nothing.
THEOREM ImagesArePrepared ==
    ASSUME NEW N, NEW image, ImageOf(N, image), NEW nest, NestOf(nest)
    PROVE  PreparedLaw(image, nest)
BY ImageRegistered, PreparedOnce DEF PreparedLaw

-----------------------------------------------------------------------------
(* The run's images and nests *)

FileNames == {"Logs", "$a", "_a", "Users", "u", "NTUSER", "$MFT", "Recent", "a"}

PrepareInput ==
    /\ input.law = "image" => ImageOf(FileNames, input.image)
    /\ input.law = "nest" => NestOf(input.nest)

LEMMA HeldTyped ==
    ASSUME NEW N, NEW L \in SUBSET (Seq(N) \ {<<>>}), IsFiniteSet(L),
           NEW hows \in SUBSET Hows, NEW f \in Held(L, hows), NEW b \in SUBSET {"NTFS", "TSK"}
    PROVE  Volume(f, b) \in Volumes(N)
<1>1. PICK D \in SUBSET L : f \in [D -> hows]
  BY DEF Held
<1>2. D \in FileSets(N)
  BY FS_Subset DEF FileSets
<1>3. f \in [D -> Hows]
  BY <1>1
<1>4. f \in UNION {[E -> Hows] : E \in FileSets(N)}
  BY <1>2, <1>3
<1> QED BY <1>4 DEF Volume, Volumes

LEMMA PlacesTyped ==
    /\ Near \in SUBSET (Seq(FileNames) \ {<<>>}) /\ IsFiniteSet(Near)
    /\ Far \in SUBSET (Seq(FileNames) \ {<<>>}) /\ IsFiniteSet(Far)
<1>1. ASSUME NEW x, NEW y, NEW z PROVE IsFiniteSet({x, y, z})
  <2> DEFINE A == {x}
             B == {y}
             C == {z}
  <2>1. {x, y, z} = (A \cup B) \cup C
    OBVIOUS
  <2>2. IsFiniteSet(A) /\ IsFiniteSet(B) /\ IsFiniteSet(C)
    BY FS_Singleton
  <2> HIDE DEF A, B, C
  <2>3. IsFiniteSet(A \cup B)
    BY <2>2, FS_Union
  <2>4. IsFiniteSet((A \cup B) \cup C)
    BY <2>2, <2>3, FS_Union
  <2> QED BY <2>1, <2>4
<1>2. IsFiniteSet(Near) /\ IsFiniteSet(Far)
  BY <1>1 DEF Near, Far
<1>3. ASSUME NEW x \in FileNames, NEW y \in FileNames, NEW z \in FileNames, NEW w \in FileNames
      PROVE  /\ <<x>> \in Seq(FileNames) \ {<<>>} /\ <<x, y>> \in Seq(FileNames) \ {<<>>}
             /\ <<x, y, z>> \in Seq(FileNames) \ {<<>>} /\ <<x, y, z, w>> \in Seq(FileNames) \ {<<>>}
  <2> DEFINE F == FileNames
  <2> HIDE DEF F
  <2>1. <<x>> \in Seq(F) /\ <<x, y>> \in Seq(F) /\ <<x, y, z>> \in Seq(F) /\ <<x, y, z, w>> \in Seq(F)
    BY DEF F
  <2>2. <<x>> # <<>> /\ <<x, y>> # <<>> /\ <<x, y, z>> # <<>> /\ <<x, y, z, w>> # <<>>
    OBVIOUS
  <2> QED BY <2>1, <2>2 DEF F
<1>4. /\ "Logs" \in FileNames /\ "$a" \in FileNames /\ "_a" \in FileNames /\ "Users" \in FileNames
      /\ "u" \in FileNames /\ "NTUSER" \in FileNames /\ "$MFT" \in FileNames /\ "Recent" \in FileNames
      /\ "a" \in FileNames
  BY DEF FileNames
<1> DEFINE P == Seq(FileNames) \ {<<>>}
<1>5. <<"Logs", "$a">> \in P /\ <<"Logs", "_a">> \in P /\ <<"Users", "u", "NTUSER">> \in P
  BY <1>3, <1>4
<1>6. <<"$MFT">> \in P /\ <<"Users", "u", "Recent", "a">> \in P
  BY <1>3, <1>4
<1>7. Near \in SUBSET P /\ Far \in SUBSET P
  <2> HIDE DEF P
  <2> QED BY <1>5, <1>6 DEF Near, Far
<1> QED BY <1>2, <1>7

LEMMA ImagesTyped == \A image \in Images : ImageOf(FileNames, image)
<1> SUFFICES ASSUME NEW image \in Images PROVE ImageOf(FileNames, image)
  OBVIOUS
<1> DEFINE N == FileNames
           V == Volumes(N)
           Two(f, g) == [partitions |-> <<Volume(f, {"TSK"}), Volume(g, {"NTFS", "TSK"})>>, medium |-> 0]
           One(f, b) == [partitions |-> <<>>, medium |-> Volume(f, b)]
           HN == Held(Near, {"whole", "cut", "empty"})
           HF == Held(Far, {"whole", "unreadable"})
           HM == Held(Far, {"whole", "cut"})
<1>1. Images = {Two(f, g) : f \in HN, g \in HF} \cup {One(f, b) : f \in HM, b \in {{}, {"NTFS"}}}
  BY DEF Images
<1>2. \A f \in HN : Volume(f, {"TSK"}) \in V
  BY PlacesTyped, HeldTyped DEF Hows
<1>3. \A f \in HF : Volume(f, {"NTFS", "TSK"}) \in V
  BY PlacesTyped, HeldTyped DEF Hows
<1>4. \A f \in HM, b \in {{}, {"NTFS"}} : Volume(f, b) \in V
  BY PlacesTyped, HeldTyped DEF Hows
<1>5. CASE \E f \in HN, g \in HF : image = Two(f, g)
  <2>1. PICK f \in HN, g \in HF : image = Two(f, g)
    BY <1>5
  <2> DEFINE x == Volume(f, {"TSK"})
             y == Volume(g, {"NTFS", "TSK"})
  <2>2. x \in V /\ y \in V
    BY <1>2, <1>3
  <2>3. image.partitions = <<x, y>>
    BY <2>1
  <2> HIDE DEF x, y, V
  <2>4. <<x, y>> \in Seq(V) /\ <<x, y>> # <<>>
    BY <2>2
  <2> QED BY <2>3, <2>4 DEF ImageOf, V
<1>6. CASE \E f \in HM, b \in {{}, {"NTFS"}} : image = One(f, b)
  <2>1. PICK f \in HM, b \in {{}, {"NTFS"}} : image = One(f, b)
    BY <1>6
  <2>2. image.partitions = <<>> /\ image.medium \in V
    BY <1>4, <2>1
  <2> HIDE DEF V
  <2>3. <<>> \in Seq(V)
    OBVIOUS
  <2> QED BY <2>2, <2>3 DEF ImageOf, V
<1> HIDE DEF Two, One, HN, HF, HM
<1> QED BY <1>1, <1>5, <1>6

LEMMA MembersTyped ==
    ASSUME NEW S \in SUBSET Member, IsFiniteSet(S),
           \A m \in S : IF m.archive = 0 THEN m.leaf # 0 ELSE m.archive \in 1 .. 3,
           NEW q \in Members(S)
    PROVE  q \in Seq(Member) /\ \A m \in Range(q) : IF m.archive = 0 THEN m.leaf # 0 ELSE m.archive \in 1 .. 3
<1>1. PICK T \in SUBSET S : q = SetToSeq(T)
  BY DEF Members
<1>2. IsFiniteSet(T)
  BY FS_Subset
<1>3. q \in Seq(T) /\ Range(q) = T
  BY <1>1, <1>2, SetToSeqIs
<1>4. q \in Seq(Member)
  BY <1>3, SequenceWidens
<1> QED BY <1>3, <1>4

LEMMA NestsTyped == NestOf(OneLeaf) /\ \A nest \in Nests : NestOf(nest)
<1> DEFINE Fits(m) == IF m.archive = 0 THEN m.leaf # 0 ELSE m.archive \in 1 .. 3
           X == {Leaf(1), Leaf(2), Inner(2), Inner(3)}
           Y == {Leaf(1), Inner(3)}
           Z == {Leaf(3)}
           At(f, m) == [fails |-> f, members |-> m]
           Three(m, n, o, f) == <<At(FALSE, m), At(FALSE, n), At(f, o)>>
<1>1. \A m \in X : m \in Member /\ Fits(m)
  BY DEF Leaf, Inner, Member
<1>2. X \in SUBSET Member /\ Y \in SUBSET Member /\ Z \in SUBSET Member
  BY DEF Leaf, Inner, Member
<1>3. (\A m \in X : Fits(m)) /\ (\A m \in Y : Fits(m)) /\ (\A m \in Z : Fits(m))
  BY DEF Leaf, Inner
<1>4. IsFiniteSet(X) /\ IsFiniteSet(Y) /\ IsFiniteSet(Z)
  <2>1. ASSUME NEW x, NEW y PROVE IsFiniteSet({x}) /\ IsFiniteSet({x, y})
    <3> DEFINE A == {x}
               B == {y}
    <3>1. {x, y} = A \cup B
      OBVIOUS
    <3>2. IsFiniteSet(A) /\ IsFiniteSet(B)
      BY FS_Singleton
    <3>3. IsFiniteSet(A \cup B)
      <4> HIDE DEF A, B
      <4> QED BY <3>2, FS_Union
    <3> QED BY <3>1, <3>2, <3>3
  <2>2. X = {Leaf(1), Leaf(2)} \cup {Inner(2), Inner(3)}
    OBVIOUS
  <2>3. IsFiniteSet({Leaf(1), Leaf(2)}) /\ IsFiniteSet({Inner(2), Inner(3)})
    BY <2>1
  <2>4. IsFiniteSet(X)
    <3> HIDE DEF X
    <3> QED BY <2>2, <2>3, FS_Union
  <2> QED BY <2>1, <2>4
<1> HIDE DEF X, Y, Z
<1>5. ASSUME NEW m \in Members(X) PROVE m \in Seq(Member) /\ \A x \in Range(m) : Fits(x)
  BY <1>2, <1>3, <1>4, MembersTyped
<1>6. ASSUME NEW m \in Members(Y) PROVE m \in Seq(Member) /\ \A x \in Range(m) : Fits(x)
  BY <1>2, <1>3, <1>4, MembersTyped
<1>7. ASSUME NEW m \in Members(Z) PROVE m \in Seq(Member) /\ \A x \in Range(m) : Fits(x)
  BY <1>2, <1>3, <1>4, MembersTyped
<1>8. ASSUME NEW m \in Members(X), NEW n \in Members(Y), NEW o \in Members(Z), NEW f \in BOOLEAN
      PROVE  NestOf(Three(m, n, o, f))
  <2> DEFINE nest == Three(m, n, o, f)
             mem(a) == IF a = 1 THEN m ELSE IF a = 2 THEN n ELSE o
  <2>1. DOMAIN nest = 1 .. 3 /\ \A a \in 1 .. 3 : nest[a].members = mem(a)
    OBVIOUS
  <2>2. \A a \in 1 .. 3 : mem(a) \in Seq(Member) /\ \A x \in Range(mem(a)) : Fits(x)
    BY <1>5, <1>6, <1>7
  <2> HIDE DEF nest, mem
  <2>3. NestOf(nest)
    BY <2>1, <2>2 DEF NestOf
  <2> QED BY <2>3 DEF nest
<1>9. Nests = {Three(m, n, o, f) : m \in Members(X), n \in Members(Y), o \in Members(Z), f \in BOOLEAN}
  BY DEF Nests, X, Y, Z
<1>10. NestOf(OneLeaf)
  <2> DEFINE q == <<Leaf(1)>>
  <2>1. OneLeaf = <<At(FALSE, q)>>
    BY DEF OneLeaf
  <2>2. Leaf(1) \in Member /\ Fits(Leaf(1)) /\ Leaf(1).archive = 0 /\ Leaf(1).leaf # 0
    BY DEF Leaf, Member
  <2> HIDE DEF Fits
  <2>3. q \in Seq(Member) /\ Range(q) = {Leaf(1)}
    BY <2>2 DEF Range
  <2>4. DOMAIN OneLeaf = {1} /\ OneLeaf[1].members = q
    BY <2>1
  <2> HIDE DEF q
  <2> QED BY <2>2, <2>3, <2>4 DEF NestOf
<1> HIDE DEF Three
<1> QED BY <1>8, <1>9, <1>10

LEMMA PrepareInputInit == Inputs => PrepareInput
<1> SUFFICES ASSUME Inputs PROVE PrepareInput
  OBVIOUS
<1>1. CASE PrepareInputs
  BY <1>1, ImagesTyped, NestsTyped DEF PrepareInputs, PrepareInput
<1>2. CASE EvidenceInputs
  <2>1. input.law \in {"feeder", "usn", "build", "rules", "detections", "answers", "paging"}
    BY <1>2 DEF EvidenceInputs
  <2> QED BY <2>1 DEF PrepareInput
<1>3. CASE ReportInputs
  BY <1>3, ReportLaws DEF PrepareInput
<1>4. CASE FindingInputs \/ AccuracyInputs \/ GateInputs \/ ListingInputs \/ PinsInputs \/ input = [law |-> "download"]
  BY <1>4 DEF FindingInputs, AccuracyInputs, GateInputs, ListingInputs, PinsInputs, PrepareInput
<1> QED BY <1>1, <1>2, <1>3, <1>4 DEF Inputs

\* The run's reading of both: what an image or a nest of archives has is extracted
\* and registered once and for all.
THEOREM EvidenceHolds == Spec => []EvidenceIsExtracted
<1>1. Init => PrepareInput
  BY PrepareInputInit DEF Init
<1>2. PrepareInput /\ [Next]_<<input, dvars>> => PrepareInput'
  BY DEF Next, PrepareInput, ImageOf, NestOf
<1>3. PrepareInput => EvidenceIsExtracted
  BY ImagesArePrepared, NestsAreUnpacked, NestsTyped DEF PrepareInput, EvidenceIsExtracted
<1> QED BY <1>1, <1>2, <1>3, PTL DEF Spec
================================================================================
