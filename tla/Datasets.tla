------------------------------- MODULE Datasets -------------------------------
(***************************************************************************)
(* The pinned evaluation datasets: a manifest names evidence files with    *)
(* their hashes, verify_manifest compares, recompute_manifest pins anew.   *)
(*                                                                         *)
(* A manifest is [parses, fits, sha, pins]: whether it is JSON, whether    *)
(* everything else in it obeys the schema, its own hash and one for each   *)
(* file.  0 is a placeholder.  on_disk[i] is what lies at the path of file *)
(* i: its hash, Missing or Unreadable.  A hash stands for the size too.    *)
(***************************************************************************)
EXTENDS Naturals, SequencesExt

Placeholder == 0
Missing == 10
UnreadableFile == 11

\* The hash of the manifest is that of its first file, where both are pinned.
Consistent(m) ==
    m.pins # <<>> /\ Placeholder \notin {m.sha, m.pins[1]} => m.sha = m.pins[1]
Validates(m) == m.parses /\ m.fits /\ Consistent(m)

\* _verify_one, the counted files as sets: a manifest that cannot be used is one
\* mismatch, of file 0; a file that is not there is none, and neither is one that
\* was never pinned.
VerifyOne(m, on_disk) ==
    IF ~Validates(m) THEN [mismatches |-> {0}, missing |-> {}]
    ELSE [mismatches |-> {i \in DOMAIN m.pins : /\ on_disk[i] # Missing
                                                /\ m.pins[i] # Placeholder
                                                /\ on_disk[i] # m.pins[i]},
          missing |-> {i \in DOMAIN m.pins : on_disk[i] = Missing}]

\* manifests: a sequence of [manifest, on_disk].
VerifyExit(manifests, strict) ==
    LET one(i) == VerifyOne(manifests[i].manifest, manifests[i].on_disk)
        some(what) == \E i \in DOMAIN manifests : one(i)[what] # {}
    IN CASE manifests = <<>> \/ some("mismatches") -> 1
         [] ~some("mismatches") /\ strict /\ some("missing") -> 2
         [] OTHER -> 0

Present(on_disk) == {i \in DOMAIN on_disk : on_disk[i] \notin {Missing, UnreadableFile}}

\* Each file that is there is pinned, and the manifest to the first of them.
Repinned(m, on_disk) ==
    [m EXCEPT !.pins = [i \in DOMAIN @ |-> IF on_disk[i] = Missing THEN @[i] ELSE on_disk[i]],
              !.sha = IF Present(on_disk) = {} THEN @ ELSE on_disk[Min(Present(on_disk))]]

\* Mutant: the new manifest is on disk before it is validated.
RecomputeUnchecked(m, on_disk, writable) ==
    IF ~m.parses \/ UnreadableFile \in Range(on_disk) THEN [code |-> 1, manifest |-> m]
    ELSE IF Repinned(m, on_disk) = m THEN [code |-> 0, manifest |-> m]
    ELSE IF ~writable THEN [code |-> 1, manifest |-> m]
    ELSE [code |-> IF Validates(Repinned(m, on_disk)) THEN 0 ELSE 1, manifest |-> Repinned(m, on_disk)]

\* _recompute: nothing to change is success, whatever the manifest looks like;
\* a changed one is validated, and replaces the old one whole or not at all.
Recompute(m, on_disk, writable) ==
    IF ~m.parses \/ UnreadableFile \in Range(on_disk) THEN [code |-> 1, manifest |-> m]
    ELSE IF Repinned(m, on_disk) = m THEN [code |-> 0, manifest |-> m]
    ELSE IF ~Validates(Repinned(m, on_disk)) \/ ~writable THEN [code |-> 1, manifest |-> m]
    ELSE [code |-> 0, manifest |-> Repinned(m, on_disk)]

\* What recompute pins, verify accepts: after a success of a manifest that was
\* usable or was changed, no file that is there differs from its pin and none of
\* them is a placeholder, and a second recompute finds nothing to do; a failure
\* leaves the manifest as it was, so what verify said before still stands.
ManifestLaw(m, on_disk, writable) ==
    LET done == Recompute(m, on_disk, writable)
        now == [manifest |-> done.manifest, on_disk |-> on_disk]
    IN /\ done.code # 0 => done.manifest = m
       /\ done.code = 0 /\ (Validates(m) \/ done.manifest # m) =>
            /\ VerifyExit(<<now>>, FALSE) = 0
            /\ VerifyExit(<<now>>, TRUE) = IF Missing \in Range(on_disk) THEN 2 ELSE 0
            /\ \A i \in DOMAIN on_disk : on_disk[i] # Missing =>
                  done.manifest.pins[i] # Placeholder
            /\ Recompute(done.manifest, on_disk, FALSE) = done
=============================================================================
