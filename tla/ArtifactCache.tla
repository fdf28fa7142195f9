---------------------------- MODULE ArtifactCache ----------------------------
(***************************************************************************)
(* The cache of identity artifacts the desktop keeps on disk               *)
(* (apps/desktop/src-tauri/src/main.rs): for each identity the artifact,   *)
(* named after the checksum the service published, and beside it the       *)
(* package it was extracted to.  Commands come from the web view in any    *)
(* order and are served one at a time on the main thread; a command may    *)
(* fail wherever it reads or writes, the application may be closed in the  *)
(* middle of one, and nothing is flushed to the disk before a power loss.  *)
(***************************************************************************)
CONSTANTS
  Identities,   \* identities with a published artifact
  Entries,      \* the files an archive may hold
  Manifest,     \* manifest.json among them
  Archive       \* what the archive of each identity holds

ASSUME EntriesAssumption ==
  Manifest \in Entries /\ Archive \in [Identities -> SUBSET Entries]

VARIABLES
  file,     \* the artifact in the cache
  package,  \* the files of the package directory
  call,     \* the command under way
  damaged   \* packages whose extraction or removal was cut short, or power lost

vars == <<file, package, call, damaged>>

Content == {"none", "torn", "whole"}

NoPackage == [e \in Entries |-> "none"]

Idle == [pc |-> "idle", id |-> "none"]

Init ==
  /\ file = [i \in Identities |-> "none"]
  /\ package = [i \in Identities |-> NoPackage]
  /\ call = Idle
  /\ damaged = {}

(* The command under way goes on at pc, or ends, with a result or an error.*)
At(i, pc) == call = [pc |-> pc, id |-> i]
Goto(pc) == call' = [call EXCEPT !.pc = pc]
End == call' = Idle

HasManifest(i) == package[i][Manifest] # "none"

(* prepare_identity_artifact, evict_identity_artifact_cache.               *)
Begin(i, op) ==
  /\ call.pc = "idle"
  /\ call' = [pc |-> op, id |-> i]
  /\ UNCHANGED <<file, package, damaged>>

(* Faulty variants: the checksum of what is there is not computed; what is *)
(* there is removed and fetched again.                                     *)
ReuseUnchecked(i) ==
  /\ At(i, "check")
  /\ Goto(IF file[i] = "none" THEN "fetch" ELSE "attach")
  /\ UNCHANGED <<file, package, damaged>>

ReuseNever(i) ==
  /\ At(i, "check")
  /\ file' = [file EXCEPT ![i] = "none"]
  /\ Goto("fetch")
  /\ UNCHANGED <<package, damaged>>

(* What is there is reused if its size and checksum are the expected ones, *)
(* and removed otherwise.                                                  *)
Reuse(i) ==
  /\ At(i, "check")
  /\ IF file[i] = "whole"
     THEN Goto("attach") /\ UNCHANGED file
     ELSE file' = [file EXCEPT ![i] = "none"] /\ Goto("fetch")
  /\ UNCHANGED <<package, damaged>>

(* Downloaded or copied next to its place, verified, and renamed.          *)
Fetch(i) ==
  /\ At(i, "fetch")
  /\ file' = [file EXCEPT ![i] = "whole"]
  /\ Goto("attach")
  /\ UNCHANGED <<package, damaged>>

(* A package with a manifest is taken as it is; without one, which is      *)
(* always so for an archive that holds none, the directory is emptied and  *)
(* the archive extracted.                                                  *)
Attach(i) ==
  /\ At(i, "attach")
  /\ IF HasManifest(i)
     THEN Goto("read") /\ UNCHANGED <<package, damaged>>
     ELSE /\ package' = [package EXCEPT ![i] = NoPackage]
          /\ damaged' = damaged \ {i}
          /\ Goto("extract")
  /\ UNCHANGED file

(* The next file of the archive, which lists them in any order.            *)
Extract(i, e) ==
  /\ At(i, "extract") /\ e \in Archive[i] /\ package[i][e] = "none"
  /\ package' = [package EXCEPT ![i][e] = "whole"]
  /\ UNCHANGED <<file, call, damaged>>

(* Faulty variant: the manifest is enough.                                 *)
ExtractedManifest(i) ==
  /\ At(i, "extract") /\ HasManifest(i)
  /\ Goto("read")
  /\ UNCHANGED <<file, package, damaged>>

Extracted(i) ==
  /\ At(i, "extract") /\ \A e \in Archive[i] : package[i][e] # "none"
  /\ Goto("read")
  /\ UNCHANGED <<file, package, damaged>>

(* The manifest is read, and the desktop gets the path of every file that  *)
(* is there, or an error if the manifest cannot be parsed.  Without one    *)
(* the artifact is reported as cached, with a warning.                     *)
Read(i) ==
  /\ At(i, "read")
  /\ IF package[i][Manifest] = "torn" THEN End ELSE Goto("cached")
  /\ UNCHANGED <<file, package, damaged>>

Return(i) ==
  /\ At(i, "cached")
  /\ End
  /\ UNCHANGED <<file, package, damaged>>

(* The directory of the identity is removed.                               *)
Evict(i) ==
  /\ At(i, "evict")
  /\ file' = [file EXCEPT ![i] = "none"]
  /\ package' = [package EXCEPT ![i] = NoPackage]
  /\ damaged' = damaged \ {i}
  /\ End

-----------------------------------------------------------------------------
(* What a command that is cut short leaves of a package: while extracting, *)
(* the file being written is torn; while removing, some files are gone.    *)
Torn(i) ==
  {[package[i] EXCEPT ![e] = "torn"] : e \in {f \in Archive[i] : package[i][f] = "none"}}
    \union {package[i]}

Removed(p) == {[e \in Entries |-> IF e \in gone THEN "none" ELSE p[e]] : gone \in SUBSET Entries}

CutShort(i) ==
  \/ /\ call.pc = "extract"
     /\ \E p \in Torn(i) : package' = [package EXCEPT ![i] = p]
     /\ UNCHANGED file
     /\ damaged' = damaged \union {i}
  \/ /\ call.pc = "attach" /\ ~HasManifest(i)
     /\ \E p \in Removed(package[i]) : package' = [package EXCEPT ![i] = p]
     /\ UNCHANGED <<file, damaged>>
  \/ /\ call.pc = "evict"
     /\ \E p \in Removed(package[i]) : package' = [package EXCEPT ![i] = p]
     /\ file' \in {file, [file EXCEPT ![i] = "none"]}
     /\ damaged' = damaged \union {i}
  \/ /\ call.pc \notin {"extract", "evict"}
     /\ UNCHANGED <<file, package, damaged>>

(* An error, or the application closed: the command is gone with what it   *)
(* had done so far.  A download cut short leaves a file of another name.   *)
Interrupt ==
  /\ call.pc # "idle"
  /\ CutShort(call.id)
  /\ End

(* The power fails, after a command or cutting it short: what had not      *)
(* reached the disk is torn.                                               *)
PowerLoss(i) ==
  /\ call.pc = "idle"
  /\ file' \in {file, [file EXCEPT ![i] = IF @ = "none" THEN "none" ELSE "torn"]}
  /\ \E torn \in SUBSET {e \in Entries : package[i][e] # "none"} :
       package' = [package EXCEPT ![i] = [e \in Entries |-> IF e \in torn THEN "torn" ELSE @[e]]]
  /\ damaged' = damaged \union {i}
  /\ UNCHANGED call

Step(i) ==
  \/ Reuse(i) \/ Fetch(i) \/ Attach(i) \/ Extracted(i) \/ Read(i) \/ Return(i) \/ Evict(i)
  \/ \E e \in Entries : Extract(i, e)

Next ==
  \/ \E i \in Identities : Begin(i, "check") \/ Begin(i, "evict") \/ Step(i) \/ PowerLoss(i)
  \/ Interrupt

Spec == Init /\ [][Next]_vars

-----------------------------------------------------------------------------
(* Types of the disk and of the command under way.                         *)
TypeOK ==
  /\ file \in [Identities -> Content]
  /\ package \in [Identities -> [Entries -> Content]]
  /\ call \in [pc: {"check", "fetch", "attach", "extract", "read", "cached", "evict"},
               id: Identities] \union {Idle}
  /\ damaged \in SUBSET Identities

(* A command that reports the artifact as cached has the published one on  *)
(* disk, whatever crashes and power losses left there before.              *)
ReportedIsIntact ==
  \A i \in Identities : At(i, "cached") => file[i] = "whole"

(* A package that has a manifest, which is all that is looked at before it *)
(* is used again, is complete unless an extraction or a removal was cut    *)
(* short: a download that failed, an extraction that left no manifest or   *)
(* an artifact fetched again do not make it a part of one.  The package of *)
(* an archive without a manifest is complete whenever it is reported.      *)
Complete(i) == \A e \in Archive[i] : package[i][e] = "whole"

PackageIsComplete ==
  \A i \in Identities :
    /\ i \notin damaged /\ HasManifest(i) /\ ~At(i, "extract") => Complete(i)
    /\ Manifest \notin Archive[i] /\ At(i, "cached") => Complete(i)

(* No command but its own eviction costs an identity an artifact that is   *)
(* cached and complete: preparing it again, with or without a network,     *)
(* closed in the middle or not, leaves it there.  Only an archive without  *)
(* a manifest is extracted again at each of its preparations.              *)
Cached(i) == file[i] = "whole" /\ Complete(i)

ExtractedAnew(i) == At(i, "attach") /\ Manifest \notin Archive[i]

CacheIsKept ==
  [][\A i \in Identities :
       Cached(i) /\ call.pc # "idle" /\ ~At(i, "evict") /\ ~ExtractedAnew(i) => Cached(i)']_vars
=============================================================================
