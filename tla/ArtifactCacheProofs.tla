------------------------- MODULE ArtifactCacheProofs -------------------------
(* What holds of the artifact cache for any set of identities and files.   *)
EXTENDS ArtifactCache, TLAPS

(* What the artifact was verified for is still there while its package is  *)
(* attached.                                                               *)
Attaching == {"attach", "extract", "read", "cached"}

VerifiedFirst == call.pc \in Attaching => file[call.id] = "whole"

(* An extraction under way has written whole files only; it began with the *)
(* directory empty.                                                        *)
NothingTorn ==
  \A i \in Identities :
    At(i, "extract") => i \notin damaged /\ \A e \in Archive[i] : package[i][e] # "torn"

(* A file is in a package because the archive holds it.                    *)
FromArchive ==
  \A i \in Identities : \A e \in Entries \ Archive[i] : package[i][e] = "none"

(* A package without a manifest has been extracted when it is read.        *)
BareIsRead ==
  \A i \in Identities :
    At(i, "read") /\ Manifest \notin Archive[i] => Complete(i)

IInv ==
  TypeOK /\ VerifiedFirst /\ NothingTorn /\ FromArchive /\ BareIsRead /\ PackageIsComplete

LEMMA InitInv == Init => IInv
  BY EntriesAssumption DEF Init, IInv, TypeOK, VerifiedFirst, NothingTorn, FromArchive, BareIsRead,
     PackageIsComplete, Attaching, HasManifest, Idle, NoPackage, Content, At

(* The disk and the command stay what they are.                            *)
LEMMA TypeStep == ASSUME TypeOK, [Next]_vars PROVE TypeOK'
<1> USE DEF TypeOK, Content, Goto, End, Idle, At
<1>1. ASSUME NEW i \in Identities, Begin(i, "check") \/ Begin(i, "evict") PROVE TypeOK'
  BY <1>1 DEF Begin
<1>2. ASSUME NEW i \in Identities, Reuse(i) PROVE TypeOK'
  BY <1>2 DEF Reuse
<1>3. ASSUME NEW i \in Identities, Fetch(i) PROVE TypeOK'
  BY <1>3 DEF Fetch
<1>4. ASSUME NEW i \in Identities, Attach(i) PROVE TypeOK'
  <2>1. CASE HasManifest(i) BY <1>4, <2>1 DEF Attach
  <2>2. CASE ~HasManifest(i)
    <3>1. NoPackage \in [Entries -> Content] BY DEF NoPackage
    <3> QED BY <1>4, <2>2, <3>1 DEF Attach
  <2> QED BY <2>1, <2>2
<1>5. ASSUME NEW i \in Identities, NEW e \in Entries, Extract(i, e) PROVE TypeOK'
  BY <1>5 DEF Extract
<1>6. ASSUME NEW i \in Identities, Extracted(i) \/ Read(i) \/ Return(i) PROVE TypeOK'
  BY <1>6 DEF Extracted, Read, Return
<1>7. ASSUME NEW i \in Identities, Evict(i) PROVE TypeOK'
  BY <1>7 DEF Evict, NoPackage
<1>8. ASSUME NEW i \in Identities, PowerLoss(i) PROVE TypeOK'
  BY <1>8 DEF PowerLoss
<1>9. ASSUME Interrupt PROVE TypeOK'
  <2>1. call.id \in Identities /\ call' = Idle /\ CutShort(call.id)
    BY <1>9 DEF Interrupt
  <2>2. package[call.id] \in [Entries -> Content]
    BY <2>1
  <2>3. Torn(call.id) \subseteq [Entries -> Content]
    BY <2>2, EntriesAssumption DEF Torn
  <2>4. Removed(package[call.id]) \subseteq [Entries -> Content]
    BY <2>2 DEF Removed
  <2> QED BY <2>1, <2>3, <2>4 DEF CutShort
<1>10. CASE UNCHANGED vars BY <1>10 DEF vars
<1> QED BY <1>1, <1>2, <1>3, <1>4, <1>5, <1>6, <1>7, <1>8, <1>9, <1>10 DEF Next, Step

LEMMA VerifiedStep == ASSUME IInv, [Next]_vars PROVE VerifiedFirst'
<1> USE DEF IInv, TypeOK, VerifiedFirst, Attaching, Content, Goto, End, Idle, At
<1>1. ASSUME NEW i \in Identities, Begin(i, "check") \/ Begin(i, "evict") PROVE VerifiedFirst'
  BY <1>1 DEF Begin
<1>2. ASSUME NEW i \in Identities, Reuse(i) PROVE VerifiedFirst'
  BY <1>2 DEF Reuse
<1>3. ASSUME NEW i \in Identities, Fetch(i) PROVE VerifiedFirst'
  BY <1>3 DEF Fetch
<1>4. ASSUME NEW i \in Identities, Attach(i) PROVE VerifiedFirst'
  <2>1. CASE HasManifest(i) BY <1>4, <2>1 DEF Attach
  <2>2. CASE ~HasManifest(i) BY <1>4, <2>2 DEF Attach, NoPackage
  <2> QED BY <2>1, <2>2
<1>5. ASSUME NEW i \in Identities, NEW e \in Entries, Extract(i, e) PROVE VerifiedFirst'
  BY <1>5 DEF Extract
<1>6. ASSUME NEW i \in Identities, Extracted(i) \/ Read(i) \/ Return(i) PROVE VerifiedFirst'
  BY <1>6 DEF Extracted, Read, Return
<1>7. ASSUME NEW i \in Identities, Evict(i) PROVE VerifiedFirst'
  BY <1>7 DEF Evict
<1>8. ASSUME NEW i \in Identities, PowerLoss(i) PROVE VerifiedFirst'
  BY <1>8 DEF PowerLoss
<1>9. ASSUME Interrupt PROVE VerifiedFirst'
  BY <1>9 DEF Interrupt
<1>10. CASE UNCHANGED vars BY <1>10 DEF vars
<1> QED BY <1>1, <1>2, <1>3, <1>4, <1>5, <1>6, <1>7, <1>8, <1>9, <1>10 DEF Next, Step

(* Of one identity at a time: NothingTorn, FromArchive, BareIsRead and     *)
(* PackageIsComplete.                                                      *)
Sound(i) ==
  /\ At(i, "extract") => i \notin damaged /\ \A e \in Archive[i] : package[i][e] # "torn"
  /\ \A e \in Entries \ Archive[i] : package[i][e] = "none"
  /\ At(i, "read") /\ Manifest \notin Archive[i] => Complete(i)
  /\ i \notin damaged /\ HasManifest(i) /\ ~At(i, "extract") => Complete(i)
  /\ Manifest \notin Archive[i] /\ At(i, "cached") => Complete(i)

LEMMA SoundIs ==
  NothingTorn /\ FromArchive /\ BareIsRead /\ PackageIsComplete
    <=> \A i \in Identities : Sound(i)
  BY DEF NothingTorn, FromArchive, BareIsRead, PackageIsComplete, Sound

LEMMA SoundStep == ASSUME IInv, [Next]_vars, NEW j \in Identities PROVE Sound(j)'
<1>0. Sound(j) BY SoundIs DEF IInv
<1> USE <1>0, EntriesAssumption
    DEF IInv, TypeOK, Content, Sound, HasManifest, Complete, Goto, End, Idle, At
<1>1. ASSUME NEW i \in Identities, Begin(i, "check") \/ Begin(i, "evict") PROVE Sound(j)'
  BY <1>1 DEF Begin
<1>2. ASSUME NEW i \in Identities, Reuse(i) PROVE Sound(j)'
  BY <1>2 DEF Reuse
<1>3. ASSUME NEW i \in Identities, Fetch(i) PROVE Sound(j)'
  BY <1>3 DEF Fetch
<1>4. ASSUME NEW i \in Identities, Attach(i) PROVE Sound(j)'
  BY <1>4 DEF Attach, NoPackage
<1>5. ASSUME NEW i \in Identities, NEW e \in Entries, Extract(i, e) PROVE Sound(j)'
  BY <1>5 DEF Extract
<1>6. ASSUME NEW i \in Identities, Extracted(i) \/ Read(i) \/ Return(i) PROVE Sound(j)'
  BY <1>6 DEF Extracted, Read, Return
<1>7. ASSUME NEW i \in Identities, Evict(i) PROVE Sound(j)'
  BY <1>7 DEF Evict, NoPackage
<1>8. ASSUME NEW i \in Identities, PowerLoss(i) PROVE Sound(j)'
  BY <1>8 DEF PowerLoss
<1>9. ASSUME Interrupt PROVE Sound(j)'
  <2>1. CASE call.pc = "extract"
    <3>1. /\ call' = Idle /\ damaged' = damaged \union {call.id}
          /\ \E p \in Torn(call.id) : package' = [package EXCEPT ![call.id] = p]
      BY <1>9, <2>1 DEF Interrupt, CutShort
    <3>2. \A p \in Torn(call.id) : \A e \in Entries \ Archive[call.id] : p[e] = package[call.id][e]
      BY <2>1 DEF Torn
    <3> QED BY <3>1, <3>2
  <2>4. CASE call.pc = "evict"
    <3>1. /\ call' = Idle /\ damaged' = damaged \union {call.id}
          /\ \E p \in Removed(package[call.id]) : package' = [package EXCEPT ![call.id] = p]
      BY <1>9, <2>4 DEF Interrupt, CutShort
    <3> QED BY <3>1 DEF Removed
  <2>2. CASE call.pc \notin {"extract", "evict"} /\ UNCHANGED <<file, package, damaged>>
    BY <1>9, <2>2 DEF Interrupt
  <2>3. CASE /\ call.pc = "attach" /\ ~HasManifest(call.id) /\ UNCHANGED <<file, damaged>>
             /\ \E p \in Removed(package[call.id]) : package' = [package EXCEPT ![call.id] = p]
    BY <1>9, <2>3 DEF Interrupt, Removed
  <2> QED BY <1>9, <2>1, <2>2, <2>3, <2>4 DEF Interrupt, CutShort
<1>10. CASE UNCHANGED vars BY <1>10 DEF vars
<1> QED BY <1>1, <1>2, <1>3, <1>4, <1>5, <1>6, <1>7, <1>8, <1>9, <1>10 DEF Next, Step

LEMMA InvStep == IInv /\ [Next]_vars => IInv'
<1> SUFFICES ASSUME IInv, [Next]_vars PROVE IInv' OBVIOUS
<1>1. TypeOK' BY TypeStep DEF IInv
<1>2. VerifiedFirst' BY VerifiedStep
<1>3. (\A i \in Identities : Sound(i))' BY SoundStep
<1>4. (NothingTorn /\ FromArchive /\ BareIsRead /\ PackageIsComplete)'
  BY <1>3 DEF NothingTorn, FromArchive, BareIsRead, PackageIsComplete, Sound
<1> QED BY <1>1, <1>2, <1>4 DEF IInv

THEOREM Invariance == Spec => []IInv
  BY InitInv, InvStep, PTL DEF Spec

(* The state of the cache keeps its type.                                  *)
THEOREM TypeCorrect == Spec => []TypeOK
<1>1. IInv => TypeOK BY DEF IInv
<1> QED BY Invariance, <1>1, PTL

(* An artifact reported as cached is the published one, whatever crashes   *)
(* and power losses came before.                                           *)
THEOREM IntactWhenReported == Spec => []ReportedIsIntact
<1>1. IInv => ReportedIsIntact
  BY DEF IInv, VerifiedFirst, ReportedIsIntact, Attaching, At
<1> QED BY Invariance, <1>1, PTL

(* A package that will be used again is complete, unless an extraction or  *)
(* a removal was cut short; one that is extracted for each preparation is  *)
(* complete when it is reported.                                           *)
THEOREM CompleteUnlessCutShort == Spec => []PackageIsComplete
<1>1. IInv => PackageIsComplete BY DEF IInv
<1> QED BY Invariance, <1>1, PTL

(* A command of another kind than its own eviction leaves a complete copy. *)
LEMMA KeptStep ==
  ASSUME IInv, [Next]_vars, NEW j \in Identities, Cached(j), call.pc # "idle",
         ~At(j, "evict"), ~ExtractedAnew(j)
  PROVE  Cached(j)'
<1> USE EntriesAssumption
    DEF IInv, TypeOK, Content, Cached, Complete, HasManifest, ExtractedAnew, Goto, End, Idle, At
<1>1. ASSUME NEW i \in Identities, Begin(i, "check") \/ Begin(i, "evict") PROVE Cached(j)'
  BY <1>1 DEF Begin
<1>2. ASSUME NEW i \in Identities, Reuse(i) PROVE Cached(j)'
  BY <1>2 DEF Reuse
<1>3. ASSUME NEW i \in Identities, Fetch(i) PROVE Cached(j)'
  BY <1>3 DEF Fetch
<1>4. ASSUME NEW i \in Identities, Attach(i) PROVE Cached(j)'
  BY <1>4 DEF Attach
<1>5. ASSUME NEW i \in Identities, NEW e \in Entries, Extract(i, e) PROVE Cached(j)'
  BY <1>5 DEF Extract
<1>6. ASSUME NEW i \in Identities, Extracted(i) \/ Read(i) \/ Return(i) PROVE Cached(j)'
  BY <1>6 DEF Extracted, Read, Return
<1>7. ASSUME NEW i \in Identities, Evict(i) PROVE Cached(j)'
  BY <1>7 DEF Evict
<1>8. ASSUME NEW i \in Identities, PowerLoss(i) PROVE Cached(j)'
  BY <1>8 DEF PowerLoss
<1>9. ASSUME Interrupt PROVE Cached(j)'
  <2>1. CASE call.pc = "extract"
    BY <1>9, <2>1 DEF Interrupt, CutShort, Torn
  <2>2. CASE call.pc = "evict"
    BY <1>9, <2>2 DEF Interrupt, CutShort
  <2>3. CASE UNCHANGED <<file, package, damaged>>
    BY <2>3
  <2>4. CASE /\ call.pc = "attach" /\ ~HasManifest(call.id) /\ UNCHANGED <<file, damaged>>
             /\ \E p \in Removed(package[call.id]) : package' = [package EXCEPT ![call.id] = p]
    BY <1>9, <2>4 DEF Interrupt
  <2> QED BY <1>9, <2>1, <2>2, <2>3, <2>4 DEF Interrupt, CutShort
<1>10. CASE UNCHANGED vars BY <1>10 DEF vars
<1> QED BY <1>1, <1>2, <1>3, <1>4, <1>5, <1>6, <1>7, <1>8, <1>9, <1>10 DEF Next, Step

(* Nothing but its eviction or a power loss costs an identity its cache,   *)
(* or, if its archive holds no manifest, its preparation.                   *)
THEOREM NothingElseCostsIt == Spec => CacheIsKept
<1>1. IInv /\ [Next]_vars =>
        [\A i \in Identities :
           Cached(i) /\ call.pc # "idle" /\ ~At(i, "evict") /\ ~ExtractedAnew(i)
             => Cached(i)']_vars
  BY KeptStep
<1> QED BY Invariance, <1>1, PTL DEF Spec, CacheIsKept
=============================================================================
