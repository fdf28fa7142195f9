--------------------------- MODULE MCArtifactCache ---------------------------
(* Small instances of ArtifactCache.                                       *)
EXTENDS ArtifactCache, TLC

CONSTANTS i1, i2, manifest, model, index

(* One identity whose archive holds a manifest and one whose does not.     *)
MCArchive == (i1 :> {manifest, model, index}) @@ (i2 :> {model, index})

(* The files but the manifest are alike.                                   *)
Symmetry == Permutations({model, index})
=============================================================================
