CONSTANTS
  i1 = i1
  i2 = i2
  manifest = manifest
  model = model
  index = index
  Identities = {i1, i2}
  Entries = {manifest, model, index}
  Manifest = manifest
  Archive <- MCArchive
SPECIFICATION Spec
SYMMETRY Symmetry
INVARIANTS ReportedIsIntact PackageIsComplete
PROPERTIES CacheIsKept
