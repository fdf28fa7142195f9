CONSTANTS
  i1 = i1  i2 = i2  r1 = r1  r2 = r2  r3 = r3
  None = None
  Identity = {i1, i2}
  Requests = {r1}
  Packages = {"upload", "link", "partial"}
  CanFail = TRUE
SPECIFICATION Spec
PROPERTY KeepsPromise
