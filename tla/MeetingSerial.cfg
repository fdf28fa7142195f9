CONSTANTS
  g1 = g1  g2 = g2  g3 = g3  host = host  admin = admin
  h0 = h0  p1 = p1  p2 = p2  p3 = p3  r1 = r1  r2 = r2
  None = None
  Guests = {g1}
  Name <- Solo
  Email <- Solo
  Invited = {g1}
  Host = host
  Admins = {admin}
  RowId = {h0, p1, p2, p3}
  HostRow = h0
  Requests = {r1}
  MaxParticipants = 2
  AccessModes = {"INVITE_ONLY", "PUBLIC_LINK"}
  Devices = {FALSE}
  Ops = {"join", "wait", "admit", "leave", "end", "media", "delete"}
  CanFail = FALSE
SPECIFICATION Spec
SYMMETRY RowSymmetry
CHECK_DEADLOCK FALSE
INVARIANTS EndClosesRoom OccupiedIsLive
PROPERTY KeepsLifecycle
