CONSTANTS
  g1 = g1  g2 = g2  g3 = g3  host = host  admin = admin
  h0 = h0  p1 = p1  p2 = p2  p3 = p3  r1 = r1  r2 = r2
  None = None
  Guests = {g1}
  Name <- Solo
  Email <- Solo
  Invited = {g1}
  Host = host
  Admins = {admin}
  RowId = {h0, p1}
  HostRow = h0
  Requests = {r1, r2}
  MaxParticipants = 2
  AccessModes = {"INVITE_ONLY"}
  Devices = {TRUE}
  Ops = {"join", "wait", "admit", "leave", "end", "delete"}
  CanFail = TRUE
SPECIFICATION Spec
SYMMETRY RowSymmetry
CHECK_DEADLOCK FALSE
INVARIANTS OneRowForTheHost GuestsApproved
PROPERTIES EndSettles ClosedStaysOut
