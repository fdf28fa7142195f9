CONSTANTS
  g1 = g1  g2 = g2  g3 = g3  host = host  admin = admin
  h0 = h0  p1 = p1  p2 = p2  p3 = p3  r1 = r1  r2 = r2
  None = None
  Guests = {g1, g2}
  Name <- Pair
  Email <- Pair
  Invited = {g1, g2}
  Host = host
  Admins = {}
  RowId = {h0, p1}
  HostRow = h0
  Requests = {r1, r2}
  MaxParticipants = 2
  AccessModes = {"INVITE_ONLY", "PUBLIC_LINK"}
  Devices = {TRUE}
  Ops = {"join", "wait", "admit", "leave", "end"}
  CanFail = FALSE
SPECIFICATION FairSpec
PROPERTY EndedIsFinal
