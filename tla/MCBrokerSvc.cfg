CONSTANTS
  Subjects = {root, adm, o1, o2, r}
  ValidSubjects = {root, adm, o1, o2, r}
  Root = root
  Caps = {admin, port, c}
  ValidCaps = {admin, port, c}
  AdminCap = admin
  Resources = {res}
  MaxShares = 2
  Owners = {o1, o2}
  Recipients = {r}
  Admin = adm
  HandleCaps = {port, c}
  PortCap = port
  N = 2
  GenMod = 4
  SessionSlots = 3
  SessionBound = 4
  MaxIssued = 3
  None = None
SYMMETRY OwnerSymmetry
VIEW WithoutHistory
SPECIFICATION Spec
 
PROPERTIES CascadeComplete
