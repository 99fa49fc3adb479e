CONSTANTS
  Subjects = {root, a, b, bad}
  ValidSubjects = {root, a, b}
  Root = root
  Caps = {admin, c, badcap}
  ValidCaps = {admin, c}
  AdminCap = admin
  Resources = {res}
  MaxShares = 2
SYMMETRY SubjectSymmetry
VIEW WithoutAudit
SPECIFICATION BrokerSpec
INVARIANTS GrantExplained
 
