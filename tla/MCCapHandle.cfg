CONSTANTS
  N = 3
  GenMod = 4
  RevCap = 2
  Subjects = {s1, s2, sBad}
  ValidSubjects = {s1, s2}
  Caps = {c1, c2, cBad}
  ValidCaps = {c1, c2}
  ParentArgs <- MCParentArgs
  NoOwner = NoOwner
  NoCap = NoCap
SYMMETRY IdSymmetry
SPECIFICATION Spec
INVARIANTS OneLiveRowPerPair StaleHandlesDenied
PROPERTIES NoStrandedChild
