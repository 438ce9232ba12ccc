SPECIFICATION Spec
CONSTANTS
  u1 = u1
  u2 = u2
  k1 = k1
  k2 = k2
  s1 = s1
  s2 = s2
  Users <- OneUser
  Keys <- TwoKeys
  Sections <- MCSections
  Absent = Absent
  Static = Static
  Faults <- AllFaults
  MaxWaiting = 1
SYMMETRY Symm
INVARIANT TypeOK StaticMatches OnlyMaskedDrift
