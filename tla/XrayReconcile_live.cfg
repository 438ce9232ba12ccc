SPECIFICATION FairSpec
CONSTANTS
  u1 = u1
  u2 = u2
  k1 = k1
  k2 = k2
  s1 = s1
  s2 = s2
  Users <- OneUser
  Keys <- OneKey
  Sections <- OneSection
  Absent = Absent
  Static = Static
  Faults <- NoFaults
  MaxWaiting = 6
PROPERTY Recovers
