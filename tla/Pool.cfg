CONSTANTS
  s1 = s1
  s2 = s2
  zone = zone
  None = None
  Seeds <- MCSeeds
  Zones <- MCZones
  ZoneIndex <- MCZoneIndex
  Count = 2
  Requests = {q1, q2}
  FailureThreshold = 2
  DownDuration = 2
  MaxTime = 2
  MaxFailures = 3
SPECIFICATION Spec
SYMMETRY Symmetry
INVARIANTS
  NobodyIsLeftOut
  QuestionsStayHome
