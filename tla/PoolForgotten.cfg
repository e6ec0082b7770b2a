CONSTANTS
  s1 = s1
  s2 = s2
  zone = zone
  None = None
  Seeds <- MCSeeds
  Zones <- MCZones
  ZoneIndex <- MCZoneIndex
  Count = 2
  Requests = {q1}
  FailureThreshold = 3
  DownDuration = 2
  MaxTime = 4
  MaxFailures = 4
SPECIFICATION Spec
PROPERTY FailingIsSkipped
