CONSTANTS
  ads = ads
  kids = kids
  simple = simple
  both = both
  disabled = disabled
  broken = broken
  None = None
  Configs <- MCConfigs
  Rejected <- MCRejected
  Lists <- MCLists
  Enabled <- MCEnabled
  Used <- MCUsed
SPECIFICATION FairSpec
INVARIANTS
  RulesAreWhole
  ShownIsInEffect
PROPERTIES
  ReloadIsAttempted
  RulesFollow
