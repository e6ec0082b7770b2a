CONSTANTS
  server = server
  cli = cli
  None = None
  Cut = Cut
  Mixed = Mixed
  Error = Error
  Loaders = {server}
  MaxVersion = 4
  WriteErrors = FALSE
  Sharers = {server, cli}
  SharedMaxVersion = 2
  SharedErrors = TRUE
SPECIFICATION MCSpec
INVARIANTS
  NoHalfListIsLoaded
  ConfirmedIsOnDisk
  SharedListIsKept
PROPERTIES
  RunningListNeverGoesBack
  EventuallyCurrent
