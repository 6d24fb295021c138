SPECIFICATION FairSpec
CONSTANTS
  Paths <- MCPaths
  Selected <- MCSelected
  IgnoredDirectories <- MCIgnored
  NeverInteresting = ".lanekeep"
  GivenRoot <- MCRoot
  MaxEdits = 2
  MaxErrors = 1
INVARIANTS TypeOK FreshOrComing AllowlistVouched
PROPERTIES QuietInstall Settles
CHECK_DEADLOCK FALSE
