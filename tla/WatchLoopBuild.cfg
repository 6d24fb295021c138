SPECIFICATION Spec
CONSTANTS
  Paths <- MCPathsBuild
  Selected <- MCSelectedBuild
  IgnoredDirectories <- MCIgnored
  NeverInteresting = ".lanekeep"
  GivenRoot <- MCRoot
  MaxEdits = 1
  MaxErrors = 0
INVARIANT SelectedFresh
CHECK_DEADLOCK FALSE
