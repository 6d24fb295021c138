SPECIFICATION Spec
CONSTANTS
  Files <- MCFiles
  Lines <- MCLines
  Originals <- MCOriginals
  Texts <- MCTexts
  Baselines <- MCBaselines
  Options <- MCOptions
  MaxEdits = 1
INVARIANTS ReportsWhatIsLeft  StaleIsReal BaselineIsWhatIsLeft
CHECK_DEADLOCK FALSE
