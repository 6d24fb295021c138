SPECIFICATION Spec
CONSTANTS
  Files <- MCFiles
  Lines <- MCLines
  Originals <- MCOriginals
  Texts <- MCTexts
  Baselines <- MCBaselines
  Options <- MCOptionsNarrowed
  MaxEdits = 0
INVARIANT NarrowedSkipsCrossFile
CHECK_DEADLOCK FALSE
