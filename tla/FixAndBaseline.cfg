SPECIFICATION MCSpec
CONSTANTS
  Bytes <- MCBytes
  Continuing <- MCContinuing
  Sources <- MCSources
  Fixes <- MCFixes
  MaxFixes = 3
  ordinary = ordinary
  elsewhere = elsewhere
  directive = directive
  Keys <- MCKeys
  Exempt <- MCExempt
  Unseen <- MCUnseen
  CountMax = 2
  MaxFound = 4
  MaxEntries = 2
INVARIANTS
  ChosenDisjoint OffsetsValid SkippedForCause AppliedAtOnce
  ExactlyAccepted LaterCopyReported StaleExactly AdoptionClean
CHECK_DEADLOCK FALSE
