CONSTANTS
  Chars <- MCChars
  Unreserved <- MCUnreserved
  FileNames <- MCFileNames
  Texts <- MCTexts
  Times <- MCTimes
  MaxDepth = 2
SPECIFICATION ConversionsSpec
INVARIANTS
  PathIsClean
  IdsLeadBack
  ParentsLeadBack
  TimesSurvive
  TimesAreMeant
\* A client whose id is refused has nowhere to go.
CHECK_DEADLOCK FALSE
