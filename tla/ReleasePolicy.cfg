SPECIFICATION Spec
CONSTANTS
  first = first
  second = second
  Rules = {first, second}
  FileCount = 2
  FileOf <- FileOfEach
  Related <- FirstNamesSecond
  Levels = {"MUST", "MUST*", "SHOULD", "MAY"}
  Texts = {1}
  Versions <- MCVersions
  FirstVersion <- MCFirstVersion
  MaxEdits = 2
  MaxSections = 2
  Habits = {"interrupt"}
CHECK_DEADLOCK FALSE
INVARIANTS TypeOK NoNewMustWithinMajor WarningWindow PromotionsAskForNotes
