SPECIFICATION Spec
CONSTANTS
  first = first
  second = second
  Rules = {first}
  FileCount = 1
  FileOf <- FileOfEach
  Related <- FirstNamesSecond
  Levels = {"MUST", "SHOULD"}
  Texts = {1}
  Versions <- MCVersions
  FirstVersion <- MCFirstVersion
  MaxEdits = 2
  MaxSections = 2
  Habits = {"snapshot first"}
CHECK_DEADLOCK FALSE
INVARIANTS NoNewMustWithinMajor
