SPECIFICATION CastSpec
CONSTANTS
  None = None
  p1 = p1  p2 = p2  p3 = p3  x = x  y = y  z = z  c = c
  Users = {}
  Puzzles = {p1, p2, p3}
  Answers = {x, y, z}
  Words = {x, y, z}
  Letters = {c}
  LettersOf <- SameLetter
  Seed <- TodayAndTomorrow
  MaxGuesses = 1
  Penalty = 3
  DayTicks = 1
  MaxTime = 1
  MaxDate = 2
  MaxSaves = 2
  MaxOthers = 1
CHECK_DEADLOCK FALSE
INVARIANTS
  ShowsAcknowledged
PROPERTIES
  EditsOnlyWhatChanged
