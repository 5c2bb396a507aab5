SPECIFICATION FairReadSpec
CONSTANTS
  None = None
  u1 = u1  u2 = u2  a1 = a1  s1 = s1  s2 = s2  p1 = p1  right = right  c = c
  Users = {u1}
  Puzzles = {p1}
  Players = {a1}
  Readers = {}
  Settlers = {s1, s2}
  Admins = {}
  Answers = {right}
  Words = {right}
  Letters = {c}
  LettersOf <- OneLetter
  Seed <- OnePuzzle
  MaxGuesses = 1
  Penalty = 3
  DayTicks = 1
  MaxTime = 2
  MaxDate = 0
  PeriodDays = 3
  Threshold = 1
  Limit = 1
  Served = {s1}
INVARIANTS
  SweptDaysCount
PROPERTIES
  CompletedDaysQualify
