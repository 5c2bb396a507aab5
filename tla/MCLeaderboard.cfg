SPECIFICATION CastSpec
CONSTANTS
  None = None
  u1 = u1  u2 = u2  u3 = u3  p1 = p1  p2 = p2
  right = right  other = other  b = b  c = c
  Casts = {"day", "period"}
  Users = {u1, u2, u3}
  Puzzles = {p1, p2}
  Answers = {right, other}
  Words = {right, other}
  Letters = {b, c}
  LettersOf <- OneLetterEach
  Seed <- DaysInARow
  MaxGuesses = 2
  Penalty = 3
  DayTicks = 2
  MaxTime = 4
  MaxDate = 1
  PeriodDays = 2
  Threshold = 1
  Limit = 1
CHECK_DEADLOCK FALSE
SYMMETRY UserSymmetry
INVARIANTS
  RanksAreDense
  ScoresByDefinition
PROPERTIES
  DayRankOnlyWorsens
  QualificationKept
