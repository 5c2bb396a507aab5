SPECIFICATION PageSpec
CONSTANTS
  None = None
  u1 = u1  p1 = p1  p2 = p2  right = right  wrong = wrong  c = c
  Users = {u1}
  Me = u1
  Puzzles = {p1, p2}
  Answers = {right, wrong}
  Words = {right, wrong}
  Letters = {c}
  LettersOf <- SameLetter
  Seed <- TwoDays
  MaxGuesses = 2
  Penalty = 3
  DayTicks = 1
  MaxTime = 1
  MaxDate = 1
  MaxSubmits = 2
INVARIANTS
  ShowsAPastState
  AttemptsAccounted
PROPERTIES
  LettersKept
