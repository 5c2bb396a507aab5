SPECIFICATION SteadySpec
CONSTANTS
  None = None
  u1 = u1  u2 = u2  a1 = a1  a2 = a2  s1 = s1  s2 = s2  r1 = r1  m1 = m1  m2 = m2
  p1 = p1  p2 = p2  p3 = p3  right = right  wrong = wrong  b = b  c = c  d = d
  Users = {u1}
  Puzzles = {p1}
  Players = {a1}
  Readers = {}
  Settlers = {s1}
  Admins = {}
  Answers = {right}
  Words = {right, wrong}
  Letters = {c}
  LettersOf <- AnswerLetters
  Seed <- OnePuzzle
  MaxGuesses = 1
  Penalty = 3
  DayTicks = 1
  MaxTime = 2
  MaxDate = 0
PROPERTIES
  ExpiredPuzzleSettles
