SPECIFICATION CastSpec
CONSTANTS
  None = None
  u1 = u1  u2 = u2  a1 = a1  a2 = a2  s1 = s1  s2 = s2  r1 = r1  m1 = m1  m2 = m2
  p1 = p1  p2 = p2  p3 = p3  right = right  wrong = wrong  b = b  c = c  d = d
  Casts = {"duel", "read", "sweep"}
  Users = {u1, u2}
  Puzzles = {p1}
  Players = {a1, a2}
  Readers = {r1}
  Settlers = {s1, s2}
  Admins = {}
  Answers = {right}
  Words = {right, wrong}
  Letters = {c}
  LettersOf <- AnswerLetters
  Seed <- OnePuzzle
  MaxGuesses = 2
  Penalty = 3
  DayTicks = 2
  MaxTime = 3
  MaxDate = 0
SYMMETRY Symmetry
INVARIANTS
  GuessesExplainStatus
  PlayedWithinTheDay
  FinalizedIsOver
  FrozenMatchesGames
  ReadsStayCurrent
  NumberFree
  NoLockCycle
  CurrentGameNotBehind
PROPERTIES
  ImplementsContest
  FinalizedForever
  GamesNeverGoBack
