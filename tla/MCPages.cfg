SPECIFICATION Spec
CONSTANTS
  Nothing = Nothing
  Scenes = {"game", "profile", "form", "cache"}
  x = x  y = y
  GameLetters = {x, y}
  GameLength = 4
  GameLimit = 3
  t1 = t1  v1 = v1  v2 = v2
  PageTabs = {t1}
  PageValues = {v1, v2}
  PageRow <- MCRow
  Blank = Blank  prefix = prefix  fresh = fresh  taken = taken  bad = bad  a = a  b = b
  FormTexts <- MCTexts
  FormBlank = Blank
  FormShaped = {fresh, taken, bad}
  FormAnswers = {fresh, taken}
  FormVerdict <- MCVerdict
  FormMatches <- MCMatches
  FormLettersOf <- MCLettersOf
  FormFirst <- MCFirst
  FormLetters = {a, b}
  FormInputs = 2
CHECK_DEADLOCK FALSE
INVARIANTS
  FeedbackCounts
  KeysTellTheTruth
  HighlightOnList
  BoardIsOfItsTab
PROPERTIES
  FormEditsKept
  ChipSettles
  ListCatchesUp
