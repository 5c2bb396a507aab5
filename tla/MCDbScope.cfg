SPECIFICATION FairSpec
CONSTANTS
  None = None
  i1 = i1  i2 = i2  url = url
  Invocations = {i1, i2}
  Kinds = {"page", "api", "signin", "cron"}
  Urls = {url}
  Inert = Inert
  Runtime = "workerd"
  MaxClients = 3
CHECK_DEADLOCK FALSE
INVARIANTS
  NoForeignIO
  OneClientPerUrl
PROPERTIES
  ClientsEnd
