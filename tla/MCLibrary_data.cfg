SPECIFICATION MCSpec
CONSTANTS
  Chosen = {"tcp", "kmeans", "array", "objects", "sql"}
  Packages <- MCPackages
  Length <- MCLength
  Word = 2
  Inc = 3
  Limit = 9
  Wrong = {0, 3}
  Uses <- Working
  MaxValues = 2
  Clients = {"client"}
  Accepted = {"accepted"}
  Stoppers = {"main", "other"}
  Types = {"Entry", "Distance", "Flag"}
  Id <- MCId
  Hubs = 2
  MaxHandlers = 3
  UdpPackages = {"p", "q"}
  Endpoints = {"x", "y"}
  MaxSends = 3
  ArchivePackages <- MCArchived
  Parts = {1, 2, 3}
  SizeOfSize = 4
  SizeOfPart <- MCSizes
  SizeOfData = 4
  MaxBody = 3
  Collections = {0, 1, 3}
  PageLimit = 2
  MaxParsed = 5
  Coordinates = {0, 1, 2, 5}
  MaxPoints = 4
  Clusters = 2
  Delta = 1
  Batches = {1, 2, 3, 9}
  Columns = {"uid"}
  RowValues = {0, 1}
  Blank = 0
  MaxRows = 3
  Names <- MCNames
  Layouts <- MCLayouts
  ArrayValues = {0, 1}
  MaxArray = 2
  MaxCalls = 3
  SqlColumns <- MCColumns
  KeyColumn = "id"
  Indexed = {"ts", "ev"}
  SqlValues = {0, 1}
  Updates <- MCUpdates
  Conditions <- MCConditions
  Asked <- MCAsked
  Nested = 2
  SqlRows = 2
INVARIANTS
  SenderInv
  
  SelectsWhatIsAsked
PROPERTIES
  ImplementsChannel
  LloydConverges
  ImplementsTable
  RowsAreTheirOwn
  ReturnedIsStored
CHECK_DEADLOCK FALSE
