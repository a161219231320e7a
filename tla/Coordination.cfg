SPECIFICATION RunSpec
CONSTANTS
  c1 = c1  c2 = c2  Off = Off  Nobody = Nobody  Nil = Nil
  Callers <- TwoCallers
  Wait = 2
  MaxClock = 3
  MaxRuns = 3
  Zero = Zero
  Reporters <- TwoCallers  MaxFailed = 2  FailInterval = 1  MaxFailClock = 2  MaxReports = 4
  HealthLists <- TwoLists  HealthInterval = 3  HealthConcurrency = 2  HealthWait = 1
  LogWriters = {"v", "w"}  LogClients <- TwoCallers  LogBuffer = 1  LogQueue = 2  LogEvents = 5
INVARIANTS AnswersAreRight ChecksAreRight LogIsRight
PROPERTIES  NewListTested
CHECK_DEADLOCK FALSE
