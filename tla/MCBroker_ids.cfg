CONSTANTS
  t1 = t1
  t2 = t2
  NameServer = NameServer
  CalcServer = CalcServer
  Client = Client
  Main = Main
  ClientThreads = {t1, t2}
  MaxCalls = 2
  MaxRestarts = 0
  Outcomes = {"value"}
SPECIFICATION BrokerSpec
INVARIANTS AnswersAreRight
CHECK_DEADLOCK FALSE
