CONSTANTS
  t1 = t1
  t2 = t2
  NameServer = NameServer
  CalcServer = CalcServer
  Client = Client
  Main = Main
  ClientThreads = {t1}
  MaxCalls = 2
  MaxRestarts = 1
  Outcomes = {"value", "mute", "foreign"}
SPECIFICATION FairBrokerSpec
INVARIANTS BrokerTypeOK ResolvedIsServed OnlyUntakenResponses RequestsArrive
PROPERTIES ImplementsRemoteCall CallsEnd
CHECK_DEADLOCK FALSE
