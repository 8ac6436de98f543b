SPECIFICATION FairSpec
CONSTANTS
  Bots = {"okx"}
  Faults = {"crash", "torn", "poll", "start", "disk"}
  MaxFaults = 1
  MaxUpdates = 2
  MaxIncidents = 2
INVARIANTS TypeOK HandledOnce OnlyFailuresDrop ReportOnce
PROPERTIES IgnoredStaysSilent UpdatesHandled
CHECK_DEADLOCK FALSE
