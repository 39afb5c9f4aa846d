SPECIFICATION InspectedSpec
CONSTANTS
  MaxRecord = 3
  MaxJournal = 3
INVARIANT AcknowledgedStaysDurable
CHECK_DEADLOCK FALSE
