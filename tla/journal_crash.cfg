SPECIFICATION Spec
CONSTANTS
  MaxRecord = 6
  MaxJournal = 3
INVARIANTS TypeOK ServesWholeHistory OnlyTheTailIsLost
PROPERTY DurableLogSpec
