SPECIFICATION Spec
CONSTANTS
  MaxRecord = 5
  MaxJournal = 3
INVARIANT CompactionIsInterruptible
