SPECIFICATION Spec
CONSTANTS
  MaxRecord = 3
  MaxJournal = 3
INVARIANT DamageIsDetected
