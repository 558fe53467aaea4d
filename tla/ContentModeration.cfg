SPECIFICATION FairSpec
CONSTANTS
  MaxFaults = 2
CHECK_DEADLOCK FALSE
INVARIANTS TypeOK PassedIsChecked BarrierHides BlockedIsWithdrawn

PROPERTIES WithdrawnStays HitWithdrawn ModerationEnds RecordedHitRecovered
