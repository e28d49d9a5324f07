SPECIFICATION FairSpec
CONSTANTS
  Counters <- TwoCounters
  Alarms <- ThreeAlarms
  Counter <- CounterOfAlarm
  AlarmRef <- AlarmLists
  MaxAllowedValue <- Maxima
  MinCycle <- Ones
  NoCounter = 255
  Incremented <- Increments
  AutoStartAlarm <- Autostart
  TickRange = 8
  Tasks <- TwoTasks
  Relative <- RelativeStarts
  Absolute <- AbsoluteStarts
  Cancels <- Cancelled
INVARIANTS
  TypeOK
  GetAlarmTrue
  NothingOverdue
  ExpiriesCount
PROPERTIES
  NeverEarly
  TickEnds
