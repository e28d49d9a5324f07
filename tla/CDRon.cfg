SPECIFICATION AppSpec
CONSTANTS
  INVALID_TASK = 255
  READYLISTS_COUNT = 5
  Tasks <- OilTasks
  Resources <- OilResourceIds
  Events = {"POSIXE"}
  StaticPriority <- OilPriority
  MaxActivations <- OilOnce
  Extended <- OilExtended
  Preemtive <- OilPreemtive
  EventsMask <- OilEvents
  ResourcesMask <- OilResources
  AutoStart <- OilAutoStart
  Activates <- OilActivates
  Chains <- OilChains
  Signals <- NoCalls
  Masks <- OilMasks
  IsrActivates <- OilIsrActivates
  IsrSignals <- OilIsrSignals
INVARIANTS
  Rearmed
  TestEndsFirst
PROPERTIES
  KnownFailures
CHECK_DEADLOCK FALSE
