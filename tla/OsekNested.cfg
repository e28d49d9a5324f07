SPECIFICATION FairSpec
CONSTANTS
  INVALID_TASK = 255
  READYLISTS_COUNT = 4
  Tasks <- NestTasks
  Resources <- NestResources
  Events = {"e"}
  StaticPriority <- NestPriority
  MaxActivations <- NestActivations
  Extended = {2}
  Preemtive = {0, 1, 2, 3}
  EventsMask <- NestEventsMask
  ResourcesMask <- NestResourcesMask
  AutoStart <- NestAutoStart
  Activates <- NestActivates
  Chains <- NestChains
  Signals <- NestSignals
  Masks <- OneMask
  IsrActivates = {1, 2, 3}
  IsrSignals = {2}
INVARIANTS
  MutualExclusion
  CeilingHeld
  SingleBlocking
  StatesAgree
PROPERTIES
  PassesOverUnasked
  TopmostRuns
