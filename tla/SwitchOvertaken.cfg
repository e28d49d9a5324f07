SPECIFICATION SwitchSpec
CONSTANTS
  INVALID_TASK = 255
  READYLISTS_COUNT = 4
  Tasks <- FourTasks
  Resources = {}
  Events = {"e"}
  StaticPriority <- OwnPriority
  MaxActivations <- OneActivation
  Extended = {2}
  Preemtive = {0, 1, 2, 3}
  EventsMask <- EventsOf2
  ResourcesMask <- Nothing
  AutoStart <- FirstTask
  Activates <- Activated
  Chains <- Chained
  Signals <- Signalled
  Masks <- OneMask
  IsrActivates = {1, 3}
  IsrSignals = {2}
  IsrLevels = 2
INVARIANTS
  ContextsKept
