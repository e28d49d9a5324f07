SPECIFICATION Spec
CONSTANTS
  INVALID_TASK = 255
  READYLISTS_COUNT = 3
  Tasks <- MixTasks
  Resources = {0}
  Events = {"e"}
  StaticPriority <- MixPriority
  MaxActivations <- MixActivations
  Extended = {2}
  Preemtive = {0, 2, 3}
  EventsMask <- MixEventsMask
  ResourcesMask <- MixResourcesMask
  AutoStart <- MixAutoStart
  Activates <- MixActivates
  Chains <- MixChains
  Signals <- MixSignals
  Masks <- OneMask
  IsrActivates = {0, 3}
  IsrSignals = {2}
INVARIANTS
  TypeOK
  HeadOfList
  NoLostWakeup
  ActivationsMatch
  ActivationLimit
PROPERTIES
  ListsAreQueues
  NonPreemptableKeepsCpu
