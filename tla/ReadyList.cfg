SPECIFICATION Spec
CONSTANTS
  ListLength = 4
  Tasks <- ThreeTasks
PROPERTY IsQueue
