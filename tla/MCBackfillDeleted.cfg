\* Indexes removed although slots are still to be read.
CONSTANTS
  s1 = s1
  s2 = s2
  Slots <- MCSlots
SPECIFICATION Spec
PROPERTIES
  KeptUnlessDone
