\* The extraction marker, after a kill while the index is removed.
CONSTANTS
  s1 = s1
  s2 = s2
  Slots <- MCSlots
SPECIFICATION Spec
INVARIANTS
  OpensWholeGsfa
