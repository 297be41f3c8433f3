SPECIFICATION Spec
CONSTANTS
  Objects = {1, 2, 3, 4, 5}
  Groups = {cross, other}
  NoGroup = none
  Sizes = {1, 3}
  Alignments = {0, 2}
  cross_group = cross
  Workloads <- SmallAndKnown
  Temporaries = {1, 2, 3, 4}
INVARIANTS
  TypeOK
  InputsIntact
  OutermostGroupMaps
  MeetingApart
  MemoryServes
