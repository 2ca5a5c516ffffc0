SPECIFICATION Spec
CONSTANTS
  NThreads = 3
  NNodes = 3
  MaxCalls = 2
INVARIANTS IInv TimingComplete TimingExclusive GroupsAreCalls LeaveTogether
PROPERTIES GraphEnds
