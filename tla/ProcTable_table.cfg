CONSTANTS
  Pid = {p1, p2, p3}
  Key <- MCKey
  MaxBirth = 3
  MaxSpace = 2
  MaxImage = 2
SYMMETRY PidSymmetry
SPECIFICATION Spec
INVARIANTS InfoIsOwn EntryIsMapped StackExclusive KeyAllocated 
CHECK_DEADLOCK FALSE
