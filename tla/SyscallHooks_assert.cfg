CONSTANTS
  c1 = c1
  c2 = c2
  t1 = t1
  t2 = t2
  Ctl <- MCCtl
  Thread <- MCThread
  HookOrder <- MCHookOrder
  RegisterFaults = TRUE
  Serial = TRUE
  MaxIoctl = 2
  MaxCall = 2
SYMMETRY MCSymmetry
SPECIFICATION Spec
INVARIANT HookedAsserted
CHECK_DEADLOCK FALSE
