SPECIFICATION Spec
CONSTANTS
  t1 = t1  t2 = t2  t3 = t3  NoTask = NoTask
  Tcb = {t1, t2, t3}
  Stack = {t1, t2, t3}
  Depth = 64
  Ports <- AllPorts
  MaxFpu = 1
  MAX_FREERTOS_TASKS = 2
  MaxIndex = 3
  KernelSteps <- Steps
  Mishaps <- Anything
SYMMETRY Symmetric
INVARIANTS
  
  SelectedIsShown
  
 
