\* init, a process and its child on two CPUs.
CONSTANTS
  NPROC = 3
  CPUs = {c1, c2}
  Ticks = Ticks
  None = None
SPECIFICATION Spec
SYMMETRY Symmetry
INVARIANTS OneStack ParentAlive WaiterHasNoZombie KilledSleepsByRaceOnly
PROPERTY ReapsOnlyOwnZombie
