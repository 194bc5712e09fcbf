SPECIFICATION Spec
CONSTANTS
    Tasks = {k1, k2, k3, k4}
    Drivers = {d1}
    maxt = 2
    Naps = {1}
    Removable = {k1}
INVARIANTS
  RunnerConsistent
PROPERTIES
  TasksEnd
