SPECIFICATION RunnerSpec
CONSTANT MaxOrphans = 4
INVARIANT
  ExitStopsTheService
