CONSTANTS
  Machines <- MCMachines
  None = None
SPECIFICATION FairSpec
INVARIANTS TypeOK OwnValues ProbesClean
PROPERTIES MonitoringKept GpuFollows SensorAppears
