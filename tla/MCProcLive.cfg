SPECIFICATION FairSpec
CONSTANTS
  NPROC = 3
  NCPU = 2
  MaxPid = 3
  MaxSleep = 1
PROPERTIES KilledExits OrphansReaped
