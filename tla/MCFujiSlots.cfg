SPECIFICATION Spec
CONSTANTS
  MAX_HOSTS = 2
  MAX_DISK_DEVICES = 2
  Names = {"tnfs"}
  MaxFs = 2
  MaxCommands = 5
CHECK_DEADLOCK FALSE
INVARIANTS
  TypeOK
  NoDeadFileSystem
  DrivesPermuted
  SavedSlotsReturn
