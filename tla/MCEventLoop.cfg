SPECIFICATION FairSpec
CONSTANTS
  Fds = {f1, f2, f3}
  MaxClients = 2
  PacketLen = 2
  OutCap = 1
  MaxBytes = 3
  MaxBacklog = 1
INVARIANTS LoopTypeOK ArrayIsMaster BytesAreAccounted ScanIsFair ReadinessHolds
PROPERTY PacketsAreHandled
