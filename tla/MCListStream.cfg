CONSTANTS
  AccCap <- MCAccCap
  UiCap <- MCUiCap
  MaxRows = 4
  Versions = {1, 2}
  HalfIds = 4
  MaxDown = 1
  MaxLate = 1
SPECIFICATION Spec
VIEW Seen
INVARIANTS ListsArriveWhole IdsTellStreams
