CONSTANTS
  Devices = {"none", "DS1307", "DS1388", "PCF8563", "BQ32000", "Millis"}
  Dates <- MCDates
  Steps <- MCSteps
  FirstDates <- MCFirstDates
  Data = {1, 2}
  LastRam = 9
  Positions = {255, 256, 512}
  Pages = {31, 32, 64}
  Calibrations <- MCCalibrations
  MaxTicks = 1
  Second = 2
  Rollover = 6
SPECIFICATION Spec
CHECK_DEADLOCK FALSE
INVARIANTS
  TimeTrusted
  MemoryKept
PROPERTIES
  NeverStartsHigh
  DatesFollow
