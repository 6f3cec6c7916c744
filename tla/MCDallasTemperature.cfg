CONSTANTS
  d1 = d1
  d2 = d2
  Crc8 <- MCCrc8
  CheckCrc16 <- MCCheckCrc16
  SensorCrc <- MCSensorCrc
  SwitchCrc <- MCSwitchCrc
  Sensors <- MCSensors
  Models <- MCModels
  Parasitic = {d2}
  Temperatures <- MCTemperatures
  Highs = {27}
  Lows <- MCLows
  Resolutions = {9}
  Finer = FALSE
  Faults = {"cut", "flip"}
  Cuts <- MCCuts
  Flips <- MCFlips
  MaxCalls = 3
  MaxFaults = 1
SPECIFICATION ThermSpec
INVARIANTS
  ReadingsAgree
  SettingsStay
PROPERTIES
  FreshReading
CHECK_DEADLOCK FALSE
