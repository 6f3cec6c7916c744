SPECIFICATION MCSpec
CONSTANTS
  Bits = 5
  FamilyBits = 2
  Roms <- MCRoms
  Thermometers <- MCThermometers
PROPERTIES
  Enumerates
  TargetFound
  AllHandled
  ProcessEnds
