CONSTANTS
  Reporters <- Everyone
  LiarSets <- LiarChoices
  Egresses <- HomeAddrs
  Lies <- FakeAddrs
  Ports = {1, 2}
  MaxReadings = 3
SPECIFICATION Spec
INVARIANTS TypeOK NoForgedAddress HonestRoundEstablishes
PROPERTIES VerdictHardens
