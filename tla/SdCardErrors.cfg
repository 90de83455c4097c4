CONSTANTS
  Sectors = {0, 1}
  Data = {d1, d2}
  Cards = {"v2", "sdhc"}
  BaseClocks = {2500}
  MaxFaults = 1

SPECIFICATION Spec
INVARIANT FailureIsTold
