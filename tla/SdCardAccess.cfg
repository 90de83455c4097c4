CONSTANTS
  Sectors = {0, 1}
  Data = {d1, d2}
  Cards = {"v1", "v2", "sdhc"}
  BaseClocks = {2000, 2500}
  MaxFaults = 2

SPECIFICATION FairSpec
INVARIANT CardIsTrue
PROPERTY CardComesBack
