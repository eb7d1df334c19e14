SPECIFICATION FairSpec
CONSTANTS
  Content = {"base", "fleet", "port", "scalar", "nobody", "eager", "blank", "broken"}
  NFiles = 2
  Load <- LoadNamed
  MaxEvents = 3
INVARIANTS
  TypeOK
  ConfigInForce
  OneWatcher
  LastFileWins
PROPERTIES
  SurvivesReloads
  LatestServed
  RetiredCheckersEnd
