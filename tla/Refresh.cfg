\* A battery, focus changes and four jobs: a medium and a slow one, one
\* with a timer of its own, and one that has none.
SPECIFICATION FairSpec
CONSTANTS
  Signals = {"Battery", "Oomd"}
  Workers = {"oomd", "diskHealth", "process", "repoHealth"}
  HasBattery = TRUE
  HasUpdateSources = TRUE
  SliderIntervals = {1000}
  MaxSubscribers = 1
INVARIANTS TypeOK SingleFlight TimersFollowPause OneMode
PROPERTIES DiskHealthKeepsRefreshing BatteryEventuallySeen
