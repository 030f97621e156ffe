\* Two schedules, the GUI changing the list, and anybody killed at any step.
\* EveryN = 1 is enough: the interval does not matter to these properties.
SPECIFICATION Spec
CONSTANTS
  Ids = {s1, s2}
  InitialIds = {s1}
  Frequencies = {"EveryNDays"}
  EveryN = 1
  NotificationsEnabled = TRUE
  GuiOpen = TRUE
  MayCrash = TRUE
  MaxEdits = 2
  Absent = Absent
INVARIANTS TypeOK DryRunFirst TimersFollowList
