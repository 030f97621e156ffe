\* One schedule left alone, notifications off.
SPECIFICATION FairSpec
CONSTANTS
  Ids = {s1}
  InitialIds = {s1}
  Frequencies = {"EveryNDays"}
  EveryN = 3
  NotificationsEnabled = FALSE
  GuiOpen = FALSE
  MayCrash = FALSE
  MaxEdits = 0
  Absent = Absent
PROPERTY KeepsCleaning
