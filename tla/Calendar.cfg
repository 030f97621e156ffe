\* Every scheduler and frequency; days of the month that every month has.
SPECIFICATION Spec
CONSTANTS
  Schedulers = {"systemd", "cron", "launchd"}
  Frequencies = {"Daily", "EveryNDays", "Weekly", "Monthly"}
  EveryN = 5
  DaysOfWeek = {3}
  DaysOfMonth = {28}
  MonthDays <- MCMonthDays
  MaxOff = 1
  NotLooked = NotLooked
  Absent = Absent
INVARIANTS TypeOK NeverTooLate
PROPERTIES ShownDateIsKept IsSchedules
