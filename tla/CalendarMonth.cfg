\* Every month, on day 31.
SPECIFICATION Spec
CONSTANTS
  Schedulers = {"systemd"}
  Frequencies = {"Monthly"}
  EveryN = 5
  DaysOfWeek = {3}
  DaysOfMonth = {31}
  MonthDays <- MCMonthDays
  MaxOff = 1
  NotLooked = NotLooked
  Absent = Absent
PROPERTY ShownDateIsRight
