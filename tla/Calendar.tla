-------------------------------- MODULE Calendar --------------------------------
(***************************************************************************)
(* The dates of scheduled cleaning.  ScheduleManager translates a schedule *)
(* into a systemd timer, a crontab line or a launchd agent; the headless   *)
(* clean they start has a gate for schedules of every N days; and the list *)
(* of schedules shows the date that getNextRunTime() computes.  The module *)
(* has one schedule, the machine it runs on, and the three calendars.      *)
(*                                                                         *)
(* A day has two parts, before and after the hour and minute of the        *)
(* schedule.  A headless clean may cross midnight; it is assumed to be     *)
(* over before the schedule's time comes again.                            *)
(***************************************************************************)
EXTENDS Integers, Sequences

CONSTANTS
    Schedulers,    \* those of the operating systems: "systemd", "cron", "launchd"
    Frequencies,   \* frequencies of the schedules to look at
    EveryN,        \* everyNDays
    DaysOfWeek,    \* values of dayOfWeek, 0 is Sunday
    DaysOfMonth,   \* values of dayOfMonth
    MonthDays,     \* bound: lengths of the months, which come round again
    MaxOff,        \* bound: midnights in a row at which the machine is off
    NotLooked,     \* nobody has looked at the list since the last run
    Absent         \* Schedules!Absent

Months == DOMAIN MonthDays
Dates == [month : Months, day : 1..31, dow : 0..6]

\* Days since lastRun; 2N more or N more are the same to the gate and to
\* getNextRunTime(), so they wrap.  NeverRan is an invalid lastRun.
NeverRan == 2 * EveryN
DaysSince == 0..NeverRan

\* Bound of sinceStart, above every MaxGap.
MaxSince == 2 * EveryN + 31

Record == [lastRun : DaysSince, dryRunCompleted : BOOLEAN]

ASSUME ConstantsAssumption ==
    /\ Schedulers \subseteq {"systemd", "cron", "launchd"}
    /\ Frequencies \subseteq {"Daily", "EveryNDays", "Weekly", "Monthly"}
    /\ DaysOfWeek \subseteq 0..6
    /\ DaysOfMonth \subseteq 1..31
    /\ MonthDays \in Seq(28..31) /\ Months # {}
    /\ MaxOff \in Nat
    /\ NotLooked \notin 0..90

ASSUME EveryNAssumption == EveryN \in 2..90

ASSUME AbsentAssumption ==
    Absent \notin [enabled : BOOLEAN, frequency : {"Daily", "EveryNDays"},
                   lastRun : 0..(EveryN + 1), dryRunCompleted : BOOLEAN]

VARIABLES
    schedule,      \* its scheduler, frequency and days; never changed here
    today,         \* the date
    struck,        \* the schedule's time of the day has come
    on,            \* the machine is on, and the user logged in
    nightsOff,     \* midnights since it was switched off
    missed,        \* systemd, Persistent=true: an elapse to catch up with
    interval,      \* launchd, StartInterval: days till the agent starts again
    disk,          \* what settings.ini has of the schedule's runs
    proc,          \* the headless clean, its copy, and if it crossed midnight
    shown,         \* days till the date the list showed when last looked at
    tooEarly,      \* history: the last run that was recorded ended, by the clock,
                   \* before the schedule's time of the day
    dryRunDone,    \* history: a dry run was finished
    sinceRun,      \* history: days since the last finished run, up to EveryN
    sinceStart     \* history: nights the machine was on since a run was started
                   \* or, where nothing catches up, since the last login

vars == <<schedule, today, struck, on, nightsOff, missed, interval, disk, proc,
          shown, tooEarly, dryRunDone, sinceRun, sinceStart>>

Clean(pc, copy) == [pc |-> pc, copy |-> copy, crossed |-> FALSE]
NeverCleaned == [lastRun |-> NeverRan, dryRunCompleted |-> FALSE]
NoProcess == Clean("none", NeverCleaned)

SmallerOf(m, n) == IF m < n THEN m ELSE n

--------------------------------------------------------------------------------
(* The calendars. *)

NextMonth == IF today.month = Len(MonthDays) THEN 1 ELSE today.month + 1

Tomorrow ==
    LET dow == (today.dow + 1) % 7
    IN  IF today.day < MonthDays[today.month]
        THEN [month |-> today.month, day |-> today.day + 1, dow |-> dow]
        ELSE [month |-> NextMonth, day |-> 1, dow |-> dow]

HasInterval ==
    schedule.scheduler = "launchd" /\ schedule.frequency = "EveryNDays"

\* OnCalendar=, the time fields of a crontab line, and StartCalendarInterval
\* agree but for the schedules of every N days: systemd elapses daily, `*/N` is
\* every N-th day from the first of a month, and StartInterval counts from login.
EveryNDue ==
    \/ schedule.scheduler = "systemd"
    \/ (schedule.scheduler = "cron" /\ (today.day - 1) % EveryN = 0)
    \/ (schedule.scheduler = "launchd" /\ interval = 0)

\* Seeded fault: the week starts on Monday.
DueMondayFirst ==
    \/ schedule.frequency = "Daily"
    \/ (schedule.frequency = "EveryNDays" /\ EveryNDue)
    \/ (schedule.frequency = "Weekly" /\ (today.dow - 1) % 7 = schedule.dayOfWeek)
    \/ (schedule.frequency = "Monthly" /\ today.day = schedule.dayOfMonth)

DueToday ==
    \/ schedule.frequency = "Daily"
    \/ (schedule.frequency = "EveryNDays" /\ EveryNDue)
    \/ (schedule.frequency = "Weekly" /\ today.dow = schedule.dayOfWeek)
    \/ (schedule.frequency = "Monthly" /\ today.day = schedule.dayOfMonth)

\* Seeded fault: dates that have passed still count.
FirstOfPassed(days, nextDays) == days

\* The first of two dates, unless it has passed.
FirstOf(days, nextDays) ==
    IF days < 0 \/ (days = 0 /\ struck) THEN nextDays ELSE days

\* Days till the date that getNextRunTime() returns.
NextEveryN ==
    IF disk.lastRun = NeverRan THEN FirstOf(0, EveryN)
    ELSE LET days == (-disk.lastRun) % EveryN IN FirstOf(days, EveryN)

NextMonthly ==
    FirstOf(SmallerOf(schedule.dayOfMonth, MonthDays[today.month]) - today.day,
            MonthDays[today.month] - today.day
                + SmallerOf(schedule.dayOfMonth, MonthDays[NextMonth]))

getNextRunTime ==
    CASE schedule.frequency = "Daily" -> FirstOf(0, 1)
      [] schedule.frequency = "EveryNDays" -> NextEveryN
      [] schedule.frequency = "Weekly" ->
           FirstOf((schedule.dayOfWeek - today.dow) % 7, 7)
      [] schedule.frequency = "Monthly" -> NextMonthly

--------------------------------------------------------------------------------
(* Runs. *)

\* Seeded fault: the gate opens a day early.
GateOpenEarly ==
    /\ schedule.frequency = "EveryNDays"
    /\ disk.lastRun # NeverRan
    /\ disk.lastRun < EveryN - 1

\* Seeded fault: the gate lets the boundary day wait, too.
GateBlockedAtBoundary ==
    /\ schedule.frequency = "EveryNDays"
    /\ disk.lastRun # NeverRan
    /\ disk.lastRun <= EveryN

isEveryNDaysGateBlocked ==
    /\ schedule.frequency = "EveryNDays"
    /\ disk.lastRun # NeverRan
    /\ disk.lastRun < EveryN

\* The headless process reads settings.ini, and leaves at once if the gate is
\* closed.
cleanSchedule ==
    IF isEveryNDaysGateBlocked
    THEN UNCHANGED <<proc, shown, sinceStart>>
    ELSE /\ proc' = Clean(IF disk.dryRunCompleted THEN "cleaning" ELSE "scanning",
                          disk)
         /\ shown' = NotLooked
         /\ sinceStart' = 0

\* The schedule's time of the day, or that of its agent's interval.
timeComes ==
    /\ on
    /\ ~struck
    /\ proc.pc = "none"
    /\ struck' = TRUE
    /\ interval' = IF interval = 0 THEN EveryN ELSE interval
    /\ IF DueToday THEN cleanSchedule
                   ELSE UNCHANGED <<proc, shown, sinceStart>>
    /\ UNCHANGED <<schedule, today, on, nightsOff, missed, disk, tooEarly,
                   dryRunDone, sinceRun>>

\* The scan or the clean is over.
workDone ==
    /\ proc.pc \in {"scanning", "cleaning"}
    /\ proc' = [proc EXCEPT !.pc = "notifying",
                            !.copy = [lastRun |-> 0, dryRunCompleted |-> TRUE]]
    /\ dryRunDone' = (dryRunDone \/ proc.pc = "scanning")
    /\ sinceRun' = 0
    /\ tooEarly' = ~struck
    /\ UNCHANGED <<schedule, today, struck, on, nightsOff, missed, interval, disk,
                   shown, sinceStart>>

\* QSettings writes the file while the notification is shown.  What the list
\* showed before it no longer counts.
flush ==
    /\ proc.pc = "notifying"
    /\ disk' = proc.copy
    /\ proc' = NoProcess
    /\ shown' = NotLooked
    /\ UNCHANGED <<schedule, today, struck, on, nightsOff, missed, interval,
                   tooEarly, dryRunDone, sinceRun, sinceStart>>

\* The user opens the list.
look ==
    /\ on
    /\ shown' = getNextRunTime
    /\ UNCHANGED <<schedule, today, struck, on, nightsOff, missed, interval, disk,
                   proc, tooEarly, dryRunDone, sinceRun, sinceStart>>

--------------------------------------------------------------------------------
(* The machine and the date. *)

Older(record) ==
    [record EXCEPT !.lastRun = IF @ = NeverRan THEN NeverRan
                               ELSE IF @ = NeverRan - 1 THEN EveryN ELSE @ + 1]

newDay ==
    /\ struck
    /\ ~proc.crossed
    /\ nightsOff < MaxOff \/ on
    /\ today' = Tomorrow
    /\ struck' = FALSE
    /\ nightsOff' = IF on THEN 0 ELSE nightsOff + 1
    /\ interval' = IF on /\ HasInterval THEN interval - 1 ELSE interval
    /\ disk' = Older(disk)
    /\ proc' = IF proc.pc = "none" THEN proc
               ELSE [proc EXCEPT !.copy = Older(proc.copy), !.crossed = TRUE]
    /\ shown' = IF shown \in {NotLooked, 0} THEN NotLooked ELSE shown - 1
    /\ sinceRun' = SmallerOf(sinceRun + 1, EveryN)
    /\ sinceStart' = IF on THEN SmallerOf(sinceStart + 1, MaxSince) ELSE sinceStart
    /\ UNCHANGED <<schedule, on, missed, tooEarly, dryRunDone>>

\* systemd remembers when a timer last elapsed; the others do not.
Persistent == schedule.scheduler = "systemd"

\* The end of the session: every process is killed.
shutdown ==
    /\ on
    /\ on' = FALSE
    /\ nightsOff' = 0
    /\ interval' = EveryN
    /\ proc' = NoProcess
    /\ shown' = NotLooked
    /\ sinceStart' = IF Persistent THEN sinceStart ELSE 0
    /\ UNCHANGED <<schedule, today, struck, missed, disk, tooEarly, dryRunDone,
                   sinceRun>>

timeComesWhileOff ==
    /\ ~on
    /\ ~struck
    /\ struck' = TRUE
    /\ missed' = (missed \/ (Persistent /\ DueToday))
    /\ UNCHANGED <<schedule, today, on, nightsOff, interval, disk, proc, shown, tooEarly,
                   dryRunDone, sinceRun, sinceStart>>

\* The user logs in; a persistent timer that has missed its time elapses.
boot ==
    /\ ~on
    /\ on' = TRUE
    /\ interval' = EveryN
    /\ missed' = FALSE
    /\ IF missed THEN cleanSchedule
                 ELSE UNCHANGED <<proc, shown, sinceStart>>
    /\ UNCHANGED <<schedule, today, struck, nightsOff, disk, tooEarly, dryRunDone,
                   sinceRun>>

--------------------------------------------------------------------------------

Schedule ==
    [scheduler : Schedulers, frequency : Frequencies, dayOfWeek : DaysOfWeek,
     dayOfMonth : DaysOfMonth]

Init ==
    /\ schedule \in Schedule
    /\ today = [month |-> 1, day |-> 1, dow |-> 0]
    /\ struck \in BOOLEAN
    /\ on = TRUE
    /\ nightsOff = 0
    /\ missed = FALSE
    /\ interval = EveryN
    /\ disk = NeverCleaned
    /\ proc = NoProcess
    /\ shown = NotLooked
    /\ tooEarly = FALSE
    /\ dryRunDone = FALSE
    /\ sinceRun = EveryN
    /\ sinceStart = 0

Next ==
    \/ timeComes
    \/ workDone
    \/ flush
    \/ look
    \/ newDay
    \/ shutdown
    \/ timeComesWhileOff
    \/ boot

Spec == Init /\ [][Next]_vars

--------------------------------------------------------------------------------
(* Properties. *)

\* Every variable keeps its type.
TypeOK ==
    /\ schedule \in Schedule
    /\ today \in Dates /\ today.day <= MonthDays[today.month]
    /\ {struck, on, missed, tooEarly, dryRunDone} \subseteq BOOLEAN
    /\ nightsOff \in 0..MaxOff
    /\ interval \in 0..EveryN
    /\ disk \in Record
    /\ proc \in [pc : {"none", "scanning", "cleaning", "notifying"},
                 copy : Record, crossed : BOOLEAN]
    /\ shown \in {NotLooked} \union 0..90
    /\ sinceRun \in 0..EveryN
    /\ sinceStart \in 0..MaxSince

Starts == proc.pc = "none" /\ proc'.pc # "none"
TimeOfDay == on /\ ~struck /\ struck'

\* Tested: when the time comes that the list shows, the schedule runs.
RunsWhenShown == TimeOfDay /\ shown = 0 => Starts
ShownDateIsRight == [][RunsWhenShown]_vars

\* What is true of it: the dates of the other frequencies are right, in both
\* directions, for days that all months have; a date of every N days is one of
\* systemd's, unless the last run ended before the schedule's time of the day.
EveryNIsRight ==
    schedule.scheduler = "systemd" /\ disk.lastRun # NeverRan /\ ~tooEarly
        => RunsWhenShown
OthersAreRight ==
    /\ RunsWhenShown
    /\ TimeOfDay /\ Starts => shown \in {NotLooked, 0}
ShownDateIsKept ==
    [][IF schedule.frequency = "EveryNDays" THEN EveryNIsRight
                                            ELSE OthersAreRight]_vars

\* The longest time between two starts.  A run may end on the day after its
\* start, and the gate counts from there.
MaxGap ==
    CASE schedule.frequency = "Daily" -> 1
      [] schedule.frequency = "EveryNDays" ->
           IF schedule.scheduler = "systemd" THEN EveryN + 1 ELSE 2 * EveryN
      [] schedule.frequency = "Weekly" -> 7
      [] schedule.frequency = "Monthly" -> 31

\* No schedule waits for ever, and none for long: gate, calendar and record of
\* the last run agree.  systemd catches up with what a machine that was off has
\* missed; the others do not.
NeverTooLate == sinceStart <= MaxGap

\* Schedules is right to forget dates for days since the last run, and to let
\* timers elapse at any time: nothing that the calendars do is lost by it.
Days(record) == IF record.lastRun = NeverRan THEN EveryN + 1
                ELSE SmallerOf(record.lastRun, EveryN)
Gated == IF schedule.frequency = "EveryNDays" THEN "EveryNDays" ELSE "Daily"
Array(record) ==
    [id \in {"s"} |-> [enabled |-> TRUE, frequency |-> Gated,
                       lastRun |-> Days(record),
                       dryRunCompleted |-> record.dryRunCompleted]]
NoArray == [id \in {"s"} |-> Absent]

S == INSTANCE Schedules WITH
       Ids <- {"s"}, InitialIds <- {"s"}, Frequencies <- {"Daily", "EveryNDays"},
       NotificationsEnabled <- TRUE, GuiOpen <- FALSE, MayCrash <- TRUE,
       MaxEdits <- 0,
       disk <- Array(disk),
       gui <- [pc |-> "off", list |-> NoArray, todo |-> {}, synced |-> FALSE],
       osTimers <- {"s"},
       proc <- [id \in {"s"} |->
                  [pc |-> proc.pc,
                   schedules |-> IF proc.pc = "none" THEN NoArray
                                                     ELSE Array(proc.copy)]],
       created <- {"s"},
       edits <- 0,
       dryRunDone <- {id \in {"s"} : dryRunDone},
       sinceRun <- [id \in {"s"} |-> sinceRun]

IsSchedules == S!Spec
================================================================================
