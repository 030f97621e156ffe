---------------------------- MODULE Calendar_proofs ----------------------------
(***************************************************************************)
(* Proofs about Calendar, for any interval, any months and any stretch of  *)
(* time at which the machine is off: the calendars of the three operating  *)
(* systems and the gate, with their dates, implement Schedules, which has  *)
(* no dates but days since the last run; where every month has the day, no *)
(* schedule waits for long, and the date that the list shows is kept.      *)
(***************************************************************************)
EXTENDS Calendar, TLAPS

\* What the refinement needs of the state.
RInv ==
    /\ schedule.frequency \in {"Daily", "EveryNDays", "Weekly", "Monthly"}
    /\ disk \in Record
    /\ proc.pc \in {"none", "scanning", "cleaning", "notifying"}
    /\ proc.copy \in Record
    /\ proc = [pc |-> proc.pc, copy |-> proc.copy, crossed |-> proc.crossed]
    /\ sinceRun \in 0..EveryN
    /\ dryRunDone \in BOOLEAN
    /\ on \in BOOLEAN
    /\ on = FALSE => proc.pc = "none"

\* The process of Schedules that a headless clean stands for.
Proc(p) == [pc |-> p.pc, schedules |-> IF p.pc = "none" THEN NoArray ELSE Array(p.copy)]

GuiOff == [pc |-> "off", list |-> NoArray, todo |-> {}, synced |-> FALSE]

\* The variables of Schedules that change.
Procs == [id \in {"s"} |-> Proc(proc)]
Done == {id \in {"s"} : dryRunDone}
Since == [id \in {"s"} |-> sinceRun]

--------------------------------------------------------------------------------
(* Days since the last run. *)

LEMMA Bounds == EveryN \in Nat /\ EveryN >= 2 /\ NeverRan = 2 * EveryN
BY EveryNAssumption DEF NeverRan

LEMMA OlderType ==
  ASSUME NEW r \in Record
  PROVE  Older(r) \in Record
BY Bounds DEF Record, DaysSince, Older

\* The entry of the schedule in an array.
Entry(days, dryRunCompleted) ==
    [enabled |-> TRUE, frequency |-> Gated, lastRun |-> days,
     dryRunCompleted |-> dryRunCompleted]

LEMMA EntryFacts ==
  ASSUME NEW days \in 0..(EveryN + 1), NEW dry \in BOOLEAN, NEW other
  PROVE  /\ Entry(days, dry) # Absent
         /\ Entry(days, dry).lastRun = days
         /\ Entry(days, dry).frequency = Gated
         /\ Entry(days, dry).dryRunCompleted = dry
         /\ [Entry(days, dry) EXCEPT !.lastRun = other] = Entry(other, dry)
<1>1. Gated \in {"Daily", "EveryNDays"}
  BY DEF Gated
<1>2. Entry(days, dry) \in [enabled : BOOLEAN, frequency : {"Daily", "EveryNDays"},
                           lastRun : 0..(EveryN + 1), dryRunCompleted : BOOLEAN]
  BY <1>1 DEF Entry
<1>3. Entry(days, dry) # Absent
  BY <1>2, AbsentAssumption
<1>4. [Entry(days, dry) EXCEPT !.lastRun = other] = Entry(other, dry)
  <2>1. PICK r : r = Entry(days, dry)
    OBVIOUS
  <2>2. r \in [enabled : BOOLEAN, frequency : {Gated}, lastRun : {days, other},
               dryRunCompleted : BOOLEAN]
    BY <2>1 DEF Entry
  <2>3. r.enabled = TRUE /\ r.frequency = Gated /\ r.dryRunCompleted = dry
    BY <2>1 DEF Entry
  <2>4. [r EXCEPT !.lastRun = other] =
          [enabled |-> r.enabled, frequency |-> r.frequency, lastRun |-> other,
           dryRunCompleted |-> r.dryRunCompleted]
    BY <2>2
  <2>5. [r EXCEPT !.lastRun = other] = Entry(other, dry)
    BY <2>3, <2>4 DEF Entry
  <2> QED
    BY <2>1, <2>5
<1> QED
  BY <1>3, <1>4 DEF Entry

LEMMA ArrayIsArray ==
  ASSUME NEW r \in Record
  PROVE  /\ Array(r) = [id \in {"s"} |-> Entry(Days(r), r.dryRunCompleted)]
         /\ Days(r) \in 0..(EveryN + 1)
         /\ r.dryRunCompleted \in BOOLEAN
<1>1. Days(r) \in 0..(EveryN + 1) /\ r.dryRunCompleted \in BOOLEAN
  BY Bounds DEF Record, DaysSince, Days, SmallerOf
<1> QED
  BY <1>1 DEF Array, Entry

LEMMA RecordedEntry ==
  ASSUME NEW days \in 0..(EveryN + 1), NEW dry \in BOOLEAN
  PROVE  S!Recorded(Entry(days, dry)) = Entry(0, TRUE)
<1>1. PICK r : r = Entry(days, dry)
  OBVIOUS
<1> DEFINE Entries == [enabled : BOOLEAN, frequency : {Gated}, lastRun : {0, days},
                       dryRunCompleted : BOOLEAN]
           new == S!Recorded(r)
<1>2. r \in Entries /\ r.enabled = TRUE /\ r.frequency = Gated
  BY <1>1 DEF Entry
<1>3. new \in Entries
  BY <1>2 DEF S!Recorded
<1>4. new.enabled = r.enabled /\ new.frequency = r.frequency
      /\ new.lastRun = 0 /\ new.dryRunCompleted = TRUE
  BY <1>2 DEF S!Recorded
<1>5. new = [enabled |-> new.enabled, frequency |-> new.frequency,
             lastRun |-> new.lastRun, dryRunCompleted |-> new.dryRunCompleted]
  BY <1>3
<1> QED
  BY <1>1, <1>2, <1>4, <1>5 DEF Entry

\* A day makes the record older in the same way there and here.
LEMMA DaysAge ==
  ASSUME NEW r \in Record
  PROVE  Days(Older(r)) = S!DayOlder(Days(r))
BY Bounds DEF Days, Older, Record, DaysSince, SmallerOf, S!DayOlder, S!Never

LEMMA ArrayAges ==
  ASSUME NEW r \in Record
  PROVE  S!ArrayDayOlder(Array(r)) = Array(Older(r))
<1>1. Older(r) \in Record /\ Older(r).dryRunCompleted = r.dryRunCompleted
  BY OlderType DEF Older, Record
<1>2. Array(Older(r)) =
        [id \in {"s"} |-> Entry(S!DayOlder(Days(r)), r.dryRunCompleted)]
  BY <1>1, DaysAge, ArrayIsArray
<1>3. /\ Array(r)["s"] = Entry(Days(r), r.dryRunCompleted) /\ Array(r)["s"] # Absent
      /\ Array(r)["s"].lastRun = Days(r)
      /\ [Array(r)["s"] EXCEPT !.lastRun = S!DayOlder(Days(r))]
           = Entry(S!DayOlder(Days(r)), r.dryRunCompleted)
  BY ArrayIsArray, EntryFacts
<1> QED
  BY <1>2, <1>3 DEF S!ArrayDayOlder

LEMMA NoArrayAges == S!ArrayDayOlder(NoArray) = NoArray
BY DEF S!ArrayDayOlder, NoArray

\* The gates agree.
LEMMA GatesAgree ==
  ASSUME RInv
  PROVE  isEveryNDaysGateBlocked <=> S!isEveryNDaysGateBlocked(Array(disk)["s"])
<1>1. disk \in Record
  BY DEF RInv
<1>2. /\ Array(disk)["s"].lastRun = Days(disk)
      /\ Array(disk)["s"].frequency = Gated
  BY <1>1, ArrayIsArray, EntryFacts
<1>3. Days(disk) # EveryN + 1 /\ Days(disk) < EveryN
        <=> disk.lastRun # NeverRan /\ disk.lastRun < EveryN
  BY <1>1, Bounds DEF Days, Record, DaysSince, SmallerOf
<1> QED
  BY <1>2, <1>3 DEF isEveryNDaysGateBlocked, S!isEveryNDaysGateBlocked, S!Never, Gated

--------------------------------------------------------------------------------
(* The initial states, and the steps one by one. *)

\* Schedules' variables, in the words of this module.
LEMMA InitMaps == Init => RInv /\ S!Init
<1> SUFFICES ASSUME Init PROVE RInv /\ S!Init
  OBVIOUS
<1>1. NeverCleaned \in Record
  BY Bounds DEF NeverCleaned, Record, DaysSince
<1>2. schedule.frequency \in {"Daily", "EveryNDays", "Weekly", "Monthly"}
  BY ConstantsAssumption DEF Init, Schedule
<1>3. proc.pc = "none" /\ proc.copy \in Record
      /\ proc = [pc |-> proc.pc, copy |-> proc.copy, crossed |-> proc.crossed]
  BY <1>1 DEF Init, NoProcess, Clean
<1>4. RInv
  <2>1. disk \in Record /\ dryRunDone \in BOOLEAN /\ on = TRUE
    BY <1>1 DEF Init
  <2>2. sinceRun \in 0..EveryN
    BY Bounds DEF Init
  <2> QED
    BY <1>2, <1>3, <2>1, <2>2 DEF RInv
<1>5. Array(disk) = [id \in {"s"} |-> S!NewSchedule(Gated)]
  <2>1. Days(disk) = EveryN + 1 /\ disk.dryRunCompleted = FALSE
    BY DEF Init, NeverCleaned, Days
  <2> QED
    BY <2>1 DEF Array, S!NewSchedule, S!Never
<1>6. Gated \in {"Daily", "EveryNDays"}
  BY DEF Gated
<1>7. Procs = [id \in {"s"} |-> S!NoProcess]
  BY <1>3 DEF Procs, Proc, NoArray, S!NoProcess, S!NoArray
<1>8. S!Init
  BY <1>5, <1>6, <1>7 DEF Init, S!Init, S!GuiOff, S!Gui, S!NoArray, NoArray, Procs, Proc
<1> QED
  BY <1>4, <1>8

LEMMA Stutters ==
  ASSUME UNCHANGED <<schedule, disk, proc, dryRunDone, sinceRun>>
  PROVE  UNCHANGED S!vars
BY DEF S!vars, Array, Gated, Days, NoArray

\* The timer elapses, and the process reads the file.
LEMMA FiresMaps ==
  ASSUME RInv, proc.pc = "none", cleanSchedule,
         UNCHANGED <<schedule, disk, dryRunDone, sinceRun>>
  PROVE  S!timerFires("s")
<1>1. Array(disk)' = Array(disk) /\ Array(disk)["s"] # Absent
      /\ Array(disk)["s"].dryRunCompleted = disk.dryRunCompleted
  BY ArrayIsArray, EntryFacts DEF RInv, Array, Gated, Days
<1>2. Procs["s"].pc = "none"
  BY DEF Procs, Proc
<1>3. CASE isEveryNDaysGateBlocked
  <2>1. S!isEveryNDaysGateBlocked(Array(disk)["s"])
    BY <1>3, GatesAgree
  <2>2. proc' = proc
    BY <1>3 DEF cleanSchedule
  <2>3. Procs' = Procs /\ Done' = Done /\ Since' = Since
    BY <1>1, <2>2 DEF Procs, Proc, Done, Since, Array, Gated, Days
  <2> QED
    BY <1>1, <1>2, <2>1, <2>3 DEF S!timerFires, Procs, Proc, Done, Since
<1>4. CASE ~isEveryNDaysGateBlocked
  <2> DEFINE pc == IF disk.dryRunCompleted THEN "cleaning" ELSE "scanning"
  <2>1. ~S!isEveryNDaysGateBlocked(Array(disk)["s"])
    BY <1>4, GatesAgree
  <2>2. proc' = Clean(pc, disk)
    BY <1>4 DEF cleanSchedule
  <2>3. Procs' = [Procs EXCEPT !["s"] = [pc |-> pc, schedules |-> Array(disk)]]
    BY <1>1, <2>2 DEF Procs, Proc, Clean, Array, Gated, Days
  <2> QED
    BY <1>1, <1>2, <2>1, <2>3 DEF S!timerFires, Procs, Proc, Done, Since
<1> QED
  BY <1>3, <1>4

\* The run is recorded in the process' copy.
LEMMA WorkDoneMaps ==
  ASSUME RInv, workDone
  PROVE  S!workDone("s")
<1> DEFINE record == [lastRun |-> 0, dryRunCompleted |-> TRUE]
<1>1. /\ proc.pc \in {"scanning", "cleaning"}
      /\ proc' = [proc EXCEPT !.pc = "notifying", !.copy = record]
      /\ dryRunDone' = (dryRunDone \/ proc.pc = "scanning")
      /\ sinceRun' = 0
      /\ UNCHANGED <<schedule, disk>>
  BY DEF workDone
<1>2. record \in Record /\ Days(record) = 0 /\ record.dryRunCompleted = TRUE
  BY Bounds DEF Record, DaysSince, Days, SmallerOf
<1>3. proc'.pc = "notifying" /\ proc'.copy = record
  BY <1>1 DEF RInv
<1> HIDE DEF record
<1>4. Array(record)' = [id \in {"s"} |-> S!Recorded(Array(proc.copy)["s"])]
  <2>1. Array(proc.copy)["s"] = Entry(Days(proc.copy), proc.copy.dryRunCompleted)
        /\ Days(proc.copy) \in 0..(EveryN + 1) /\ proc.copy.dryRunCompleted \in BOOLEAN
    BY ArrayIsArray DEF RInv
  <2>2. S!Recorded(Array(proc.copy)["s"]) = Entry(0, TRUE)
    BY <2>1, RecordedEntry
  <2>3. Array(record) = [id \in {"s"} |-> Entry(0, TRUE)]
    BY <1>2, ArrayIsArray
  <2>4. Array(record)' = Array(record)
    BY <1>1 DEF Array, Gated, record
  <2> QED
    BY <2>2, <2>3, <2>4
<1>5. Array(proc.copy) = [id \in {"s"} |-> Array(proc.copy)["s"]]
  BY DEF Array
<1>6. S!RecordedIn(Array(proc.copy), "s") = Array(record)'
  BY <1>4, <1>5 DEF S!RecordedIn
<1>7. /\ Procs["s"] = [pc |-> proc.pc, schedules |-> Array(proc.copy)]
      /\ Procs' = [id \in {"s"} |-> [pc |-> "notifying", schedules |-> Array(record)']]
  BY <1>1, <1>3 DEF Procs, Proc, Array
<1>8. Procs' = [Procs EXCEPT !["s"] =
                  [pc |-> "notifying", schedules |-> S!RecordedIn(Procs["s"].schedules, "s")]]
  BY <1>6, <1>7 DEF Procs
<1>9. Done' = Done \union {i \in {"s"} : proc.pc = "scanning"}
  BY <1>1 DEF Done
<1>10. Since' = [Since EXCEPT !["s"] = 0] /\ Array(disk)' = Array(disk)
  BY <1>1 DEF Since, Array, Gated, Days
<1> QED
  BY <1>1, <1>7, <1>8, <1>9, <1>10 DEF S!workDone, Procs, Proc, Done, Since

LEMMA IdleProc ==
  /\ NoProcess.pc = "none" /\ NoProcess.copy \in Record
  /\ NoProcess = [pc |-> NoProcess.pc, copy |-> NoProcess.copy, crossed |-> NoProcess.crossed]
  /\ Proc(NoProcess) = S!NoProcess
BY Bounds DEF NoProcess, Clean, NeverCleaned, Record, DaysSince, Proc, S!NoProcess,
              S!NoArray, NoArray

LEMMA FlushMaps ==
  ASSUME RInv, flush
  PROVE  S!flush("s")
<1>1. proc.pc = "notifying" /\ disk' = proc.copy /\ proc' = NoProcess
      /\ UNCHANGED <<schedule, dryRunDone, sinceRun>>
  BY DEF flush
<1>2. Procs["s"] = [pc |-> "notifying", schedules |-> Array(proc.copy)]
  BY <1>1 DEF Procs, Proc
<1>3. Array(disk)' = Array(proc.copy)
  BY <1>1 DEF Array, Gated, Days
<1>4. Procs' = [Procs EXCEPT !["s"] = S!NoProcess]
  BY <1>1, IdleProc DEF Procs, Proc, S!NoProcess, S!NoArray, NoArray
<1>5. Done' = Done /\ Since' = Since
  BY <1>1 DEF Done, Since
<1> QED
  BY <1>2, <1>3, <1>4, <1>5 DEF S!flush, Procs, Proc, Done, Since

\* A session that ends kills the process, if there is one.
LEMMA ShutdownMaps ==
  ASSUME RInv, shutdown
  PROVE  S!killed("s") \/ UNCHANGED S!vars
<1>1. proc' = NoProcess /\ UNCHANGED <<schedule, disk, dryRunDone, sinceRun>>
  BY DEF shutdown
<1>2. Array(disk)' = Array(disk) /\ Done' = Done /\ Since' = Since
  BY <1>1 DEF Array, Gated, Days, Done, Since
<1>3. Procs' = [id \in {"s"} |-> S!NoProcess]
  BY <1>1, IdleProc DEF Procs, Proc, S!NoProcess, S!NoArray, NoArray
<1>4. CASE proc.pc = "none"
  <2>1. Procs' = Procs
    BY <1>3, <1>4 DEF Procs, Proc, S!NoProcess, S!NoArray, NoArray
  <2> QED
    BY <1>2, <2>1 DEF S!vars, Procs, Proc, Done, Since
<1>5. CASE proc.pc # "none"
  <2>1. Procs["s"].pc # "none" /\ Procs' = [Procs EXCEPT !["s"] = S!NoProcess]
    BY <1>3, <1>5 DEF Procs, Proc
  <2> QED
    BY <1>2, <2>1 DEF S!killed, Procs, Proc, Done, Since
<1> QED
  BY <1>4, <1>5

\* Midnight.
LEMMA NewDayMaps ==
  ASSUME RInv, newDay
  PROVE  S!newDay
<1>1. /\ disk' = Older(disk) /\ schedule' = schedule /\ dryRunDone' = dryRunDone
      /\ proc' = IF proc.pc = "none" THEN proc
                 ELSE [proc EXCEPT !.copy = Older(proc.copy), !.crossed = TRUE]
      /\ sinceRun' = SmallerOf(sinceRun + 1, EveryN)
  BY DEF newDay
<1>2. Array(disk)' = S!ArrayDayOlder(Array(disk))
  <2>1. Array(disk)' = Array(Older(disk))
    BY <1>1 DEF Array, Gated, Days
  <2> QED
    BY <2>1, ArrayAges DEF RInv
<1>3. Procs' = [id \in {"s"} |->
                  [Procs[id] EXCEPT !.schedules = S!ArrayDayOlder(Procs[id].schedules)]]
  <2>1. CASE proc.pc = "none"
    <3>1. Procs' = Procs
      BY <1>1, <2>1 DEF Procs, Proc
    <3>2. Procs["s"] = [pc |-> "none", schedules |-> NoArray]
      BY <2>1 DEF Procs, Proc
    <3>3. [[pc |-> "none", schedules |-> NoArray] EXCEPT !.schedules = NoArray]
            = [pc |-> "none", schedules |-> NoArray]
      OBVIOUS
    <3> QED
      BY <3>1, <3>2, <3>3, NoArrayAges DEF Procs
  <2>2. CASE proc.pc # "none"
    <3>1. proc' = [proc EXCEPT !.copy = Older(proc.copy), !.crossed = TRUE]
      BY <1>1, <2>2
    <3>2. proc'.pc = proc.pc /\ proc'.copy = Older(proc.copy)
      BY <3>1 DEF RInv
    <3>3. Procs["s"] = [pc |-> proc.pc, schedules |-> Array(proc.copy)]
      BY <2>2 DEF Procs, Proc
    <3>4. Array(proc.copy)' = S!ArrayDayOlder(Array(proc.copy))
      <4>1. Array(proc.copy)' = Array(Older(proc.copy))
        BY <1>1, <3>2 DEF Array, Gated, Days
      <4> QED
        BY <4>1, ArrayAges DEF RInv
    <3>5. Procs' = [id \in {"s"} |-> [pc |-> proc.pc, schedules |-> Array(proc.copy)']]
      BY <2>2, <3>2 DEF Procs, Proc, Array
    <3>6. [[pc |-> proc.pc, schedules |-> Array(proc.copy)]
              EXCEPT !.schedules = Array(proc.copy)']
            = [pc |-> proc.pc, schedules |-> Array(proc.copy)']
      OBVIOUS
    <3> QED
      BY <3>3, <3>4, <3>5, <3>6 DEF Procs
  <2> QED
    BY <2>1, <2>2
<1>4. Since' = [id \in {"s"} |-> S!DayOlder(Since[id])]
  BY <1>1, Bounds DEF RInv, Since, SmallerOf, S!DayOlder, S!Never
<1>5. Done' = Done
  BY <1>1 DEF Done
<1>6. GuiOff' = [GuiOff EXCEPT !.list = S!ArrayDayOlder(GuiOff.list)]
  <2> DEFINE Guis == [pc : {"off"}, list : {NoArray}, todo : {{}}, synced : BOOLEAN]
  <2>1. PICK g : g = GuiOff
    OBVIOUS
  <2>2. g \in Guis
    BY <2>1 DEF GuiOff
  <2>3. [g EXCEPT !.list = NoArray] = g
    BY <2>2
  <2>4. GuiOff.list = NoArray /\ GuiOff' = GuiOff
    BY DEF GuiOff, NoArray
  <2> QED
    BY <2>1, <2>3, <2>4, NoArrayAges
<1> QED
  BY <1>2, <1>3, <1>4, <1>5, <1>6 DEF S!newDay, Procs, Proc, Done, Since, GuiOff

--------------------------------------------------------------------------------
(* Every step. *)

\* What a headless clean that starts, or does not, leaves of the invariant.
LEMMA CleanScheduleKeeps ==
  ASSUME RInv, proc.pc = "none", cleanSchedule
  PROVE  /\ proc'.pc \in {"none", "scanning", "cleaning"}
         /\ proc'.copy \in Record
         /\ proc' = [pc |-> proc'.pc, copy |-> proc'.copy, crossed |-> proc'.crossed]
BY DEF RInv, cleanSchedule, Clean

LEMMA StepKeepsRInv == RInv /\ [Next]_vars => RInv'
<1> SUFFICES ASSUME RInv, [Next]_vars PROVE RInv'
  OBVIOUS
<1> USE DEF RInv
<1>1. CASE timeComes
  BY <1>1, CleanScheduleKeeps DEF timeComes
<1>2. CASE workDone
  <2>1. [lastRun |-> 0, dryRunCompleted |-> TRUE] \in Record
    BY Bounds DEF Record, DaysSince
  <2>2. /\ proc'.pc = "notifying" /\ proc'.copy \in Record
        /\ proc' = [pc |-> proc'.pc, copy |-> proc'.copy, crossed |-> proc'.crossed]
    BY <1>2, <2>1 DEF workDone
  <2>3. dryRunDone' \in BOOLEAN /\ sinceRun' \in 0..EveryN
    BY <1>2, Bounds DEF workDone
  <2>4. UNCHANGED <<schedule, disk, on>> /\ proc.pc # "none"
    BY <1>2 DEF workDone
  <2> QED
    BY <2>2, <2>3, <2>4
<1>3. CASE flush
  BY <1>3, IdleProc DEF flush
<1>4. CASE look
  BY <1>4 DEF look
<1>5. CASE newDay
  <2>1. Older(disk) \in Record /\ Older(proc.copy) \in Record
    BY OlderType
  <2>2. sinceRun' \in 0..EveryN
    BY <1>5, Bounds DEF newDay, SmallerOf
  <2>3. /\ proc'.pc = proc.pc /\ proc'.copy \in Record
        /\ proc' = [pc |-> proc'.pc, copy |-> proc'.copy, crossed |-> proc'.crossed]
    BY <1>5, <2>1 DEF newDay
  <2> QED
    BY <1>5, <2>1, <2>2, <2>3 DEF newDay
<1>6. CASE shutdown
  BY <1>6, IdleProc DEF shutdown
<1>7. CASE timeComesWhileOff
  BY <1>7 DEF timeComesWhileOff
<1>8. CASE boot
  <2>1. proc.pc = "none" /\ on' = TRUE
        /\ UNCHANGED <<schedule, disk, dryRunDone, sinceRun>>
    BY <1>8 DEF boot
  <2>2. cleanSchedule \/ proc' = proc
    BY <1>8 DEF boot
  <2> QED
    BY <2>1, <2>2, CleanScheduleKeeps
<1>9. CASE UNCHANGED vars
  BY <1>9 DEF vars
<1> QED
  BY <1>1, <1>2, <1>3, <1>4, <1>5, <1>6, <1>7, <1>8, <1>9 DEF Next

\* Every step of the calendars is one of Schedules, or none.
LEMMA StepMaps == RInv /\ [Next]_vars => [S!Next]_(S!vars)
<1> SUFFICES ASSUME RInv, [Next]_vars PROVE S!Next \/ UNCHANGED S!vars
  OBVIOUS
<1>1. CASE timeComes
  <2>1. proc.pc = "none" /\ UNCHANGED <<schedule, disk, dryRunDone, sinceRun>>
    BY <1>1 DEF timeComes
  <2>2. cleanSchedule \/ proc' = proc
    BY <1>1 DEF timeComes
  <2> QED
    BY <2>1, <2>2, FiresMaps, Stutters DEF S!Next, S!HeadlessStep
<1>2. CASE workDone
  BY <1>2, WorkDoneMaps DEF S!Next, S!HeadlessStep
<1>3. CASE flush
  BY <1>3, FlushMaps DEF S!Next, S!HeadlessStep
<1>4. CASE look
  BY <1>4, Stutters DEF look
<1>5. CASE newDay
  BY <1>5, NewDayMaps DEF S!Next
<1>6. CASE shutdown
  BY <1>6, ShutdownMaps DEF S!Next, S!HeadlessStep
<1>7. CASE timeComesWhileOff
  BY <1>7, Stutters DEF timeComesWhileOff
<1>8. CASE boot
  <2>1. proc.pc = "none" /\ UNCHANGED <<schedule, disk, dryRunDone, sinceRun>>
    BY <1>8 DEF boot, RInv
  <2>2. cleanSchedule \/ proc' = proc
    BY <1>8 DEF boot
  <2> QED
    BY <2>1, <2>2, FiresMaps, Stutters DEF S!Next, S!HeadlessStep
<1>9. CASE UNCHANGED vars
  BY <1>9, Stutters DEF vars
<1> QED
  BY <1>1, <1>2, <1>3, <1>4, <1>5, <1>6, <1>7, <1>8, <1>9 DEF Next

\* The calendars of systemd, cron and launchd, on a machine that is switched
\* off and on, do nothing that Schedules does not allow: what holds of its
\* timers, which elapse at any time, holds of theirs.
THEOREM CalendarsAreSchedules == Spec => IsSchedules
<1>1. Init => RInv /\ S!Init
  BY InitMaps
<1>2. RInv /\ [Next]_vars => RInv'
  BY StepKeepsRInv
<1>3. RInv /\ [Next]_vars => [S!Next]_(S!vars)
  BY StepMaps
<1> QED
  BY <1>1, <1>2, <1>3, PTL DEF Spec, IsSchedules, S!Spec

--------------------------------------------------------------------------------
(* The dry run comes first, on every calendar. *)

\* Nothing that is marked has not been tried, and what deletes has been.
Tried ==
    /\ disk.dryRunCompleted = TRUE => dryRunDone = TRUE
    /\ proc.copy.dryRunCompleted = TRUE => dryRunDone = TRUE
    /\ proc.pc \in {"cleaning", "notifying"} => dryRunDone = TRUE

\* NothingDeletedUntried of Schedules, in the terms of its refinement: no
\* calendar, caught up with or not, deletes anything before a dry run was finished.
THEOREM NoCalendarDeletesUntried == Spec => []S!DryRunFirst
<1>1. Init => RInv /\ Tried
  BY InitMaps DEF Init, Tried, NeverCleaned, NoProcess, Clean
<1>2. ASSUME RInv, Tried, cleanSchedule
      PROVE  /\ proc'.copy.dryRunCompleted = TRUE => dryRunDone = TRUE
             /\ proc'.pc \in {"cleaning", "notifying"} => dryRunDone = TRUE
  BY <1>2 DEF cleanSchedule, Clean, Tried
<1>3. ASSUME RInv, Tried, [Next]_vars PROVE Tried'
  <2>1. CASE timeComes
    BY <1>2, <1>3, <2>1 DEF timeComes, Tried
  <2>2. CASE workDone
    BY <1>3, <2>2 DEF workDone, Tried, RInv, Record
  <2>3. CASE flush
    BY <1>3, <2>3 DEF flush, Tried, NoProcess, Clean, NeverCleaned
  <2>4. CASE look
    BY <1>3, <2>4 DEF look, Tried
  <2>5. CASE newDay
    BY <1>3, <2>5 DEF newDay, Tried, Older, RInv, Record
  <2>6. CASE shutdown
    BY <1>3, <2>6 DEF shutdown, Tried, NoProcess, Clean, NeverCleaned
  <2>7. CASE timeComesWhileOff
    BY <1>3, <2>7 DEF timeComesWhileOff, Tried
  <2>8. CASE boot
    BY <1>2, <1>3, <2>8 DEF boot, Tried
  <2>9. CASE UNCHANGED vars
    BY <1>3, <2>9 DEF vars, Tried
  <2> QED
    BY <1>3, <2>1, <2>2, <2>3, <2>4, <2>5, <2>6, <2>7, <2>8, <2>9 DEF Next
<1>4. RInv /\ [Next]_vars => RInv'
  BY StepKeepsRInv
<1>5. Tried => S!DryRunFirst
  BY DEF Tried, S!DryRunFirst
<1> QED
  BY <1>1, <1>3, <1>4, <1>5, PTL DEF Spec

--------------------------------------------------------------------------------
(* What the dates need of the state: an invariant by parts. *)

\* The control of the machine, the timers and the headless clean.
ControlInv ==
    /\ on = FALSE => /\ proc.pc = "none"
                     /\ shown = NotLooked
                     /\ interval = EveryN
                     /\ Persistent \/ sinceStart = 0
    /\ missed = TRUE => on = FALSE /\ Persistent
    /\ HasInterval \/ interval = EveryN
    /\ struck = TRUE => interval >= 1

\* A clean crosses one midnight, at the most.
ProcessInv ==
    proc.pc # "none" =>
        /\ sinceStart <= (IF proc.crossed THEN 1 ELSE 0)
        /\ proc.crossed = TRUE => struck = FALSE

\* For a schedule of every N days: the gate was open when the clean started, and
\* a record of today was written before the time of the day, or after it.
GateInv ==
    schedule.frequency = "EveryNDays" =>
        /\ proc.pc # "none" => disk.lastRun >= EveryN
        /\ proc.pc = "notifying" =>
             /\ proc.copy.lastRun \in {0, 1}
             /\ proc.copy.lastRun = 1 => proc.crossed = TRUE
             /\ proc.copy.lastRun = 0 => tooEarly = TRUE \/ struck = TRUE
        /\ disk.lastRun = 0 => tooEarly = TRUE \/ struck = TRUE

\* How long ago the last start may be, at a given date.
MaxDaily == IF struck /\ ~missed THEN 0 ELSE 1

MaxWeekly ==
    LET days == (today.dow - schedule.dayOfWeek) % 7
    IN  IF missed \/ (days = 0 /\ ~struck) THEN 7 ELSE days

MaxMonthly ==
    LET days == today.day - schedule.dayOfMonth
    IN  IF missed THEN 31
        ELSE IF days > 0 \/ (days = 0 /\ struck) THEN days ELSE days + 31

CronDays == (today.day - 1) % EveryN

MaxEveryN ==
    IF disk.lastRun < EveryN THEN disk.lastRun + 1
    ELSE CASE schedule.scheduler = "systemd" ->
                IF struck /\ ~missed THEN 0 ELSE EveryN + 1
           [] schedule.scheduler = "cron" ->
                IF CronDays = 0 /\ ~struck THEN 2 * EveryN ELSE EveryN + CronDays
           [] schedule.scheduler = "launchd" -> 2 * EveryN - interval

LateInv ==
    /\ schedule.frequency = "Daily" => sinceStart <= MaxDaily
    /\ schedule.frequency = "Weekly" => sinceStart <= MaxWeekly
    /\ schedule.frequency = "Monthly" => sinceStart <= MaxMonthly
    /\ schedule.frequency = "EveryNDays" => sinceStart <= MaxEveryN

\* The date that was shown is the one that would be shown now; for a schedule of
\* every N days, it is a multiple of N days after the last run.
ShownInv ==
    shown # NotLooked =>
        IF schedule.frequency = "EveryNDays"
        THEN disk.lastRun # NeverRan =>
               shown + disk.lastRun \in {0, EveryN, 2 * EveryN}
        ELSE shown = getNextRunTime

--------------------------------------------------------------------------------
(* The arithmetic of the calendars. *)

\* The months are numbered from 1, have 28 to 31 days, and come round again.
LEMMA MonthFacts ==
  ASSUME NEW m \in Months
  PROVE  /\ Months = 1..Len(MonthDays) /\ Len(MonthDays) \in Nat
         /\ MonthDays[m] \in 28..31
         /\ (IF m = Len(MonthDays) THEN 1 ELSE m + 1) \in Months
<1>1. MonthDays \in Seq(28..31) /\ Months # {}
  BY ConstantsAssumption
<1>2. Months = 1..Len(MonthDays) /\ Len(MonthDays) \in Nat
  BY <1>1 DEF Months
<1>3. MonthDays[m] \in 28..31
  BY <1>1, <1>2
<1> QED
  BY <1>2, <1>3

\* The days to a day of the week, or since it.
LEMMA Week ==
  ASSUME NEW d \in 0..6, NEW e \in 0..6
  PROVE  /\ (d + 1) % 7 = IF d = 6 THEN 0 ELSE d + 1
         /\ (d - e) % 7 = IF d < e THEN d - e + 7 ELSE d - e
OBVIOUS

\* The days to the next multiple of N days after a run.
LEMMA NextMultiple ==
  ASSUME NEW r \in 0..(2 * EveryN - 1)
  PROVE  (-r) % EveryN = IF r = 0 \/ r = EveryN THEN 0
                         ELSE IF r < EveryN THEN EveryN - r ELSE 2 * EveryN - r
<1>1. EveryN \in Nat /\ EveryN >= 2
  BY Bounds
<1>2. CASE r = 0 \/ r = EveryN
  BY <1>1, <1>2
<1>3. CASE r # 0 /\ r # EveryN /\ r < EveryN
  BY <1>1, <1>3
<1>4. CASE r # EveryN /\ r > EveryN
  BY <1>1, <1>4
<1> QED
  BY <1>1, <1>2, <1>3, <1>4

\* Days counted from the first of a month, N by N.
LEMMA CountByN ==
  ASSUME NEW d \in Nat
  PROVE  /\ d % EveryN \in 0..(EveryN - 1)
         /\ (d + 1) % EveryN = 0 \/ (d + 1) % EveryN = (d % EveryN) + 1
         /\ 0 % EveryN = 0
<1>1. EveryN \in Nat /\ EveryN >= 2
  BY Bounds
<1> DEFINE p == d \div EveryN
           q == (d + 1) \div EveryN
           c == d % EveryN
           e == (d + 1) % EveryN
<1>2. p \in Int /\ c \in 0..(EveryN - 1) /\ d = EveryN * p + c
  BY <1>1
<1>3. q \in Int /\ e \in 0..(EveryN - 1) /\ d + 1 = EveryN * q + e
  BY <1>1
<1> HIDE DEF p, q, c, e
<1>4. EveryN * (q - p) = 1 + c - e
  BY <1>1, <1>2, <1>3
<1>5. q - p >= 0
  BY <1>1, <1>2, <1>3, <1>4
<1>6. q - p <= 1
  BY <1>1, <1>2, <1>3, <1>4
<1>7. q = p \/ q = p + 1
  BY <1>2, <1>3, <1>5, <1>6
<1>8. e = 0 \/ e = c + 1
  BY <1>1, <1>2, <1>3, <1>4, <1>7
<1>9. 0 % EveryN = 0
  BY <1>1
<1> QED
  BY <1>2, <1>8, <1>9 DEF c, e

\* The facts of TypeOK, one by one.
LEMMA TypeFacts ==
  ASSUME TypeOK
  PROVE  /\ schedule.scheduler \in {"systemd", "cron", "launchd"}
         /\ schedule.frequency \in {"Daily", "EveryNDays", "Weekly", "Monthly"}
         /\ schedule.dayOfWeek \in 0..6
         /\ schedule.dayOfMonth \in 1..31 /\ schedule.dayOfMonth \in DaysOfMonth
         /\ today.month \in Months /\ today.day \in 1..31 /\ today.dow \in 0..6
         /\ struck \in BOOLEAN /\ on \in BOOLEAN /\ missed \in BOOLEAN
         /\ tooEarly \in BOOLEAN /\ dryRunDone \in BOOLEAN
         /\ today.day <= MonthDays[today.month] /\ MonthDays[today.month] \in 28..31
         /\ NextMonth \in Months /\ MonthDays[NextMonth] \in 28..31
         /\ disk.lastRun \in 0..(2 * EveryN) /\ disk.dryRunCompleted \in BOOLEAN
         /\ proc.copy.lastRun \in 0..(2 * EveryN)
         /\ proc.pc \in {"none", "scanning", "cleaning", "notifying"}
         /\ proc.crossed \in BOOLEAN
<1>1. schedule \in Schedule /\ today \in Dates
  BY DEF TypeOK
<1>2. /\ schedule.scheduler \in {"systemd", "cron", "launchd"}
      /\ schedule.frequency \in {"Daily", "EveryNDays", "Weekly", "Monthly"}
      /\ schedule.dayOfWeek \in 0..6
      /\ schedule.dayOfMonth \in 1..31 /\ schedule.dayOfMonth \in DaysOfMonth
  BY <1>1, ConstantsAssumption DEF Schedule
<1>3. today.month \in Months /\ today.day \in 1..31 /\ today.dow \in 0..6
  BY <1>1 DEF Dates
<1>4. MonthDays[today.month] \in 28..31 /\ NextMonth \in Months
  BY <1>3, MonthFacts DEF NextMonth
<1>5. MonthDays[NextMonth] \in 28..31
  BY <1>4, MonthFacts
<1>6. /\ struck \in BOOLEAN /\ on \in BOOLEAN /\ missed \in BOOLEAN
      /\ tooEarly \in BOOLEAN /\ dryRunDone \in BOOLEAN
      /\ today.day <= MonthDays[today.month]
  BY DEF TypeOK
<1>7. /\ disk.lastRun \in 0..(2 * EveryN) /\ disk.dryRunCompleted \in BOOLEAN
      /\ proc.copy.lastRun \in 0..(2 * EveryN)
      /\ proc.pc \in {"none", "scanning", "cleaning", "notifying"}
      /\ proc.crossed \in BOOLEAN
  BY DEF TypeOK, Record, DaysSince, NeverRan
<1> QED
  BY <1>2, <1>3, <1>4, <1>5, <1>6, <1>7

\* The day after today.
LEMMA TomorrowFacts ==
  ASSUME TypeOK
  PROVE  /\ Tomorrow \in Dates /\ Tomorrow.day <= MonthDays[Tomorrow.month]
         /\ Tomorrow.dow = (IF today.dow = 6 THEN 0 ELSE today.dow + 1)
         /\ \/ /\ today.day < MonthDays[today.month]
               /\ Tomorrow.day = today.day + 1 /\ Tomorrow.month = today.month
            \/ /\ today.day = MonthDays[today.month]
               /\ Tomorrow.day = 1 /\ Tomorrow.month = NextMonth
<1>1. (today.dow + 1) % 7 = IF today.dow = 6 THEN 0 ELSE today.dow + 1
  BY TypeFacts, Week
<1>2. CASE today.day < MonthDays[today.month]
  BY <1>1, <1>2, TypeFacts DEF Tomorrow, Dates
<1>3. CASE today.day = MonthDays[today.month]
  BY <1>1, <1>3, TypeFacts DEF Tomorrow, Dates
<1> QED
  BY <1>2, <1>3, TypeFacts

\* The date that the list shows, case by case.
LEMMA NextFacts ==
  ASSUME TypeOK
  PROVE  /\ schedule.frequency = "Daily" =>
              getNextRunTime = IF struck THEN 1 ELSE 0
         /\ schedule.frequency = "Weekly" =>
              LET days == (schedule.dayOfWeek - today.dow) % 7
              IN  getNextRunTime = IF days = 0 /\ struck THEN 7 ELSE days
         /\ schedule.frequency = "Monthly" => getNextRunTime = NextMonthly
         /\ schedule.frequency = "EveryNDays" => getNextRunTime = NextEveryN
         /\ getNextRunTime \in 0..90
<1>1. CASE schedule.frequency = "Daily"
  BY <1>1, TypeFacts DEF getNextRunTime, FirstOf
<1>2. CASE schedule.frequency = "Weekly"
  <2>1. (schedule.dayOfWeek - today.dow) % 7 \in 0..6
    BY TypeFacts, Week
  <2>2. getNextRunTime = FirstOf((schedule.dayOfWeek - today.dow) % 7, 7)
    BY <1>2 DEF getNextRunTime
  <2> QED
    BY <1>2, <2>1, <2>2, TypeFacts DEF FirstOf
<1>3. CASE schedule.frequency = "Monthly"
  <2>1. getNextRunTime = NextMonthly
    BY <1>3 DEF getNextRunTime
  <2>2. NextMonthly \in 0..90
    BY TypeFacts DEF NextMonthly, FirstOf, SmallerOf
  <2> QED
    BY <1>3, <2>1, <2>2
<1>4. CASE schedule.frequency = "EveryNDays"
  <2>1. getNextRunTime = NextEveryN
    BY <1>4 DEF getNextRunTime
  <2>2. disk.lastRun # NeverRan => (-disk.lastRun) % EveryN \in 0..EveryN
    BY Bounds, TypeFacts, NextMultiple
  <2>3. NextEveryN \in 0..90
    BY <2>2, TypeFacts, EveryNAssumption DEF NextEveryN, FirstOf
  <2> QED
    BY <1>4, <2>1, <2>3
<1> QED
  BY <1>1, <1>2, <1>3, <1>4, TypeFacts

--------------------------------------------------------------------------------
(* Types and control. *)

LEMMA InitTypes == Init => TypeOK /\ ControlInv
<1> SUFFICES ASSUME Init PROVE TypeOK /\ ControlInv
  OBVIOUS
<1> USE DEF Init
<1>1. schedule \in Schedule
  OBVIOUS
<1>2. today \in Dates /\ today.day <= MonthDays[today.month]
  <2>1. 1 \in Months
    <3>1. PICK m : m \in Months
      BY ConstantsAssumption
    <3> QED
      BY <3>1, MonthFacts
  <2>2. MonthDays[1] \in 28..31
    BY <2>1, MonthFacts
  <2> QED
    BY <2>1, <2>2 DEF Dates
<1>3. disk \in Record /\ NeverCleaned \in Record
  BY Bounds DEF NeverCleaned, Record, DaysSince
<1>4. proc \in [pc : {"none", "scanning", "cleaning", "notifying"},
                copy : Record, crossed : BOOLEAN]
  BY <1>3 DEF NoProcess, Clean
<1>5. nightsOff \in 0..MaxOff /\ interval \in 0..EveryN /\ sinceRun \in 0..EveryN
      /\ sinceStart \in 0..MaxSince
  BY Bounds, ConstantsAssumption DEF MaxSince
<1>6. TypeOK
  BY <1>1, <1>2, <1>3, <1>4, <1>5 DEF TypeOK
<1>7. ControlInv
  BY Bounds DEF ControlInv
<1> QED
  BY <1>6, <1>7

\* What a clean that starts, or does not, leaves.
LEMMA StartFacts ==
  ASSUME TypeOK, proc.pc = "none", cleanSchedule
  PROVE  \/ /\ isEveryNDaysGateBlocked
            /\ proc' = proc /\ shown' = shown /\ sinceStart' = sinceStart
         \/ /\ ~isEveryNDaysGateBlocked
            /\ proc' = Clean(IF disk.dryRunCompleted THEN "cleaning" ELSE "scanning",
                             disk)
            /\ proc'.pc \in {"scanning", "cleaning"} /\ proc'.crossed = FALSE
            /\ proc' \in [pc : {"none", "scanning", "cleaning", "notifying"},
                          copy : Record, crossed : BOOLEAN]
            /\ shown' = NotLooked /\ sinceStart' = 0
<1>1. disk \in Record
  BY DEF TypeOK
<1>2. CASE isEveryNDaysGateBlocked
  BY <1>2 DEF cleanSchedule
<1>3. CASE ~isEveryNDaysGateBlocked
  <2> DEFINE pc == IF disk.dryRunCompleted THEN "cleaning" ELSE "scanning"
  <2>1. pc \in {"scanning", "cleaning"}
    OBVIOUS
  <2>2. proc' = Clean(pc, disk) /\ shown' = NotLooked /\ sinceStart' = 0
    BY <1>3 DEF cleanSchedule
  <2> HIDE DEF pc
  <2>3. /\ proc'.pc = pc /\ proc'.crossed = FALSE
        /\ proc' \in [pc : {"none", "scanning", "cleaning", "notifying"},
                      copy : Record, crossed : BOOLEAN]
    BY <1>1, <2>1, <2>2 DEF Clean
  <2> QED
    BY <1>3, <2>1, <2>2, <2>3 DEF pc
<1> QED
  BY <1>2, <1>3

\* Midnight, variable by variable.
LEMMA NewDayFacts ==
  ASSUME TypeOK, ControlInv, newDay
  PROVE  /\ struck = TRUE /\ proc.crossed = FALSE
         /\ struck' = FALSE /\ today' = Tomorrow
         /\ disk' = Older(disk) /\ disk' \in Record
         /\ disk'.lastRun = IF disk.lastRun = NeverRan THEN NeverRan
                            ELSE IF disk.lastRun = NeverRan - 1 THEN EveryN
                            ELSE disk.lastRun + 1
         /\ proc'.pc = proc.pc
         /\ proc.pc = "none" => proc' = proc
         /\ proc.pc # "none" => /\ proc.crossed = FALSE /\ proc'.crossed = TRUE
                                /\ proc'.copy = Older(proc.copy)
         /\ proc' \in [pc : {"none", "scanning", "cleaning", "notifying"},
                       copy : Record, crossed : BOOLEAN]
         /\ UNCHANGED <<schedule, on, missed, tooEarly, dryRunDone>>
<1>1. disk \in Record /\ proc.copy \in Record
      /\ proc \in [pc : {"none", "scanning", "cleaning", "notifying"},
                   copy : Record, crossed : BOOLEAN]
  BY DEF TypeOK
<1>2. Older(disk) \in Record /\ Older(proc.copy) \in Record
  BY <1>1, OlderType
<1>3. /\ struck = TRUE /\ proc.crossed = FALSE /\ struck' = FALSE
      /\ today' = Tomorrow /\ disk' = Older(disk)
      /\ proc' = IF proc.pc = "none" THEN proc
                 ELSE [proc EXCEPT !.copy = Older(proc.copy), !.crossed = TRUE]
      /\ UNCHANGED <<schedule, on, missed, tooEarly, dryRunDone>>
  BY <1>1, TypeFacts DEF newDay
<1>4. disk'.lastRun = IF disk.lastRun = NeverRan THEN NeverRan
                      ELSE IF disk.lastRun = NeverRan - 1 THEN EveryN
                      ELSE disk.lastRun + 1
  BY <1>1, <1>3 DEF Older, Record
<1>5. CASE proc.pc = "none"
  BY <1>1, <1>2, <1>3, <1>4, <1>5
<1>6. CASE proc.pc # "none"
  <2>1. proc' = [proc EXCEPT !.copy = Older(proc.copy), !.crossed = TRUE]
    BY <1>3, <1>6
  <2>2. /\ proc'.pc = proc.pc /\ proc'.crossed = TRUE /\ proc'.copy = Older(proc.copy)
        /\ proc' \in [pc : {"none", "scanning", "cleaning", "notifying"},
                      copy : Record, crossed : BOOLEAN]
    BY <1>1, <1>2, <2>1
  <2> QED
    BY <1>2, <1>3, <1>4, <1>6, <2>2
<1> QED
  BY <1>5, <1>6

LEMMA WorkDoneFacts ==
  ASSUME TypeOK, workDone
  PROVE  /\ proc.pc # "none" /\ proc'.pc = "notifying" /\ proc'.copy.lastRun = 0
         /\ proc'.crossed = proc.crossed /\ tooEarly' = ~struck
         /\ proc' \in [pc : {"none", "scanning", "cleaning", "notifying"},
                       copy : Record, crossed : BOOLEAN]
         /\ UNCHANGED <<schedule, today, struck, on, missed, interval, disk, shown,
                        sinceStart>>
<1>1. [lastRun |-> 0, dryRunCompleted |-> TRUE] \in Record
  BY Bounds DEF Record, DaysSince
<1>2. proc \in [pc : {"none", "scanning", "cleaning", "notifying"},
                copy : Record, crossed : BOOLEAN]
  BY DEF TypeOK
<1> QED
  BY <1>1, <1>2 DEF workDone

\* Types, and the control of the machine, step by step.
LEMMA StepKeepsTypes ==
  TypeOK /\ ControlInv /\ [Next]_vars => TypeOK' /\ ControlInv'
<1> SUFFICES ASSUME TypeOK, ControlInv, [Next]_vars PROVE TypeOK' /\ ControlInv'
  OBVIOUS
<1> DEFINE Procs_ == [pc : {"none", "scanning", "cleaning", "notifying"},
                      copy : Record, crossed : BOOLEAN]
<1>0. proc \in Procs_ /\ NoProcess \in Procs_ /\ NoProcess.pc = "none"
      /\ EveryN \in Nat /\ EveryN >= 2 /\ 0 \in 0..MaxSince /\ 0 \in 0..MaxOff
      /\ sinceStart \in 0..MaxSince /\ sinceRun \in 0..EveryN /\ interval \in 0..EveryN
      /\ nightsOff \in 0..MaxOff /\ MaxOff \in Nat /\ MaxSince \in Nat
  BY Bounds, ConstantsAssumption
     DEF TypeOK, NoProcess, Clean, NeverCleaned, Record, DaysSince, MaxSince
<1>1. CASE timeComes
  <2>1. /\ on = TRUE /\ struck' = TRUE /\ proc.pc = "none"
        /\ interval' = IF interval = 0 THEN EveryN ELSE interval
        /\ UNCHANGED <<schedule, today, on, nightsOff, missed, disk, tooEarly,
                       dryRunDone, sinceRun>>
    BY <1>1, TypeFacts DEF timeComes
  <2>2. proc' \in Procs_ /\ shown' \in {NotLooked} \union 0..90
        /\ sinceStart' \in 0..MaxSince
    BY <1>0, <1>1, StartFacts DEF timeComes, TypeOK
  <2>3. interval' \in 1..EveryN
    BY <1>0, <2>1
  <2>4. TypeOK'
    BY <2>1, <2>2, <2>3 DEF TypeOK
  <2> QED
    BY <2>1, <2>3, <2>4 DEF ControlInv, HasInterval, Persistent
<1>2. CASE workDone
  <2>1. sinceRun' = 0 /\ tooEarly' \in BOOLEAN /\ dryRunDone' \in BOOLEAN
        /\ nightsOff' = nightsOff
    BY <1>2, TypeFacts DEF workDone
  <2>2. TypeOK'
    BY <1>0, <1>2, <2>1, WorkDoneFacts DEF TypeOK
  <2> QED
    BY <1>2, <2>2, WorkDoneFacts DEF ControlInv, HasInterval, Persistent
<1>3. CASE flush
  <2>1. proc' = NoProcess /\ disk' = proc.copy /\ shown' = NotLooked
        /\ UNCHANGED <<schedule, today, struck, on, nightsOff, missed, interval,
                       tooEarly, dryRunDone, sinceRun, sinceStart>>
    BY <1>3 DEF flush
  <2>2. TypeOK'
    BY <1>0, <2>1 DEF TypeOK
  <2> QED
    BY <1>0, <2>1, <2>2 DEF ControlInv, HasInterval, Persistent
<1>4. CASE look
  <2>1. on = TRUE /\ shown' = getNextRunTime
        /\ UNCHANGED <<schedule, today, struck, on, nightsOff, missed, interval, disk,
                       proc, tooEarly, dryRunDone, sinceRun, sinceStart>>
    BY <1>4, TypeFacts DEF look
  <2>2. TypeOK'
    BY <2>1, NextFacts DEF TypeOK
  <2> QED
    BY <2>1, <2>2 DEF ControlInv, HasInterval, Persistent
<1>5. CASE newDay
  <2>1. interval' = (IF on /\ HasInterval THEN interval - 1 ELSE interval)
        /\ interval' \in 0..EveryN
    BY <1>0, <1>5, NewDayFacts DEF newDay, ControlInv
  <2>2. nightsOff' \in 0..MaxOff
    BY <1>0, <1>5, TypeFacts DEF newDay
  <2>3. shown' \in {NotLooked} \union 0..90 /\ (shown = NotLooked => shown' = NotLooked)
    BY <1>5 DEF newDay, TypeOK
  <2>4. sinceRun' \in 0..EveryN /\ sinceStart' \in 0..MaxSince
        /\ (on = FALSE => sinceStart' = sinceStart)
    BY <1>0, <1>5 DEF newDay, SmallerOf
  <2>5. today' \in Dates /\ today'.day <= MonthDays[today'.month]
    BY <1>5, NewDayFacts, TomorrowFacts
  <2>6. TypeOK'
    BY <1>5, <2>1, <2>2, <2>3, <2>4, <2>5, NewDayFacts DEF TypeOK
  <2> QED
    BY <1>5, <2>1, <2>3, <2>4, <2>6, NewDayFacts, TypeFacts
       DEF ControlInv, HasInterval, Persistent
<1>6. CASE shutdown
  <2>1. /\ on' = FALSE /\ nightsOff' = 0 /\ interval' = EveryN /\ proc' = NoProcess
        /\ shown' = NotLooked
        /\ sinceStart' = IF Persistent THEN sinceStart ELSE 0
        /\ missed = FALSE
        /\ UNCHANGED <<schedule, today, struck, missed, disk, tooEarly, dryRunDone,
                       sinceRun>>
    BY <1>6, TypeFacts DEF shutdown, ControlInv
  <2>2. sinceStart' \in 0..MaxSince /\ interval' \in 0..EveryN
    BY <1>0, <2>1
  <2>3. {struck', on', missed', tooEarly', dryRunDone'} \subseteq BOOLEAN
    <3>1. on' \in BOOLEAN
      BY <2>1
    <3>2. {struck, missed, tooEarly, dryRunDone} \subseteq BOOLEAN
      BY DEF TypeOK
    <3> QED
      BY <2>1, <3>1, <3>2
  <2>4. TypeOK'
    BY <1>0, <2>1, <2>2, <2>3 DEF TypeOK
  <2> QED
    BY <1>0, <2>1, <2>4 DEF ControlInv, HasInterval, Persistent
<1>7. CASE timeComesWhileOff
  <2>1. /\ on = FALSE /\ struck' = TRUE /\ missed' \in BOOLEAN
        /\ missed' = TRUE => missed = TRUE \/ Persistent
        /\ UNCHANGED <<schedule, today, on, nightsOff, interval, disk, proc, shown,
                       tooEarly, dryRunDone, sinceRun, sinceStart>>
    BY <1>7, TypeFacts DEF timeComesWhileOff
  <2>2. TypeOK'
    BY <2>1 DEF TypeOK
  <2> QED
    BY <1>0, <2>1, <2>2 DEF ControlInv, HasInterval, Persistent
<1>8. CASE boot
  <2>1. /\ on' = TRUE /\ interval' = EveryN /\ missed' = FALSE /\ proc.pc = "none"
        /\ UNCHANGED <<schedule, today, struck, nightsOff, disk, tooEarly, dryRunDone,
                       sinceRun>>
    BY <1>8, TypeFacts DEF boot, ControlInv
  <2>2. proc' \in Procs_ /\ shown' \in {NotLooked} \union 0..90
        /\ sinceStart' \in 0..MaxSince
    BY <1>0, <1>8, <2>1, StartFacts DEF boot, TypeOK
  <2>3. {struck', on', missed', tooEarly', dryRunDone'} \subseteq BOOLEAN
    <3>1. on' \in BOOLEAN /\ missed' \in BOOLEAN
      BY <2>1
    <3>2. {struck, tooEarly, dryRunDone} \subseteq BOOLEAN
      BY DEF TypeOK
    <3> QED
      BY <2>1, <3>1, <3>2
  <2>4. TypeOK'
    BY <1>0, <2>1, <2>2, <2>3 DEF TypeOK
  <2> QED
    BY <1>0, <2>1, <2>4 DEF ControlInv, HasInterval, Persistent
<1>9. CASE UNCHANGED vars
  BY <1>9 DEF vars, TypeOK, ControlInv, HasInterval, Persistent
<1> QED
  BY <1>1, <1>2, <1>3, <1>4, <1>5, <1>6, <1>7, <1>8, <1>9 DEF Next

\* Every variable keeps its type, for any months and any interval: the agent of
\* launchd never counts below zero, and no date of the list is out of range.
THEOREM TypeCorrect == Spec => []TypeOK
<1>1. Init => TypeOK /\ ControlInv
  BY InitTypes
<1>2. TypeOK /\ ControlInv /\ [Next]_vars => TypeOK' /\ ControlInv'
  BY StepKeepsTypes
<1> QED
  BY <1>1, <1>2, PTL DEF Spec

--------------------------------------------------------------------------------
(* The clean and the gate, step by step. *)

\* The part of the invariant that does not hang on the days of the month.
RunInv == TypeOK /\ ControlInv /\ ProcessInv /\ GateInv

LEMMA InitRuns == Init => RunInv
<1> SUFFICES ASSUME Init PROVE RunInv
  OBVIOUS
<1>1. TypeOK /\ ControlInv
  BY InitTypes
<1>2. proc.pc = "none" /\ disk.lastRun = 2 * EveryN
  BY DEF Init, NoProcess, Clean, NeverCleaned, NeverRan
<1>3. ProcessInv /\ GateInv
  BY <1>2, Bounds DEF ProcessInv, GateInv
<1> QED
  BY <1>1, <1>3 DEF RunInv

\* A clean starts where the gate is open, and only the gate can stop it.
LEMMA GateFacts ==
  ASSUME TypeOK
  PROVE  isEveryNDaysGateBlocked
           <=> schedule.frequency = "EveryNDays" /\ disk.lastRun < EveryN
BY TypeFacts, Bounds DEF isEveryNDaysGateBlocked

LEMMA StepKeepsRuns == RunInv /\ [Next]_vars => RunInv'
<1> SUFFICES ASSUME RunInv, [Next]_vars PROVE ProcessInv' /\ GateInv'
  BY StepKeepsTypes DEF RunInv
<1>0. TypeOK /\ ControlInv /\ ProcessInv /\ GateInv
  BY DEF RunInv
<1>1. ASSUME proc.pc = "none", proc' = proc \/ cleanSchedule,
             UNCHANGED <<schedule, disk, tooEarly>>,
             struck' = struck \/ struck' = TRUE
      PROVE  ProcessInv' /\ GateInv'
  <2>1. CASE proc'.pc = "none"
    BY <1>0, <1>1, <2>1 DEF ProcessInv, GateInv
  <2>2. CASE proc'.pc # "none"
    <3>1. /\ ~isEveryNDaysGateBlocked /\ sinceStart' = 0
          /\ proc'.pc # "notifying" /\ proc'.crossed = FALSE
      BY <1>0, <1>1, <2>2, StartFacts
    <3>2. schedule.frequency = "EveryNDays" => disk.lastRun >= EveryN
      BY <1>0, <3>1, GateFacts, TypeFacts, Bounds
    <3> QED
      BY <1>0, <1>1, <3>1, <3>2 DEF ProcessInv, GateInv
  <2> QED
    BY <2>1, <2>2
<1>2. CASE timeComes
  BY <1>1, <1>2 DEF timeComes
<1>3. CASE workDone
  <2>1. /\ proc.pc # "none" /\ proc'.pc = "notifying" /\ proc'.copy.lastRun = 0
        /\ proc'.crossed = proc.crossed /\ tooEarly' = ~struck
        /\ UNCHANGED <<schedule, struck, disk, sinceStart>>
    BY <1>0, <1>3, WorkDoneFacts
  <2>2. tooEarly' = TRUE \/ struck' = TRUE
    BY <1>0, <2>1, TypeFacts
  <2> QED
    BY <1>0, <2>1, <2>2 DEF ProcessInv, GateInv
<1>4. CASE flush
  <2>1. proc.pc = "notifying" /\ disk' = proc.copy /\ proc'.pc = "none"
        /\ UNCHANGED <<schedule, struck, tooEarly>>
    BY <1>4, IdleProc DEF flush
  <2> QED
    BY <1>0, <2>1 DEF ProcessInv, GateInv
<1>5. CASE look
  BY <1>0, <1>5 DEF look, ProcessInv, GateInv
<1>6. CASE newDay
  <2>1. /\ proc'.pc = proc.pc /\ struck' = FALSE /\ schedule' = schedule
        /\ disk'.lastRun = IF disk.lastRun = NeverRan THEN NeverRan
                           ELSE IF disk.lastRun = NeverRan - 1 THEN EveryN
                           ELSE disk.lastRun + 1
    BY <1>0, <1>6, NewDayFacts
  <2>2. disk.lastRun \in 0..(2 * EveryN) /\ NeverRan = 2 * EveryN /\ EveryN \in Nat
        /\ EveryN >= 2
    BY <1>0, TypeFacts, Bounds
  <2>3. disk'.lastRun # 0 /\ (disk.lastRun >= EveryN => disk'.lastRun >= EveryN)
    BY <2>1, <2>2
  <2>4. CASE proc.pc = "none"
    BY <1>0, <2>1, <2>3, <2>4 DEF ProcessInv, GateInv
  <2>5. CASE proc.pc # "none"
    <3>1. /\ proc.crossed = FALSE /\ proc'.crossed = TRUE
          /\ proc'.copy = Older(proc.copy) /\ on = TRUE
      BY <1>0, <1>6, <2>5, NewDayFacts, TypeFacts DEF ControlInv
    <3>2. sinceStart' <= 1
      <4>1. sinceStart \in 0..MaxSince /\ MaxSince \in Nat /\ sinceStart <= 0
        BY <1>0, <2>2, <2>5, <3>1 DEF ProcessInv, TypeOK, MaxSince
      <4>2. sinceStart' = SmallerOf(sinceStart + 1, MaxSince)
        BY <1>6, <3>1 DEF newDay
      <4> QED
        BY <4>1, <4>2 DEF SmallerOf
    <3>3. proc.copy \in Record
      BY <1>0 DEF TypeOK
    <3>4. proc.copy.lastRun = 0 => proc'.copy.lastRun = 1
      BY <2>2, <3>1, <3>3 DEF Older, Record
    <3>5. proc.pc = "notifying" /\ schedule.frequency = "EveryNDays"
            => proc.copy.lastRun = 0 /\ proc'.copy.lastRun = 1
      BY <1>0, <3>1, <3>4 DEF GateInv
    <3> QED
      BY <1>0, <2>1, <2>3, <2>5, <3>1, <3>2, <3>5 DEF ProcessInv, GateInv
  <2> QED
    BY <2>4, <2>5
<1>7. CASE shutdown
  BY <1>0, <1>7, IdleProc DEF shutdown, ProcessInv, GateInv
<1>8. CASE timeComesWhileOff
  BY <1>0, <1>1, <1>8, TypeFacts DEF timeComesWhileOff, ControlInv
<1>9. CASE boot
  BY <1>0, <1>1, <1>9, TypeFacts DEF boot, ControlInv
<1>10. CASE UNCHANGED vars
  BY <1>0, <1>10 DEF vars, ProcessInv, GateInv
<1> QED
  BY <1>2, <1>3, <1>4, <1>5, <1>6, <1>7, <1>8, <1>9, <1>10 DEF Next

--------------------------------------------------------------------------------
(* The time between two starts. *)

\* What a step means to the dates: a run starts, or nothing changes, or a run is
\* recorded, or the time of the day passes without a start, or a night does, or
\* the user logs in and nothing is caught up with.
Restarts == sinceStart' = 0

Waits == UNCHANGED <<schedule, today, struck, missed, interval, disk, sinceStart>>

Records ==
    /\ proc.pc = "notifying"
    /\ disk' = proc.copy
    /\ UNCHANGED <<schedule, today, struck, missed, interval, sinceStart>>

TimePasses ==
    /\ struck = FALSE /\ struck' = TRUE
    /\ \/ /\ on = TRUE
          /\ ~DueToday \/ isEveryNDaysGateBlocked
          /\ missed = FALSE /\ missed' = FALSE
          /\ interval' = IF interval = 0 THEN EveryN ELSE interval
       \/ /\ on = FALSE
          /\ missed' = (missed \/ (Persistent /\ DueToday))
          /\ interval' = interval
    /\ UNCHANGED <<schedule, today, disk, sinceStart>>

NightPasses ==
    /\ struck = TRUE /\ struck' = FALSE
    /\ today' = Tomorrow
    /\ disk'.lastRun = IF disk.lastRun = NeverRan THEN NeverRan
                       ELSE IF disk.lastRun = NeverRan - 1 THEN EveryN
                       ELSE disk.lastRun + 1
    /\ \/ /\ on = TRUE /\ missed = FALSE
          /\ sinceStart' <= sinceStart + 1
          /\ interval' = IF HasInterval THEN interval - 1 ELSE interval
       \/ /\ on = FALSE /\ Persistent
          /\ sinceStart' = sinceStart /\ interval' = interval
    /\ UNCHANGED <<schedule, missed>>

LogsIn ==
    /\ on = FALSE /\ missed' = FALSE
    /\ missed = TRUE => isEveryNDaysGateBlocked
    /\ UNCHANGED <<schedule, today, struck, interval, disk, sinceStart>>

LEMMA DateSteps ==
  ASSUME RunInv, [Next]_vars
  PROVE  Restarts \/ Waits \/ Records \/ TimePasses \/ NightPasses \/ LogsIn
<1>0. TypeOK /\ ControlInv
  BY DEF RunInv
<1>1. CASE timeComes
  <2>1. /\ on = TRUE /\ struck = FALSE /\ struck' = TRUE /\ proc.pc = "none"
        /\ missed = FALSE /\ missed' = FALSE
        /\ interval' = IF interval = 0 THEN EveryN ELSE interval
        /\ UNCHANGED <<schedule, today, disk>>
    BY <1>0, <1>1, TypeFacts DEF timeComes, ControlInv
  <2>2. CASE DueToday
    <3>1. cleanSchedule
      BY <1>1, <2>2 DEF timeComes
    <3>2. Restarts \/ (isEveryNDaysGateBlocked /\ sinceStart' = sinceStart)
      BY <1>0, <2>1, <3>1, StartFacts DEF Restarts
    <3> QED
      BY <2>1, <3>2 DEF TimePasses
  <2>3. CASE ~DueToday
    BY <1>1, <2>1, <2>3 DEF timeComes, TimePasses
  <2> QED
    BY <2>2, <2>3
<1>2. CASE workDone
  BY <1>0, <1>2, WorkDoneFacts DEF Waits
<1>3. CASE flush
  BY <1>3 DEF flush, Records
<1>4. CASE look
  BY <1>4 DEF look, Waits
<1>5. CASE newDay
  <2>1. struck = TRUE
    BY <1>0, <1>5, TypeFacts DEF newDay
  <2>2. /\ interval' = (IF on /\ HasInterval THEN interval - 1 ELSE interval)
        /\ sinceStart' = (IF on THEN SmallerOf(sinceStart + 1, MaxSince) ELSE sinceStart)
    BY <1>5 DEF newDay
  <2>3. sinceStart \in Nat /\ MaxSince \in Nat
    BY <1>0, Bounds DEF TypeOK, MaxSince
  <2>4. CASE on = TRUE
    <3>1. missed = FALSE
      BY <1>0, <2>4, TypeFacts DEF ControlInv
    <3>2. sinceStart' <= sinceStart + 1
      BY <2>2, <2>3, <2>4 DEF SmallerOf
    <3> QED
      BY <1>0, <1>5, <2>1, <2>2, <2>4, <3>1, <3>2, NewDayFacts DEF NightPasses
  <2>5. CASE on = FALSE
    <3>1. sinceStart' = sinceStart /\ interval' = interval
      BY <2>2, <2>5
    <3>2. Persistent \/ Restarts
      BY <1>0, <2>5, <3>1 DEF ControlInv, Restarts
    <3> QED
      BY <1>0, <1>5, <2>1, <2>5, <3>1, <3>2, NewDayFacts DEF NightPasses
  <2> QED
    BY <1>0, <2>4, <2>5, TypeFacts
<1>6. CASE shutdown
  <2>1. Persistent => interval = EveryN
    BY <1>0 DEF ControlInv, HasInterval, Persistent
  <2> QED
    BY <1>6, <2>1 DEF shutdown, Waits, Restarts
<1>7. CASE timeComesWhileOff
  BY <1>0, <1>7, TypeFacts DEF timeComesWhileOff, TimePasses
<1>8. CASE boot
  <2>1. /\ on = FALSE /\ missed' = FALSE /\ interval' = interval /\ proc.pc = "none"
        /\ UNCHANGED <<schedule, today, struck, disk>>
    BY <1>0, <1>8, TypeFacts DEF boot, ControlInv
  <2>2. CASE missed = TRUE
    <3>1. cleanSchedule
      BY <1>8, <2>2 DEF boot
    <3>2. Restarts \/ (isEveryNDaysGateBlocked /\ sinceStart' = sinceStart)
      BY <1>0, <2>1, <3>1, StartFacts DEF Restarts
    <3> QED
      BY <2>1, <3>2 DEF LogsIn
  <2>3. CASE missed = FALSE
    BY <1>8, <2>1, <2>3 DEF boot, LogsIn
  <2> QED
    BY <1>0, <2>2, <2>3, TypeFacts
<1>9. CASE UNCHANGED vars
  BY <1>9 DEF vars, Waits
<1> QED
  BY <1>1, <1>2, <1>3, <1>4, <1>5, <1>6, <1>7, <1>8, <1>9 DEF Next

\* In each case by itself, for one frequency after the other.
LEMMA StepKeepsDaily ==
  ASSUME RunInv, [Next]_vars, schedule.frequency = "Daily", sinceStart <= MaxDaily
  PROVE  sinceStart' <= MaxDaily'
<1>0. TypeOK /\ TypeOK' /\ ControlInv /\ sinceStart \in Nat /\ sinceStart' \in Nat
  BY StepKeepsTypes DEF RunInv, TypeOK
<1>1. DueToday /\ ~isEveryNDaysGateBlocked
  BY DEF DueToday, isEveryNDaysGateBlocked
<1>2. MaxDaily = (IF struck = TRUE /\ missed = FALSE THEN 0 ELSE 1)
      /\ MaxDaily' = (IF struck' = TRUE /\ missed' = FALSE THEN 0 ELSE 1)
  BY <1>0, TypeFacts DEF MaxDaily, TypeOK
<1>3. CASE Restarts
  BY <1>2, <1>3 DEF Restarts
<1>4. CASE Waits
  BY <1>2, <1>4 DEF Waits
<1>5. CASE Records
  BY <1>2, <1>5 DEF Records
<1>6. CASE TimePasses
  <2>1. on = FALSE /\ sinceStart' = sinceStart
    BY <1>1, <1>6 DEF TimePasses
  <2>2. CASE Persistent
    <3>1. missed' = TRUE
      BY <1>0, <1>1, <1>6, <2>1, <2>2, TypeFacts DEF TimePasses
    <3> QED
      BY <1>0, <1>2, <1>6, <2>1, <3>1 DEF TimePasses
  <2>3. CASE ~Persistent
    BY <1>0, <1>2, <2>1, <2>3 DEF ControlInv
  <2> QED
    BY <2>2, <2>3
<1>7. CASE NightPasses
  BY <1>0, <1>2, <1>7, TypeFacts DEF NightPasses
<1>8. CASE LogsIn
  BY <1>0, <1>1, <1>2, <1>8, TypeFacts DEF LogsIn
<1> QED
  BY <1>3, <1>4, <1>5, <1>6, <1>7, <1>8, DateSteps

LEMMA StepKeepsWeekly ==
  ASSUME RunInv, [Next]_vars, schedule.frequency = "Weekly", sinceStart <= MaxWeekly
  PROVE  sinceStart' <= MaxWeekly'
<1>0. TypeOK /\ TypeOK' /\ ControlInv /\ sinceStart \in Nat /\ sinceStart' \in Nat
  BY StepKeepsTypes DEF RunInv, TypeOK
<1> DEFINE w == today.dow
           d == schedule.dayOfWeek
           days == IF w < d THEN w - d + 7 ELSE w - d
<1>1. /\ w \in 0..6 /\ d \in 0..6 /\ w' \in 0..6 /\ d' \in 0..6
      /\ (w - d) % 7 = days /\ (w' - d') % 7 = days'
  BY <1>0, TypeFacts, Week
<1>2. ~isEveryNDaysGateBlocked /\ (DueToday <=> days = 0)
  BY <1>1 DEF DueToday, isEveryNDaysGateBlocked
<1>3. MaxWeekly = (IF missed = TRUE \/ (days = 0 /\ struck = FALSE) THEN 7 ELSE days)
  BY <1>0, <1>1, TypeFacts DEF MaxWeekly
<1>4. MaxWeekly' = (IF missed' = TRUE \/ (days' = 0 /\ struck' = FALSE) THEN 7 ELSE days')
  <2>1. struck' \in BOOLEAN /\ missed' \in BOOLEAN
    BY <1>0 DEF TypeOK
  <2> QED
    BY <1>1, <2>1 DEF MaxWeekly
<1> HIDE DEF days
<1>5. days \in 0..6 /\ days' \in 0..6
  BY <1>1 DEF days
<1>6. CASE Restarts
  BY <1>4, <1>5, <1>6 DEF Restarts
<1>7. CASE Waits
  BY <1>3, <1>4, <1>7 DEF Waits, days
<1>8. CASE Records
  BY <1>3, <1>4, <1>8 DEF Records, days
<1>9. CASE TimePasses
  <2>1. days' = days /\ sinceStart' = sinceStart /\ struck = FALSE /\ struck' = TRUE
    BY <1>9 DEF TimePasses, days
  <2>2. CASE on = TRUE
    <3>1. days # 0 /\ missed = FALSE /\ missed' = FALSE
      BY <1>2, <1>9, <2>2 DEF TimePasses
    <3> QED
      BY <1>0, <1>3, <1>4, <1>5, <2>1, <3>1
  <2>3. CASE on = FALSE
    <3>1. missed' = (missed \/ (Persistent /\ DueToday))
      BY <1>9, <2>3 DEF TimePasses
    <3>2. CASE Persistent
      <4>1. days = 0 \/ missed = TRUE => missed' = TRUE
        BY <1>2, <3>1, <3>2
      <4> QED
        BY <1>0, <1>3, <1>4, <1>5, <2>1, <4>1
    <3>3. CASE ~Persistent
      BY <1>0, <1>4, <1>5, <2>1, <2>3, <3>3 DEF ControlInv
    <3> QED
      BY <3>2, <3>3
  <2> QED
    BY <1>0, <2>2, <2>3, TypeFacts
<1>10. CASE NightPasses
  <2>1. w' = IF w = 6 THEN 0 ELSE w + 1
    BY <1>0, <1>10, TomorrowFacts DEF NightPasses
  <2>2. d' = d /\ missed' = missed /\ struck = TRUE /\ struck' = FALSE
        /\ sinceStart' <= sinceStart + 1
    BY <1>0, <1>10 DEF NightPasses
  <2>3. days' = IF days = 6 THEN 0 ELSE days + 1
    BY <1>1, <2>1, <2>2 DEF days
  <2>4. missed = FALSE \/ sinceStart' = sinceStart
    BY <1>10 DEF NightPasses
  <2> QED
    BY <1>0, <1>3, <1>4, <1>5, <2>2, <2>3, <2>4
<1>11. CASE LogsIn
  <2>1. missed = FALSE /\ missed' = FALSE /\ days' = days /\ struck' = struck
        /\ sinceStart' = sinceStart
    BY <1>0, <1>2, <1>11, TypeFacts DEF LogsIn, days
  <2> QED
    BY <1>3, <1>4, <2>1
<1> QED
  BY <1>6, <1>7, <1>8, <1>9, <1>10, <1>11, DateSteps

LEMMA StepKeepsMonthly ==
  ASSUME DaysOfMonth \subseteq 1..28,
         RunInv, [Next]_vars, schedule.frequency = "Monthly", sinceStart <= MaxMonthly
  PROVE  sinceStart' <= MaxMonthly'
<1>0. TypeOK /\ TypeOK' /\ ControlInv /\ sinceStart \in Nat /\ sinceStart' \in Nat
  BY StepKeepsTypes DEF RunInv, TypeOK
<1> DEFINE days == today.day - schedule.dayOfMonth
<1>1. /\ today.day \in 1..31 /\ today'.day \in 1..31 /\ MonthDays[today.month] \in 28..31
      /\ schedule.dayOfMonth \in 1..28 /\ schedule'.dayOfMonth \in 1..28
      /\ schedule' = schedule
  <2>1. schedule' = schedule
    BY DEF Next, vars, timeComes, workDone, flush, look, newDay, shutdown,
           timeComesWhileOff, boot
  <2>2. today'.day \in 1..31
    BY <1>0 DEF TypeOK, Dates
  <2> QED
    BY <1>0, <2>1, <2>2, TypeFacts
<1>2. ~isEveryNDaysGateBlocked /\ (DueToday <=> days = 0)
  BY <1>1 DEF DueToday, isEveryNDaysGateBlocked
<1>3. MaxMonthly = IF missed = TRUE THEN 31
                   ELSE IF days > 0 \/ (days = 0 /\ struck = TRUE) THEN days
                   ELSE days + 31
  BY <1>0, TypeFacts DEF MaxMonthly
<1>4. MaxMonthly' = IF missed' = TRUE THEN 31
                    ELSE IF days' > 0 \/ (days' = 0 /\ struck' = TRUE) THEN days'
                    ELSE days' + 31
  <2>1. struck' \in BOOLEAN /\ missed' \in BOOLEAN
    BY <1>0 DEF TypeOK
  <2> QED
    BY <2>1 DEF MaxMonthly
<1>5. days \in -27..30 /\ days' \in -27..30
  BY <1>1
<1>6. CASE Restarts
  BY <1>4, <1>5, <1>6 DEF Restarts
<1>7. CASE Waits
  BY <1>3, <1>4, <1>7 DEF Waits
<1>8. CASE Records
  BY <1>3, <1>4, <1>8 DEF Records
<1>9. CASE TimePasses
  <2>1. days' = days /\ sinceStart' = sinceStart /\ struck = FALSE /\ struck' = TRUE
    BY <1>9 DEF TimePasses
  <2> HIDE DEF days
  <2>2. CASE on = TRUE
    <3>1. days # 0 /\ missed = FALSE /\ missed' = FALSE
      BY <1>2, <1>9, <2>2 DEF TimePasses
    <3> QED
      BY <1>0, <1>3, <1>4, <1>5, <2>1, <3>1
  <2>3. CASE on = FALSE
    <3>1. missed' = (missed \/ (Persistent /\ DueToday))
      BY <1>9, <2>3 DEF TimePasses
    <3>2. CASE Persistent
      <4>1. days = 0 \/ missed = TRUE => missed' = TRUE
        BY <1>2, <3>1, <3>2
      <4> QED
        BY <1>0, <1>3, <1>4, <1>5, <2>1, <4>1
    <3>3. CASE ~Persistent
      BY <1>0, <1>4, <1>5, <2>1, <2>3, <3>3 DEF ControlInv
    <3> QED
      BY <3>2, <3>3
  <2> QED
    BY <1>0, <2>2, <2>3, TypeFacts
<1>10. CASE NightPasses
  <2>1. missed' = missed /\ struck = TRUE /\ struck' = FALSE
        /\ sinceStart' <= sinceStart + 1
    BY <1>0, <1>10 DEF NightPasses
  <2>2. missed = FALSE \/ sinceStart' = sinceStart
    BY <1>10 DEF NightPasses
  <2>3. \/ today'.day = today.day + 1
        \/ today.day >= 28 /\ today'.day = 1
    BY <1>0, <1>1, <1>10, TomorrowFacts DEF NightPasses
  <2>4. days' = today'.day - schedule.dayOfMonth
    BY <1>1
  <2>5. CASE missed = TRUE
    BY <1>0, <1>3, <1>4, <2>1, <2>2, <2>5
  <2>6. CASE missed = FALSE
    <3>1. CASE today'.day = today.day + 1
      <4>1. days' = days + 1 /\ days \in Int
        BY <1>1, <2>4, <3>1
      <4> HIDE DEF days
      <4> QED
        BY <1>0, <1>3, <1>4, <2>1, <2>6, <4>1
    <3>2. CASE today.day >= 28 /\ today'.day = 1
      BY <1>0, <1>1, <1>3, <1>4, <2>1, <2>4, <2>6, <3>2
    <3> QED
      BY <2>3, <3>1, <3>2
  <2> QED
    BY <1>0, <2>5, <2>6, TypeFacts
<1>11. CASE LogsIn
  <2>1. missed = FALSE /\ missed' = FALSE /\ days' = days /\ struck' = struck
        /\ sinceStart' = sinceStart
    BY <1>0, <1>2, <1>11, TypeFacts DEF LogsIn
  <2> QED
    BY <1>3, <1>4, <2>1
<1> QED
  BY <1>6, <1>7, <1>8, <1>9, <1>10, <1>11, DateSteps

\* The greatest age of the last start, case by case; in the next state as well.
EveryNBounds ==
    /\ disk.lastRun \in 0..(2 * EveryN) /\ interval \in 0..EveryN
    /\ CronDays \in 0..(EveryN - 1)
    /\ disk.lastRun < EveryN => MaxEveryN = disk.lastRun + 1
    /\ disk.lastRun >= EveryN /\ schedule.scheduler = "systemd" =>
         MaxEveryN = IF struck = TRUE /\ missed = FALSE THEN 0 ELSE EveryN + 1
    /\ disk.lastRun >= EveryN /\ schedule.scheduler = "cron" =>
         MaxEveryN = IF CronDays = 0 /\ struck = FALSE THEN 2 * EveryN
                     ELSE EveryN + CronDays
    /\ disk.lastRun >= EveryN /\ schedule.scheduler = "launchd" =>
         MaxEveryN = 2 * EveryN - interval
    /\ MaxEveryN >= 0

LEMMA EveryNNow == TypeOK => EveryNBounds
<1> SUFFICES ASSUME TypeOK PROVE EveryNBounds
  OBVIOUS
<1>1. /\ disk.lastRun \in 0..(2 * EveryN) /\ interval \in 0..EveryN
      /\ struck \in BOOLEAN /\ missed \in BOOLEAN
      /\ schedule.scheduler \in {"systemd", "cron", "launchd"}
      /\ EveryN \in Nat /\ EveryN >= 2 /\ today.day - 1 \in Nat
  BY TypeFacts, Bounds DEF TypeOK
<1>2. CronDays \in 0..(EveryN - 1)
  BY <1>1, CountByN DEF CronDays
<1>3. CASE disk.lastRun < EveryN
  BY <1>1, <1>2, <1>3 DEF MaxEveryN, EveryNBounds
<1>4. CASE disk.lastRun >= EveryN /\ schedule.scheduler = "systemd"
  BY <1>1, <1>2, <1>4 DEF MaxEveryN, EveryNBounds
<1>5. CASE disk.lastRun >= EveryN /\ schedule.scheduler = "cron"
  BY <1>1, <1>2, <1>5 DEF MaxEveryN, EveryNBounds
<1>6. CASE disk.lastRun >= EveryN /\ schedule.scheduler = "launchd"
  BY <1>1, <1>2, <1>6 DEF MaxEveryN, EveryNBounds
<1> QED
  BY <1>1, <1>3, <1>4, <1>5, <1>6

LEMMA EveryNThen == TypeOK' => EveryNBounds'
BY EveryNNow, PTL

LEMMA StepKeepsEveryN ==
  ASSUME RunInv, [Next]_vars, schedule.frequency = "EveryNDays",
         sinceStart <= MaxEveryN
  PROVE  sinceStart' <= MaxEveryN'
<1>0. /\ TypeOK /\ TypeOK' /\ ControlInv /\ ProcessInv /\ GateInv
      /\ sinceStart \in Nat /\ sinceStart' \in Nat /\ EveryNBounds /\ EveryNBounds'
      /\ EveryN \in Nat /\ EveryN >= 2 /\ NeverRan = 2 * EveryN
  BY StepKeepsTypes, EveryNNow, EveryNThen, Bounds DEF RunInv, TypeOK
<1>1. /\ schedule.scheduler \in {"systemd", "cron", "launchd"}
      /\ struck \in BOOLEAN /\ missed \in BOOLEAN /\ on \in BOOLEAN
  BY <1>0, TypeFacts
<1>2. /\ isEveryNDaysGateBlocked <=> disk.lastRun < EveryN
      /\ DueToday <=> EveryNDue
      /\ Persistent <=> schedule.scheduler = "systemd"
      /\ HasInterval <=> schedule.scheduler = "launchd"
  BY <1>0, GateFacts DEF DueToday, Persistent, HasInterval
<1>3. CASE Restarts
  BY <1>0, <1>3 DEF Restarts, EveryNBounds
<1>4. CASE Waits
  BY <1>4 DEF Waits, MaxEveryN, CronDays
<1>5. CASE Records
  <2>1. disk'.lastRun \in {0, 1} /\ (disk'.lastRun = 1 => proc.crossed = TRUE)
        /\ sinceStart' = sinceStart /\ sinceStart <= (IF proc.crossed THEN 1 ELSE 0)
    BY <1>0, <1>5 DEF Records, GateInv, ProcessInv
  <2>2. sinceStart' <= 1
    BY <1>0, <2>1
  <2>3. sinceStart' <= disk'.lastRun + 1
    BY <1>0, <2>1, <2>2
  <2> QED
    BY <1>0, <2>1, <2>3 DEF EveryNBounds
<1>6. CASE TimePasses
  <2>1. /\ UNCHANGED <<schedule, today, disk, sinceStart>> /\ CronDays' = CronDays
        /\ struck = FALSE /\ struck' = TRUE
    BY <1>6 DEF TimePasses, CronDays
  <2>2. CASE disk.lastRun < EveryN
    BY <1>0, <2>1, <2>2 DEF EveryNBounds
  <2>3. CASE on = FALSE /\ ~Persistent
    BY <1>0, <2>1, <2>3 DEF ControlInv, EveryNBounds
  <2>4. CASE on = FALSE /\ Persistent /\ disk.lastRun >= EveryN
    <3>1. missed' = TRUE
      BY <1>2, <1>6, <2>4 DEF TimePasses, EveryNDue
    <3> QED
      BY <1>0, <1>2, <2>1, <2>4, <3>1 DEF EveryNBounds
  <2>5. CASE on = TRUE /\ disk.lastRun >= EveryN
    <3>1. ~EveryNDue /\ interval' = IF interval = 0 THEN EveryN ELSE interval
      BY <1>0, <1>2, <1>6, <2>5 DEF TimePasses, EveryNBounds
    <3>2. CASE schedule.scheduler = "systemd"
      BY <3>1, <3>2 DEF EveryNDue
    <3>3. CASE schedule.scheduler = "cron"
      <4>1. CronDays # 0
        BY <3>1, <3>3 DEF EveryNDue, CronDays
      <4> QED
        BY <1>0, <2>1, <2>5, <3>3, <4>1 DEF EveryNBounds
    <3>4. CASE schedule.scheduler = "launchd"
      <4>1. interval' = interval
        BY <3>1, <3>4 DEF EveryNDue
      <4> QED
        BY <1>0, <2>1, <2>5, <3>4, <4>1 DEF EveryNBounds
    <3> QED
      BY <1>1, <3>2, <3>3, <3>4
  <2>6. disk.lastRun < EveryN \/ disk.lastRun >= EveryN
    BY <1>0 DEF EveryNBounds
  <2>7. on = TRUE \/ on = FALSE
    BY <1>1
  <2> QED
    BY <2>2, <2>3, <2>4, <2>5, <2>6, <2>7
<1>7. CASE NightPasses
  <2>1. /\ struck = TRUE /\ struck' = FALSE
        /\ schedule' = schedule /\ missed' = missed /\ sinceStart' <= sinceStart + 1
        /\ missed = FALSE \/ sinceStart' = sinceStart
        /\ disk'.lastRun = IF disk.lastRun = NeverRan THEN NeverRan
                           ELSE IF disk.lastRun = NeverRan - 1 THEN EveryN
                           ELSE disk.lastRun + 1
    BY <1>0, <1>7 DEF NightPasses
  <2>2. CASE disk'.lastRun < EveryN
    BY <1>0, <2>1, <2>2 DEF EveryNBounds
  <2>3. CASE disk'.lastRun >= EveryN /\ schedule.scheduler = "systemd"
    BY <1>0, <2>1, <2>3 DEF EveryNBounds
  <2>4. CASE disk'.lastRun >= EveryN /\ schedule.scheduler = "cron"
    <3>1. CronDays' = 0 \/ CronDays' = CronDays + 1
      <4>1. today' = Tomorrow /\ today.day - 1 \in Nat
        BY <1>0, <1>7, TypeFacts DEF NightPasses
      <4>2. \/ today'.day - 1 = (today.day - 1) + 1
            \/ today'.day - 1 = 0
        BY <1>0, <4>1, TomorrowFacts, TypeFacts
      <4> QED
        BY <4>1, <4>2, CountByN DEF CronDays
    <3> QED
      BY <1>0, <2>1, <2>4, <3>1 DEF EveryNBounds
  <2>5. CASE disk'.lastRun >= EveryN /\ schedule.scheduler = "launchd"
    <3>1. interval' = interval - 1
      BY <1>2, <1>7, <2>5 DEF NightPasses
    <3> QED
      BY <1>0, <2>1, <2>5, <3>1 DEF EveryNBounds
  <2> QED
    BY <1>0, <1>1, <2>2, <2>3, <2>4, <2>5 DEF EveryNBounds
<1>8. CASE LogsIn
  <2>1. /\ on = FALSE /\ missed' = FALSE /\ (missed = TRUE => disk.lastRun < EveryN)
        /\ UNCHANGED <<schedule, today, struck, interval, disk, sinceStart>>
        /\ CronDays' = CronDays
    BY <1>2, <1>8 DEF LogsIn, CronDays
  <2> QED
    BY <1>0, <1>1, <2>1 DEF EveryNBounds
<1> QED
  BY <1>3, <1>4, <1>5, <1>6, <1>7, <1>8, DateSteps

\* A last start is never older than the greatest age at that date, whatever the
\* frequency.
LEMMA StepKeepsLate ==
  ASSUME DaysOfMonth \subseteq 1..28, RunInv, LateInv, [Next]_vars
  PROVE  LateInv'
<1>1. schedule' = schedule
  BY DEF Next, vars, timeComes, workDone, flush, look, newDay, shutdown,
         timeComesWhileOff, boot
<1> QED
  BY <1>1, StepKeepsDaily, StepKeepsWeekly, StepKeepsMonthly, StepKeepsEveryN DEF LateInv

LEMMA LateEnough ==
  ASSUME DaysOfMonth \subseteq 1..28, RunInv, LateInv
  PROVE  NeverTooLate
<1>1. TypeOK /\ sinceStart \in Nat /\ EveryN \in Nat /\ EveryN >= 2 /\ EveryNBounds
  BY EveryNNow, Bounds DEF RunInv, TypeOK
<1>2. CASE schedule.frequency = "Daily"
  BY <1>1, <1>2 DEF LateInv, MaxDaily, NeverTooLate, MaxGap
<1>3. CASE schedule.frequency = "Weekly"
  <2>1. (today.dow - schedule.dayOfWeek) % 7 \in 0..6
    BY <1>1, TypeFacts, Week
  <2>2. MaxWeekly <= 7
    BY <2>1 DEF MaxWeekly
  <2>3. sinceStart <= MaxWeekly /\ MaxWeekly \in Int
    BY <1>3, <2>1 DEF LateInv, MaxWeekly
  <2> QED
    BY <1>1, <1>3, <2>2, <2>3 DEF NeverTooLate, MaxGap
<1>4. CASE schedule.frequency = "Monthly"
  <2>1. MaxMonthly <= 31 /\ MaxMonthly \in Int
    BY <1>1, TypeFacts DEF MaxMonthly
  <2> QED
    BY <1>1, <1>4, <2>1 DEF LateInv, NeverTooLate, MaxGap
<1>5. CASE schedule.frequency = "EveryNDays"
  <2>1. sinceStart <= MaxEveryN
    BY <1>5 DEF LateInv
  <2>2. schedule.scheduler = "systemd" => MaxEveryN <= EveryN + 1
    BY <1>1 DEF EveryNBounds
  <2>3. MaxEveryN <= 2 * EveryN /\ MaxEveryN \in Int
    BY <1>1, TypeFacts DEF EveryNBounds
  <2>4. MaxGap = IF schedule.scheduler = "systemd" THEN EveryN + 1 ELSE 2 * EveryN
    BY <1>5 DEF MaxGap
  <2> QED
    BY <1>1, <2>1, <2>2, <2>3, <2>4 DEF NeverTooLate
<1> QED
  BY <1>1, <1>2, <1>3, <1>4, <1>5, TypeFacts

LEMMA InitLate ==
  ASSUME DaysOfMonth \subseteq 1..28, Init
  PROVE  LateInv
<1>1. TypeOK /\ sinceStart = 0 /\ EveryNBounds
  BY InitTypes, EveryNNow DEF Init
<1>2. (today.dow - schedule.dayOfWeek) % 7 \in 0..6
  BY <1>1, TypeFacts, Week
<1>3. MaxDaily >= 0 /\ MaxWeekly >= 0 /\ MaxEveryN >= 0
  BY <1>1, <1>2 DEF MaxDaily, MaxWeekly, EveryNBounds
<1>4. MaxMonthly >= 0
  BY <1>1, TypeFacts DEF MaxMonthly
<1> QED
  BY <1>1, <1>3, <1>4 DEF LateInv

\* No schedule waits for ever: where every month has its day, a daily schedule is
\* started each day, a weekly one within seven, a monthly one within 31, and one
\* of every N days within N + 1 by systemd and 2N by the others, for every N, every
\* calendar and however often the machine is switched off.
THEOREM NeverLate ==
  ASSUME DaysOfMonth \subseteq 1..28
  PROVE  Spec => []NeverTooLate
<1>1. Init => RunInv /\ LateInv
  BY InitRuns, InitLate
<1>2. RunInv /\ LateInv /\ [Next]_vars => RunInv' /\ LateInv'
  BY StepKeepsRuns, StepKeepsLate
<1>3. RunInv /\ LateInv => NeverTooLate
  BY LateEnough
<1> QED
  BY <1>1, <1>2, <1>3, PTL DEF Spec

--------------------------------------------------------------------------------
(* The date that the list shows. *)

\* getNextRunTime() of the other frequencies, without remainders; in the next
\* state as well.
NextDates ==
    /\ schedule.frequency = "Daily" =>
         getNextRunTime = IF struck = TRUE THEN 1 ELSE 0
    /\ schedule.frequency = "Weekly" =>
         LET days == schedule.dayOfWeek - today.dow
         IN  getNextRunTime = IF days < 0 THEN days + 7
                              ELSE IF days = 0 /\ struck = TRUE THEN 7 ELSE days
    /\ schedule.frequency = "Monthly" /\ schedule.dayOfMonth <= 28 =>
         LET days == schedule.dayOfMonth - today.day
         IN  getNextRunTime = IF days < 0 \/ (days = 0 /\ struck = TRUE)
                              THEN days + MonthDays[today.month] ELSE days

LEMMA NextNow == TypeOK => NextDates
<1> SUFFICES ASSUME TypeOK PROVE NextDates
  OBVIOUS
<1>1. CASE schedule.frequency = "Daily"
  BY <1>1, NextFacts, TypeFacts DEF NextDates
<1>2. CASE schedule.frequency = "Weekly"
  <2> DEFINE days == schedule.dayOfWeek - today.dow
  <2>1. days % 7 = (IF days < 0 THEN days + 7 ELSE days) /\ days \in -6..6
    BY TypeFacts, Week
  <2>2. getNextRunTime = IF days % 7 = 0 /\ struck = TRUE THEN 7 ELSE days % 7
    BY <1>2, NextFacts, TypeFacts
  <2> QED
    BY <1>2, <2>1, <2>2 DEF NextDates
<1>3. CASE schedule.frequency = "Monthly" /\ schedule.dayOfMonth <= 28
  <2>1. getNextRunTime = NextMonthly
    BY <1>3, NextFacts
  <2>2. SmallerOf(schedule.dayOfMonth, MonthDays[today.month]) = schedule.dayOfMonth
        /\ SmallerOf(schedule.dayOfMonth, MonthDays[NextMonth]) = schedule.dayOfMonth
    BY <1>3, TypeFacts DEF SmallerOf
  <2> QED
    BY <1>3, <2>1, <2>2, TypeFacts DEF NextMonthly, FirstOf, NextDates
<1> QED
  BY <1>1, <1>2, <1>3, TypeFacts DEF NextDates

LEMMA NextThen == TypeOK' => NextDates'
BY NextNow, PTL

\* Whether the schedule is due, in the same words.
LEMMA DueFacts ==
  ASSUME TypeOK
  PROVE  /\ schedule.frequency = "Daily" => DueToday
         /\ schedule.frequency = "Weekly" =>
              (DueToday <=> schedule.dayOfWeek = today.dow)
         /\ schedule.frequency = "Monthly" =>
              (DueToday <=> schedule.dayOfMonth = today.day)
         /\ schedule.frequency = "EveryNDays" /\ schedule.scheduler = "systemd" => DueToday
BY TypeFacts DEF DueToday, EveryNDue

\* On a schedule's day its date is today's, until the time of the day has come.
LEMMA DueIsShown ==
  ASSUME DaysOfMonth \subseteq 1..28, TypeOK, schedule.frequency # "EveryNDays",
         struck = FALSE
  PROVE  DueToday <=> getNextRunTime = 0
<1>1. schedule.dayOfMonth <= 28
  BY TypeFacts
<1>2. NextDates
  BY NextNow
<1>3. CASE schedule.frequency = "Daily"
  BY <1>2, <1>3, DueFacts DEF NextDates
<1>4. CASE schedule.frequency = "Weekly"
  BY <1>2, <1>4, DueFacts, TypeFacts DEF NextDates
<1>5. CASE schedule.frequency = "Monthly"
  BY <1>1, <1>2, <1>5, DueFacts, TypeFacts DEF NextDates
<1> QED
  BY <1>3, <1>4, <1>5, TypeFacts

\* The date of every N days, when somebody looks.
LEMMA EveryNShown ==
  ASSUME TypeOK, schedule.frequency = "EveryNDays", disk.lastRun # NeverRan
  PROVE  getNextRunTime + disk.lastRun \in {0, EveryN, 2 * EveryN}
<1>1. disk.lastRun \in 0..(2 * EveryN - 1) /\ EveryN \in Nat /\ EveryN >= 2
  BY TypeFacts, Bounds
<1> DEFINE days == (-disk.lastRun) % EveryN
<1>2. getNextRunTime = FirstOf(days, EveryN)
  BY NextFacts DEF NextEveryN
<1>3. days = IF disk.lastRun = 0 \/ disk.lastRun = EveryN THEN 0
             ELSE IF disk.lastRun < EveryN THEN EveryN - disk.lastRun
             ELSE 2 * EveryN - disk.lastRun
  BY <1>1, NextMultiple
<1> HIDE DEF days
<1> QED
  BY <1>1, <1>2, <1>3, TypeFacts DEF FirstOf

LEMMA StepKeepsShown ==
  ASSUME DaysOfMonth \subseteq 1..28, RunInv, ShownInv, [Next]_vars
  PROVE  ShownInv'
<1>0. TypeOK /\ TypeOK' /\ ControlInv
  BY StepKeepsTypes DEF RunInv
<1>s. schedule' = schedule
  BY DEF Next, vars, timeComes, workDone, flush, look, newDay, shutdown,
         timeComesWhileOff, boot
<1>n. NotLooked' = NotLooked /\ NeverRan' = NeverRan
  BY DEF NeverRan
\* Nothing that the date depends on has changed.
<1>1. ASSUME shown' = NotLooked \/ UNCHANGED <<shown, today, struck, disk>>
      PROVE  ShownInv'
  <2>1. CASE shown' = NotLooked
    BY <2>1 DEF ShownInv
  <2>2. CASE UNCHANGED <<shown, today, struck, disk>>
    <3>1. getNextRunTime' = getNextRunTime
      BY <1>s, <2>2 DEF getNextRunTime, FirstOf, NextEveryN, NextMonthly, NextMonth
    <3> QED
      BY <1>s, <1>n, <2>2, <3>1 DEF ShownInv
  <2> QED
    BY <1>1, <2>1, <2>2
<1>2. CASE timeComes
  <2>1. CASE DueToday /\ ~isEveryNDaysGateBlocked
    BY <1>1, <1>2, <2>1 DEF timeComes, cleanSchedule
  <2>2. CASE ~DueToday \/ isEveryNDaysGateBlocked
    <3>1. /\ shown' = shown /\ today' = today /\ disk' = disk
          /\ struck = FALSE /\ struck' = TRUE
      BY <1>0, <1>2, <2>2, TypeFacts DEF timeComes, cleanSchedule
    <3>2. CASE schedule.frequency = "EveryNDays"
      BY <1>s, <3>1, <3>2 DEF ShownInv
    <3>3. CASE schedule.frequency # "EveryNDays"
      <4>1. ~DueToday
        BY <2>2, <3>3 DEF isEveryNDaysGateBlocked
      <4>2. NextDates /\ NextDates' /\ schedule.dayOfMonth <= 28
        BY <1>0, NextNow, NextThen, TypeFacts
      <4>3. getNextRunTime' = getNextRunTime
        <5>1. CASE schedule.frequency = "Daily"
          BY <1>0, <4>1, <5>1, DueFacts
        <5>2. CASE schedule.frequency = "Weekly"
          BY <1>0, <1>s, <3>1, <4>1, <4>2, <5>2, DueFacts, TypeFacts DEF NextDates
        <5>3. CASE schedule.frequency = "Monthly"
          BY <1>0, <1>s, <3>1, <4>1, <4>2, <5>3, DueFacts, TypeFacts DEF NextDates
        <5> QED
          BY <1>0, <3>3, <5>1, <5>2, <5>3, TypeFacts
      <4> QED
        BY <1>s, <3>1, <3>3, <4>3 DEF ShownInv
    <3> QED
      BY <3>2, <3>3
  <2> QED
    BY <2>1, <2>2
<1>3. CASE workDone
  BY <1>1, <1>3 DEF workDone
<1>4. CASE flush
  BY <1>1, <1>4 DEF flush
<1>5. CASE look
  <2>1. shown' = getNextRunTime /\ UNCHANGED <<today, struck, disk>>
    BY <1>5 DEF look
  <2>2. CASE schedule.frequency = "EveryNDays"
    BY <1>0, <1>s, <1>n, <2>1, <2>2, EveryNShown DEF ShownInv
  <2>3. CASE schedule.frequency # "EveryNDays"
    <3>1. getNextRunTime' = getNextRunTime
      BY <1>s, <2>1 DEF getNextRunTime, FirstOf, NextEveryN, NextMonthly, NextMonth
    <3> QED
      BY <1>s, <2>1, <2>3, <3>1 DEF ShownInv
  <2> QED
    BY <2>2, <2>3
<1>6. CASE newDay
  <2>1. /\ struck = TRUE /\ struck' = FALSE /\ today' = Tomorrow
        /\ disk'.lastRun = IF disk.lastRun = NeverRan THEN NeverRan
                           ELSE IF disk.lastRun = NeverRan - 1 THEN EveryN
                           ELSE disk.lastRun + 1
        /\ shown' = IF shown \in {NotLooked, 0} THEN NotLooked ELSE shown - 1
    BY <1>0, <1>6, NewDayFacts, TypeFacts DEF newDay
  <2>2. CASE shown \in {NotLooked, 0}
    BY <1>1, <2>1, <2>2
  <2>3. CASE shown \notin {NotLooked, 0}
    <3>1. shown' = shown - 1 /\ shown \in 1..90
      BY <1>0, <2>1, <2>3 DEF TypeOK
    <3>2. CASE schedule.frequency = "EveryNDays"
      <4>1. disk.lastRun \in 0..(2 * EveryN) /\ EveryN \in Nat /\ EveryN >= 2
            /\ NeverRan = 2 * EveryN
        BY <1>0, TypeFacts, Bounds
      <4>2. disk'.lastRun # NeverRan => disk.lastRun # NeverRan
        BY <2>1
      <4>3. disk.lastRun # NeverRan => shown + disk.lastRun \in {0, EveryN, 2 * EveryN}
        BY <2>3, <3>2 DEF ShownInv
      <4>4. disk'.lastRun # NeverRan =>
              shown' + disk'.lastRun \in {0, EveryN, 2 * EveryN}
        BY <2>1, <3>1, <4>1, <4>2, <4>3
      <4> QED
        BY <1>s, <1>n, <3>2, <4>4 DEF ShownInv
    <3>3. CASE schedule.frequency # "EveryNDays"
      <4>1. shown = getNextRunTime
        BY <2>3, <3>3 DEF ShownInv
      <4>2. NextDates /\ NextDates' /\ schedule.dayOfMonth <= 28
        BY <1>0, NextNow, NextThen, TypeFacts
      <4>3. getNextRunTime' = getNextRunTime - 1
        <5>1. CASE schedule.frequency = "Daily"
          BY <1>s, <2>1, <4>2, <5>1 DEF NextDates
        <5>2. CASE schedule.frequency = "Weekly"
          <6>1. today'.dow = IF today.dow = 6 THEN 0 ELSE today.dow + 1
            BY <1>0, <2>1, TomorrowFacts
          <6> QED
            BY <1>0, <1>s, <2>1, <3>1, <4>1, <4>2, <5>2, <6>1, TypeFacts DEF NextDates
        <5>3. CASE schedule.frequency = "Monthly"
          <6>1. \/ /\ today'.day = today.day + 1 /\ today'.month = today.month
                   /\ today.day < MonthDays[today.month]
                \/ today'.day = 1 /\ today.day = MonthDays[today.month]
            BY <1>0, <2>1, TomorrowFacts
          <6> QED
            BY <1>0, <1>s, <2>1, <3>1, <4>1, <4>2, <5>3, <6>1, TypeFacts DEF NextDates
        <5> QED
          BY <1>0, <3>3, <5>1, <5>2, <5>3, TypeFacts
      <4> QED
        BY <1>s, <3>1, <3>3, <4>1, <4>3 DEF ShownInv
    <3> QED
      BY <3>2, <3>3
  <2> QED
    BY <2>2, <2>3
<1>7. CASE shutdown
  BY <1>1, <1>7 DEF shutdown
<1>8. CASE timeComesWhileOff
  <2>1. shown' = NotLooked
    BY <1>0, <1>8, TypeFacts DEF timeComesWhileOff, ControlInv
  <2> QED
    BY <1>1, <2>1
<1>9. CASE boot
  <2>1. shown' = NotLooked
    BY <1>0, <1>9, TypeFacts DEF boot, cleanSchedule, ControlInv
  <2> QED
    BY <1>1, <2>1
<1>10. CASE UNCHANGED vars
  BY <1>1, <1>10 DEF vars
<1> QED
  BY <1>2, <1>3, <1>4, <1>5, <1>6, <1>7, <1>8, <1>9, <1>10 DEF Next

\* The time of the day comes, on a machine that is on, in one action only.
LEMMA StepShowsRightDate ==
  ASSUME DaysOfMonth \subseteq 1..28, RunInv, ShownInv, [Next]_vars
  PROVE  IF schedule.frequency = "EveryNDays" THEN EveryNIsRight ELSE OthersAreRight
<1>0. TypeOK /\ GateInv /\ (0 # NotLooked)
  BY ConstantsAssumption DEF RunInv
<1>1. SUFFICES ASSUME TimeOfDay
      PROVE IF schedule.frequency = "EveryNDays" THEN EveryNIsRight ELSE OthersAreRight
  BY DEF EveryNIsRight, OthersAreRight, RunsWhenShown
<1>2. struck = FALSE /\ struck' = TRUE /\ on = TRUE
  <2>1. on = TRUE /\ struck = FALSE
    BY <1>0, <1>1, TypeFacts DEF TimeOfDay
  <2> QED
    BY <1>1, <2>1 DEF TimeOfDay, Next, vars, timeComes, workDone, flush, look, newDay,
                      shutdown, timeComesWhileOff, boot
<1>3. timeComes
  BY <1>2 DEF Next, vars, timeComes, workDone, flush, look, newDay, shutdown,
              timeComesWhileOff, boot
<1>4. Starts <=> DueToday /\ ~isEveryNDaysGateBlocked
  <2>1. proc.pc = "none"
    BY <1>3 DEF timeComes
  <2>2. CASE DueToday
    <3>1. cleanSchedule
      BY <1>3, <2>2 DEF timeComes
    <3> QED
      BY <1>0, <2>1, <2>2, <3>1, StartFacts DEF Starts
  <2>3. CASE ~DueToday
    BY <1>3, <2>1, <2>3 DEF timeComes, Starts
  <2> QED
    BY <2>2, <2>3
<1>5. CASE schedule.frequency = "EveryNDays"
  <2>1. SUFFICES ASSUME schedule.scheduler = "systemd", disk.lastRun # NeverRan,
                        ~tooEarly, shown = 0
                 PROVE  Starts
    BY <1>5 DEF EveryNIsRight, RunsWhenShown
  <2>2. disk.lastRun \in {0, EveryN, 2 * EveryN}
    BY <1>0, <1>5, <2>1, TypeFacts DEF ShownInv
  <2>3. disk.lastRun # 0
    BY <1>0, <1>2, <1>5, <2>1, TypeFacts DEF GateInv
  <2>4. ~isEveryNDaysGateBlocked
    BY <1>0, <2>2, <2>3, Bounds, GateFacts
  <2> QED
    BY <1>0, <1>4, <1>5, <2>1, <2>4, DueFacts
<1>6. CASE schedule.frequency # "EveryNDays"
  <2>1. ~isEveryNDaysGateBlocked /\ (DueToday <=> getNextRunTime = 0)
    BY <1>0, <1>2, <1>6, DueIsShown DEF isEveryNDaysGateBlocked
  <2>2. shown # NotLooked => shown = getNextRunTime
    BY <1>6 DEF ShownInv
  <2> QED
    BY <1>0, <1>4, <1>6, <2>1, <2>2 DEF OthersAreRight, RunsWhenShown
<1> QED
  BY <1>5, <1>6

\* The date in the list is kept, whenever the user looked and whatever happened to
\* the machine since: on that date the schedule runs, and on no earlier one, for
\* days that all months have; and systemd runs a schedule of every N days on it,
\* unless the last run ended before the schedule's time of the day.
THEOREM DatesAreKept ==
  ASSUME DaysOfMonth \subseteq 1..28
  PROVE  Spec => ShownDateIsKept
<1>1. Init => RunInv /\ ShownInv
  BY InitRuns DEF Init, ShownInv
<1>2. RunInv /\ ShownInv /\ [Next]_vars => RunInv' /\ ShownInv'
  BY StepKeepsRuns, StepKeepsShown
<1>3. RunInv /\ ShownInv /\ [Next]_vars =>
        [IF schedule.frequency = "EveryNDays" THEN EveryNIsRight ELSE OthersAreRight]_vars
  BY StepShowsRightDate
<1> QED
  BY <1>1, <1>2, <1>3, PTL DEF Spec, ShownDateIsKept
================================================================================
