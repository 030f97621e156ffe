---------------------------- MODULE Schedules_proofs ----------------------------
(***************************************************************************)
(* Theorems about Schedules for any number of schedules, any interval and  *)
(* any number of changes of the list, with crashes and without.            *)
(***************************************************************************)
EXTENDS Schedules, TLAPS

GuiStates == [pc : {"off", "idle", "removing", "creating"}, list : Arrays,
              todo : SUBSET Ids, synced : BOOLEAN]
Processes == [pc : {"none", "scanning", "cleaning", "notifying"}, schedules : Arrays]

\* A schedule of the array that counts as tried has been tried.
TriedIn(array, done) ==
    \A id \in Present(array) : array[id].dryRunCompleted => id \in done

\* No copy of the array, on disk, in the GUI or in a process, is ahead of what
\* has been tried.
CopiesTried ==
    /\ TriedIn(disk, dryRunDone)
    /\ TriedIn(gui.list, dryRunDone)
    /\ \A id \in Ids : TriedIn(proc[id].schedules, dryRunDone)

\* A process at work has found its schedule, and one that deletes, a tried one.
WorkFounded ==
    \A id \in Ids :
        /\ proc[id].pc \in {"scanning", "cleaning"} => id \in Present(proc[id].schedules)
        /\ proc[id].pc = "cleaning" => id \in dryRunDone

\* The timers still to create complete the ones that are there.
SyncUnderway ==
    /\ gui.pc = "creating" => /\ gui.todo \subseteq EnabledIn(gui.list)
                              /\ osTimers = EnabledIn(gui.list) \ gui.todo
    /\ TimersFollowList

\* The inductive invariant.
IInv == TypeOK /\ CopiesTried /\ WorkFounded /\ SyncUnderway

--------------------------------------------------------------------------------
(* Schedules and arrays. *)

LEMMA ScheduleNotAbsent == Absent \notin Schedule
BY ConstantsAssumption DEF ConstantsAssumption

LEMMA EveryNType == EveryN \in Nat /\ EveryN > 0 /\ Never = EveryN + 1
BY ConstantsAssumption DEF ConstantsAssumption, Never

LEMMA NewScheduleType ==
    ASSUME NEW f \in Frequencies
    PROVE  NewSchedule(f) \in Schedule /\ NewSchedule(f).dryRunCompleted = FALSE
BY ConstantsAssumption DEF ConstantsAssumption, NewSchedule, Schedule

LEMMA EditedScheduleType ==
    ASSUME NEW s \in Schedule, NEW f \in Frequencies
    PROVE  /\ EditedSchedule(s, f) \in Schedule
           /\ EditedSchedule(s, f).dryRunCompleted = s.dryRunCompleted
BY ConstantsAssumption DEF ConstantsAssumption, EditedSchedule, NewSchedule, Schedule

LEMMA RecordedType == ASSUME NEW s \in Schedule PROVE Recorded(s) \in Schedule
<1>1. 0 \in {Never} \union (0..EveryN)
  BY EveryNType
<1> QED
  BY <1>1 DEF Recorded, Schedule

LEMMA DayOlderType ==
    ASSUME NEW days \in {Never} \union (0..EveryN)
    PROVE  DayOlder(days) \in {Never} \union (0..EveryN)
BY EveryNType DEF DayOlder

LEMMA PresentSchedule ==
    ASSUME NEW array \in Arrays, NEW id \in Present(array)
    PROVE  id \in Ids /\ array[id] \in Schedule /\ array[id] # Absent
BY DEF Arrays, Present

\* Replacing one entry of an array.
LEMMA EntryChanged ==
    ASSUME NEW array \in Arrays, NEW id \in Ids, NEW s \in Schedule \union {Absent},
           NEW done, TriedIn(array, done),
           s # Absent => (s.dryRunCompleted => id \in done)
    PROVE  /\ [array EXCEPT ![id] = s] \in Arrays
           /\ TriedIn([array EXCEPT ![id] = s], done)
BY DEF Arrays, TriedIn, Present

\* More dry runs take nothing from the arrays.
LEMMA TriedStays ==
    ASSUME NEW array, NEW done, NEW more, TriedIn(array, done), done \subseteq more
    PROVE  TriedIn(array, more)
BY DEF TriedIn

\* A day later the array holds the same schedules, as tried and as enabled.
LEMMA OlderArray ==
    ASSUME NEW array \in Arrays
    PROVE  /\ ArrayDayOlder(array) \in Arrays
           /\ Present(ArrayDayOlder(array)) = Present(array)
           /\ EnabledIn(ArrayDayOlder(array)) = EnabledIn(array)
           /\ \A done : TriedIn(array, done) => TriedIn(ArrayDayOlder(array), done)
<1> DEFINE older == ArrayDayOlder(array)
<1>1. ASSUME NEW id \in Ids, array[id] = Absent
      PROVE  older[id] = Absent
  BY <1>1 DEF ArrayDayOlder
<1>2. ASSUME NEW id \in Ids, array[id] # Absent
      PROVE  /\ older[id] \in Schedule
             /\ older[id].enabled = array[id].enabled
             /\ older[id].dryRunCompleted = array[id].dryRunCompleted
  <2>1. array[id] \in Schedule
    BY <1>2 DEF Arrays
  <2>2. older[id] = [array[id] EXCEPT !.lastRun = DayOlder(@)]
    BY <1>2 DEF ArrayDayOlder
  <2>3. DayOlder(array[id].lastRun) \in {Never} \union (0..EveryN)
    BY <2>1, DayOlderType DEF Schedule
  <2> QED
    BY <2>1, <2>2, <2>3 DEF Schedule
<1>3. older \in Arrays
  <2>1. older = [id \in Ids |-> older[id]]
    BY DEF ArrayDayOlder
  <2> QED
    BY <1>1, <1>2, <2>1 DEF Arrays
<1>4. Present(older) = Present(array)
  BY <1>1, <1>2, ScheduleNotAbsent DEF Present
<1>5. EnabledIn(older) = EnabledIn(array)
  BY <1>2, <1>4 DEF EnabledIn, Present
<1>6. ASSUME NEW done, TriedIn(array, done)
      PROVE  TriedIn(older, done)
  BY <1>2, <1>4, <1>6 DEF TriedIn, Present
<1> QED
  BY <1>3, <1>4, <1>5, <1>6

--------------------------------------------------------------------------------
(* Time and the headless processes. *)

LEMMA IdleArray ==
    /\ NoArray \in Arrays /\ Present(NoArray) = {}
    /\ NoProcess \in Processes
    /\ \A done : TriedIn(NoArray, done)
BY DEF NoArray, Arrays, Present, NoProcess, Processes, TriedIn

LEMMA NewDayInv == ASSUME IInv, newDay PROVE IInv'
<1>1. /\ gui' = [gui EXCEPT !.list = ArrayDayOlder(gui.list)]
      /\ proc' = [id \in Ids |->
                    [proc[id] EXCEPT !.schedules = ArrayDayOlder(proc[id].schedules)]]
      /\ disk' = ArrayDayOlder(disk)
      /\ sinceRun' = [id \in Ids |-> DayOlder(sinceRun[id])]
      /\ UNCHANGED <<osTimers, created, edits, dryRunDone>>
  BY DEF newDay
<1>2. /\ disk \in Arrays /\ gui \in GuiStates /\ proc \in [Ids -> Processes]
      /\ sinceRun \in [Ids -> 0..EveryN]
  BY DEF IInv, TypeOK, GuiStates, Processes
<1>3. /\ gui.list \in Arrays
      /\ gui' \in GuiStates
      /\ gui'.pc = gui.pc /\ gui'.todo = gui.todo /\ gui'.synced = gui.synced
      /\ gui'.list = ArrayDayOlder(gui.list)
  BY <1>1, <1>2, OlderArray DEF GuiStates
<1>4. ASSUME NEW id \in Ids
      PROVE  /\ proc[id].schedules \in Arrays
             /\ proc'[id] \in Processes
             /\ proc'[id].pc = proc[id].pc
             /\ proc'[id].schedules = ArrayDayOlder(proc[id].schedules)
  BY <1>1, <1>2, OlderArray DEF Processes
<1>5. TypeOK'
  <2>1. \A id \in Ids : sinceRun'[id] \in 0..EveryN
    <3>1. \A days \in 0..EveryN : DayOlder(days) \in 0..EveryN
      BY EveryNType DEF DayOlder
    <3> QED
      BY <1>1, <1>2, <3>1
  <2>2. proc' \in [Ids -> Processes] /\ sinceRun' \in [Ids -> 0..EveryN]
    BY <1>1, <1>4, <2>1
  <2>3. disk' \in Arrays
    BY <1>1, <1>2, OlderArray
  <2> QED
    BY <1>1, <1>3, <2>2, <2>3 DEF IInv, TypeOK, GuiStates, Processes
<1>6. CopiesTried'
  BY <1>1, <1>2, <1>3, <1>4, OlderArray DEF IInv, CopiesTried
<1>7. WorkFounded'
  BY <1>1, <1>4, OlderArray DEF IInv, WorkFounded
<1>8. SyncUnderway'
  BY <1>1, <1>3, OlderArray DEF IInv, SyncUnderway, TimersFollowList
<1> QED
  BY <1>5, <1>6, <1>7, <1>8 DEF IInv

\* The steps of one headless process leave the GUI and its timers alone.
LEMMA SameSync == ASSUME IInv, UNCHANGED <<gui, osTimers>> PROVE SyncUnderway'
BY DEF IInv, SyncUnderway, TimersFollowList

LEMMA TimerFiresInv == ASSUME IInv, NEW id \in Ids, timerFires(id) PROVE IInv'
<1>1. UNCHANGED <<disk, gui, osTimers, created, edits, dryRunDone, sinceRun>>
  BY DEF timerFires
<1>2. disk \in Arrays /\ proc \in [Ids -> Processes]
  BY DEF IInv, TypeOK, Processes
<1>3. CASE UNCHANGED proc
  BY <1>1, <1>3, SameSync
     DEF timerFires, IInv, TypeOK, CopiesTried, WorkFounded
<1>4. CASE ~UNCHANGED proc
  <2> DEFINE new == [pc |-> IF disk[id].dryRunCompleted THEN "cleaning" ELSE "scanning",
                     schedules |-> disk]
  <2>1. disk[id] # Absent /\ proc' = [proc EXCEPT ![id] = new]
    BY <1>4 DEF timerFires
  <2>2. new \in Processes
    BY <1>2 DEF Processes
  <2>3. id \in Present(disk) /\ TriedIn(disk, dryRunDone)
    BY <2>1 DEF Present, IInv, CopiesTried
  <2>4. new.pc = "cleaning" => id \in dryRunDone
    BY <2>3 DEF TriedIn
  <2>5. new.schedules = disk
    OBVIOUS
  <2> HIDE DEF new
  <2>6. TypeOK'
    BY <1>1, <1>2, <2>1, <2>2 DEF timerFires, IInv, TypeOK, Processes
  <2>7. CopiesTried'
    BY <1>1, <1>2, <2>1, <2>3, <2>5 DEF IInv, CopiesTried
  <2>8. WorkFounded'
    BY <1>1, <1>2, <2>1, <2>3, <2>4, <2>5 DEF IInv, WorkFounded
  <2> QED
    BY <1>1, <2>6, <2>7, <2>8, SameSync DEF IInv
<1> QED
  BY <1>3, <1>4

LEMMA WorkDoneInv == ASSUME IInv, NEW id \in Ids, workDone(id) PROVE IInv'
<1>1. /\ proc[id].pc \in {"scanning", "cleaning"}
      /\ dryRunDone' = dryRunDone \union {i \in {id} : proc[id].pc = "scanning"}
      /\ sinceRun' = [sinceRun EXCEPT ![id] = 0]
      /\ UNCHANGED <<disk, gui, osTimers, created, edits>>
  BY DEF workDone
<1>2. /\ disk \in Arrays /\ proc \in [Ids -> Processes] /\ proc[id].schedules \in Arrays
      /\ dryRunDone \subseteq Ids
  BY DEF IInv, TypeOK, Processes
<1>3. id \in dryRunDone' /\ dryRunDone \subseteq dryRunDone' /\ dryRunDone' \subseteq Ids
  BY <1>1, <1>2 DEF IInv, WorkFounded
<1>4. proc[id].schedules[id] \in Schedule
  BY <1>1, <1>2, PresentSchedule DEF IInv, WorkFounded
<1>5. TriedIn(proc[id].schedules, dryRunDone')
  BY <1>3, TriedStays DEF IInv, CopiesTried
<1>6. PICK new \in Processes :
          /\ proc' = [proc EXCEPT ![id] = new]
          /\ new.pc \in {"notifying", "none"}
          /\ TriedIn(new.schedules, dryRunDone')
  <2>1. CASE NotificationsEnabled
    <3> DEFINE array == RecordedIn(proc[id].schedules, id)
               new == [pc |-> "notifying", schedules |-> array]
    <3>1. proc' = [proc EXCEPT ![id] = new]
      BY <1>2, <2>1 DEF workDone
    <3>2. Recorded(proc[id].schedules[id]) \in Schedule
      BY <1>4, RecordedType
    <3>3. array \in Arrays /\ TriedIn(array, dryRunDone')
      BY <1>2, <1>3, <1>5, <3>2, EntryChanged DEF RecordedIn
    <3> HIDE DEF array
    <3>4. new \in Processes /\ new.pc = "notifying" /\ new.schedules = array
      BY <3>3 DEF Processes
    <3> QED
      BY <3>1, <3>3, <3>4
  <2>2. CASE ~NotificationsEnabled
    <3>1. proc' = [proc EXCEPT ![id] = NoProcess]
      BY <1>2, <2>2 DEF workDone
    <3>2. NoProcess.pc = "none" /\ NoProcess.schedules = NoArray
      BY DEF NoProcess
    <3> QED
      BY <3>1, <3>2, IdleArray
  <2> QED
    BY <2>1, <2>2
<1>7. TypeOK'
  <2>1. sinceRun' \in [Ids -> 0..EveryN]
    BY <1>1, EveryNType DEF IInv, TypeOK
  <2>2. proc' \in [Ids -> Processes]
    BY <1>2, <1>6
  <2> QED
    BY <1>1, <1>3, <2>1, <2>2 DEF IInv, TypeOK, Processes
<1>8. CopiesTried'
  BY <1>1, <1>2, <1>3, <1>6, TriedStays DEF IInv, CopiesTried
<1>9. WorkFounded'
  BY <1>2, <1>3, <1>6 DEF IInv, WorkFounded
<1> QED
  BY <1>1, <1>7, <1>8, <1>9, SameSync DEF IInv

\* Flushed or killed, the process is gone.
LEMMA ProcessEndsInv ==
    ASSUME IInv, NEW id \in Ids, flush(id) \/ killed(id) PROVE IInv'
<1>1. /\ proc' = [proc EXCEPT ![id] = NoProcess]
      /\ disk' \in {disk, proc[id].schedules}
      /\ UNCHANGED <<gui, osTimers, created, edits, dryRunDone, sinceRun>>
  BY DEF flush, killed
<1>2. /\ proc \in [Ids -> Processes] /\ proc[id].schedules \in Arrays
      /\ NoProcess.pc = "none" /\ NoProcess.schedules = NoArray
  BY DEF IInv, TypeOK, Processes, NoProcess
<1>3. TypeOK'
  BY <1>1, <1>2, IdleArray DEF IInv, TypeOK, Processes
<1>4. CopiesTried'
  BY <1>1, <1>2, IdleArray DEF IInv, CopiesTried
<1>5. WorkFounded'
  BY <1>1, <1>2 DEF IInv, WorkFounded
<1> QED
  BY <1>1, <1>3, <1>4, <1>5, SameSync DEF IInv

--------------------------------------------------------------------------------
(* The GUI. *)

\* Steps of the GUI and of the synchronisation leave the processes alone.
LEMMA SameWork == ASSUME IInv, UNCHANGED <<proc, dryRunDone>> PROVE WorkFounded'
BY DEF IInv, WorkFounded

\* A GUI that comes, goes or has been killed: no timers to create, no promise.
LEMMA GuiComesOrGoesInv ==
    ASSUME IInv, loadSchedules \/ guiQuits \/ guiKilled PROVE IInv'
<1>1. PICK list \in {disk, NoArray}, pc \in {"off", "idle"} :
          gui' = Gui(pc, list, {}, FALSE)
  BY DEF loadSchedules, guiQuits, guiKilled, GuiOff
<1>2. UNCHANGED <<disk, osTimers, proc, created, edits, dryRunDone, sinceRun>>
  BY DEF loadSchedules, guiQuits, guiKilled
<1>3. list \in Arrays /\ TriedIn(list, dryRunDone)
  BY IdleArray DEF IInv, TypeOK, CopiesTried
<1>4. gui'.pc = pc /\ gui'.list = list /\ gui'.synced = FALSE /\ gui' \in GuiStates
  BY <1>1, <1>3 DEF Gui, GuiStates
<1>5. TypeOK'
  BY <1>2, <1>4 DEF IInv, TypeOK, GuiStates
<1>6. CopiesTried'
  BY <1>2, <1>3, <1>4 DEF IInv, CopiesTried
<1>7. SyncUnderway'
  BY <1>4 DEF SyncUnderway, TimersFollowList
<1> QED
  BY <1>2, <1>5, <1>6, <1>7, SameWork DEF IInv

\* A change of the list to one that is as tried.
LEMMA ListChangedInv ==
    ASSUME IInv, NEW list \in Arrays, TriedIn(list, dryRunDone), ListChanged(list),
           created' \subseteq Ids
    PROVE  IInv'
<1>1. /\ edits < MaxEdits /\ edits' = edits + 1
      /\ gui' = Gui("removing", list, {}, FALSE)
      /\ UNCHANGED <<disk, osTimers, proc, dryRunDone, sinceRun>>
  BY DEF ListChanged
<1>2. gui'.pc = "removing" /\ gui'.list = list /\ gui' \in GuiStates
  BY <1>1 DEF Gui, GuiStates
<1>3. TypeOK'
  <2>1. edits' \in 0..MaxEdits
    BY <1>1, ConstantsAssumption DEF IInv, TypeOK, ConstantsAssumption
  <2> QED
    BY <1>1, <1>2, <2>1 DEF IInv, TypeOK, GuiStates
<1>4. CopiesTried'
  BY <1>1, <1>2 DEF IInv, CopiesTried
<1>5. SyncUnderway'
  BY <1>2 DEF SyncUnderway, TimersFollowList
<1> QED
  BY <1>1, <1>3, <1>4, <1>5, SameWork DEF IInv

LEMMA UserStepInv == ASSUME IInv, NEW id \in Ids, UserStep(id) PROVE IInv'
<1>1. /\ gui.list \in Arrays /\ TriedIn(gui.list, dryRunDone)
      /\ created \subseteq Ids
  BY DEF IInv, TypeOK, CopiesTried
<1>2. ASSUME NEW s \in Schedule \union {Absent},
             s # Absent => (s.dryRunCompleted => id \in dryRunDone),
             ListChanged([gui.list EXCEPT ![id] = s]), created' \subseteq Ids
      PROVE  IInv'
  BY <1>1, <1>2, EntryChanged, ListChangedInv
<1>3. ASSUME NEW f \in Frequencies, createSchedule(id, f)
      PROVE  IInv'
  <2>1. created' \subseteq Ids /\ ListChanged([gui.list EXCEPT ![id] = NewSchedule(f)])
    BY <1>1, <1>3 DEF createSchedule
  <2> QED
    BY <1>2, <2>1, NewScheduleType
<1>4. ASSUME id \in Present(gui.list)
      PROVE  /\ gui.list[id] \in Schedule
             /\ gui.list[id].dryRunCompleted => id \in dryRunDone
  BY <1>1, <1>4, PresentSchedule DEF TriedIn
<1>5. ASSUME NEW f \in Frequencies, editSchedule(id, f)
      PROVE  IInv'
  <2>1. /\ id \in Present(gui.list) /\ created' \subseteq Ids
        /\ ListChanged([gui.list EXCEPT ![id] = EditedSchedule(gui.list[id], f)])
    BY <1>1, <1>5 DEF editSchedule
  <2>2. /\ EditedSchedule(gui.list[id], f) \in Schedule
        /\ EditedSchedule(gui.list[id], f).dryRunCompleted => id \in dryRunDone
    BY <1>4, <2>1, EditedScheduleType
  <2> QED
    BY <1>2, <2>1, <2>2
<1>6. CASE toggleSchedule(id)
  <2> DEFINE s == Toggled(gui.list[id])
  <2>1. /\ id \in Present(gui.list) /\ created' \subseteq Ids
        /\ ListChanged([gui.list EXCEPT ![id] = s])
    BY <1>1, <1>6 DEF toggleSchedule
  <2>2. s \in Schedule /\ (s.dryRunCompleted => id \in dryRunDone)
    BY <1>4, <2>1 DEF Schedule, Toggled
  <2> HIDE DEF s
  <2> QED
    BY <1>2, <2>1, <2>2
<1>7. CASE deleteSchedule(id)
  BY <1>1, <1>2, <1>7 DEF deleteSchedule
<1> QED
  BY <1>3, <1>5, <1>6, <1>7 DEF UserStep

LEMMA SyncStepInv == ASSUME IInv, SyncStep PROVE IInv'
<1>1. gui \in GuiStates
  BY DEF IInv, TypeOK, GuiStates
<1>2. ASSUME NEW id \in Ids, deleteSystemdTimer(id)
      PROVE  IInv'
  <2>1. /\ gui.pc = "removing" /\ osTimers' = osTimers \ {id}
        /\ UNCHANGED <<disk, gui, proc, created, edits, dryRunDone, sinceRun>>
    BY <1>2 DEF deleteSystemdTimer
  <2>2. TypeOK' /\ CopiesTried'
    BY <2>1 DEF IInv, TypeOK, CopiesTried
  <2>3. SyncUnderway'
    BY <2>1 DEF SyncUnderway, TimersFollowList
  <2> QED
    BY <2>1, <2>2, <2>3, SameWork DEF IInv
<1>3. ASSUME NEW id \in Ids, createSystemdTimer(id)
      PROVE  IInv'
  <2>1. /\ gui.pc = "creating" /\ id \in gui.todo
        /\ gui' = [gui EXCEPT !.todo = gui.todo \ {id}]
        /\ osTimers' = osTimers \union {id}
        /\ UNCHANGED <<disk, proc, created, edits, dryRunDone, sinceRun>>
    BY <1>3 DEF createSystemdTimer
  <2>2. /\ gui'.pc = gui.pc /\ gui'.list = gui.list /\ gui'.todo = gui.todo \ {id}
        /\ gui' \in GuiStates
    BY <1>1, <2>1 DEF GuiStates
  <2>3. TypeOK' /\ CopiesTried'
    BY <2>1, <2>2 DEF IInv, TypeOK, CopiesTried, GuiStates
  <2>4. SyncUnderway'
    BY <2>1, <2>2 DEF IInv, SyncUnderway, TimersFollowList
  <2> QED
    BY <2>1, <2>3, <2>4, SameWork DEF IInv
<1>4. CASE allTimersDeleted
  <2>1. /\ gui.pc = "removing" /\ osTimers = {}
        /\ gui' = [gui EXCEPT !.pc = "creating", !.todo = EnabledIn(gui.list)]
        /\ UNCHANGED <<disk, osTimers, proc, created, edits, dryRunDone,
                       sinceRun>>
    BY <1>4 DEF allTimersDeleted, TimersToCreate
  <2>2. /\ gui'.pc = "creating" /\ gui'.list = gui.list
        /\ gui'.todo = EnabledIn(gui.list) /\ gui' \in GuiStates
    BY <1>1, <2>1 DEF GuiStates, EnabledIn, Present
  <2>3. TypeOK' /\ CopiesTried'
    BY <2>1, <2>2 DEF IInv, TypeOK, CopiesTried, GuiStates
  <2>4. SyncUnderway'
    BY <2>1, <2>2 DEF SyncUnderway, TimersFollowList
  <2> QED
    BY <2>1, <2>3, <2>4, SameWork DEF IInv
<1>5. CASE guiFlush
  <2>1. /\ gui.pc = "creating" /\ gui.todo = {} /\ disk' = gui.list
        /\ gui' = Gui("idle", gui.list, {}, TRUE)
        /\ UNCHANGED <<osTimers, proc, created, edits, dryRunDone, sinceRun>>
    BY <1>5 DEF guiFlush
  <2>2. gui'.pc = "idle" /\ gui'.list = gui.list /\ gui' \in GuiStates
    BY <1>1, <2>1 DEF Gui, GuiStates
  <2>3. TypeOK' /\ CopiesTried'
    BY <2>1, <2>2 DEF IInv, TypeOK, CopiesTried, GuiStates
  <2>4. SyncUnderway'
    BY <2>1, <2>2 DEF IInv, SyncUnderway, TimersFollowList
  <2> QED
    BY <2>1, <2>3, <2>4, SameWork DEF IInv
<1> QED
  BY <1>2, <1>3, <1>4, <1>5 DEF SyncStep

--------------------------------------------------------------------------------
(* The theorems. *)

LEMMA InitInv == Init => IInv
<1> SUFFICES ASSUME Init PROVE IInv
  OBVIOUS
<1>1. PICK f \in Frequencies :
          disk = [id \in Ids |-> IF id \in InitialIds THEN NewSchedule(f) ELSE Absent]
  BY DEF Init
<1>2. NewSchedule(f) \in Schedule /\ NewSchedule(f).dryRunCompleted = FALSE
  BY NewScheduleType
<1>3. disk \in Arrays /\ TriedIn(disk, dryRunDone)
  BY <1>1, <1>2 DEF Arrays, TriedIn, Present
<1>4. /\ gui = Gui("off", NoArray, {}, FALSE)
      /\ gui.pc = "off" /\ gui.list = NoArray /\ gui \in GuiStates
  BY IdleArray DEF Init, GuiOff, Gui, GuiStates
<1>5. \A id \in Ids : /\ proc[id] = NoProcess
                      /\ proc[id].pc = "none" /\ proc[id].schedules = NoArray
  BY DEF Init, NoProcess
<1>6. TypeOK
  <2>1. sinceRun \in [Ids -> 0..EveryN]
    BY EveryNType DEF Init
  <2>2. proc \in [Ids -> Processes]
    BY IdleArray DEF Init
  <2>3. /\ osTimers \subseteq Ids /\ created \subseteq Ids
        /\ edits \in 0..MaxEdits /\ dryRunDone \subseteq Ids
    BY ConstantsAssumption DEF Init, ConstantsAssumption
  <2> QED
    BY <1>3, <1>4, <2>1, <2>2, <2>3 DEF TypeOK, GuiStates, Processes
<1>7. CopiesTried
  BY <1>3, <1>4, <1>5, IdleArray DEF CopiesTried
<1>8. WorkFounded /\ SyncUnderway
  BY <1>4, <1>5 DEF WorkFounded, SyncUnderway, TimersFollowList
<1> QED
  BY <1>6, <1>7, <1>8 DEF IInv

LEMMA StutterInv == ASSUME IInv, UNCHANGED vars PROVE IInv'
BY DEF IInv, TypeOK, CopiesTried, WorkFounded, SyncUnderway, TimersFollowList, vars

\* Whatever the constants, every reachable state satisfies the inductive invariant.
THEOREM Inductive == Spec => []IInv
<1>1. ASSUME IInv, [Next]_vars PROVE IInv'
  BY <1>1, NewDayInv, TimerFiresInv, WorkDoneInv, ProcessEndsInv, UserStepInv,
     GuiComesOrGoesInv, SyncStepInv, StutterInv DEF Next, HeadlessStep
<1> QED
  BY InitInv, <1>1, PTL DEF Spec

\* Every variable keeps its type; the gate's day count stays within 0..EveryN.
THEOREM TypeCorrect == Spec => []TypeOK
<1>1. IInv => TypeOK
  BY DEF IInv
<1> QED
  BY <1>1, Inductive, PTL

\* For any number of schedules and whatever is overwritten, edited or killed, no
\* schedule deletes anything before a dry run of it was finished.
THEOREM NothingDeletedUntried == Spec => []DryRunFirst
<1>1. IInv => DryRunFirst
  BY DEF IInv, WorkFounded, DryRunFirst
<1> QED
  BY <1>1, Inductive, PTL

\* Once syncToOS() is over, the enabled timers are those of the GUI's enabled
\* schedules, whatever timers an earlier, killed, synchronisation left behind.
THEOREM SyncIsComplete == Spec => []TimersFollowList
<1>1. IInv => TimersFollowList
  BY DEF IInv, SyncUnderway
<1> QED
  BY <1>1, Inductive, PTL

--------------------------------------------------------------------------------
(* The interval, where nothing takes lastRun back. *)

\* One schedule, no GUI, nobody killed, and notifications: nothing overwrites what
\* a clean has recorded, and the record is always written.
LeftAlone ==
    /\ \A i, j \in Ids : i = j
    /\ GuiOpen = FALSE /\ MayCrash = FALSE /\ NotificationsEnabled = TRUE

\* The record, on disk or about to be written, counts the days since the last run.
Counts(s, days) == s.lastRun = days \/ (s.lastRun = Never /\ days = EveryN)

RecordsCount ==
    /\ gui.pc = "off"
    /\ \A id \in Ids :
         IF proc[id].pc = "notifying"
         THEN id \in Present(proc[id].schedules)
              /\ Counts(proc[id].schedules[id], sinceRun[id])
         ELSE id \in Present(disk) => Counts(disk[id], sinceRun[id])

LEMMA CountsOlder ==
    ASSUME NEW array \in Arrays, NEW id \in Present(array), NEW days \in 0..EveryN,
           Counts(array[id], days)
    PROVE  Counts(ArrayDayOlder(array)[id], DayOlder(days))
<1>1. id \in Ids /\ array[id] \in Schedule /\ array[id] # Absent
  BY PresentSchedule
<1>2. ArrayDayOlder(array)[id] = [array[id] EXCEPT !.lastRun = DayOlder(@)]
  BY <1>1 DEF ArrayDayOlder
<1>3. ArrayDayOlder(array)[id].lastRun = DayOlder(array[id].lastRun)
  BY <1>1, <1>2 DEF Schedule
<1> QED
  BY <1>3, EveryNType DEF Counts, DayOlder

LEMMA NewDayCounts ==
    ASSUME IInv, RecordsCount, newDay
    PROVE  RecordsCount'
<1>1. gui'.pc = "off"
  BY DEF RecordsCount, newDay, IInv, TypeOK
<1> SUFFICES ASSUME NEW id \in Ids
             PROVE  IF proc'[id].pc = "notifying"
                    THEN id \in Present(proc'[id].schedules)
                         /\ Counts(proc'[id].schedules[id], sinceRun'[id])
                    ELSE id \in Present(disk') => Counts(disk'[id], sinceRun'[id])
  BY <1>1 DEF RecordsCount
<1> DEFINE copy == proc[id].schedules
<1>2. disk \in Arrays /\ copy \in Arrays /\ sinceRun[id] \in 0..EveryN
  BY DEF IInv, TypeOK
<1>3. /\ disk' = ArrayDayOlder(disk)
      /\ proc'[id].pc = proc[id].pc /\ proc'[id].schedules = ArrayDayOlder(copy)
      /\ sinceRun'[id] = DayOlder(sinceRun[id])
  BY DEF newDay, IInv, TypeOK
<1>4. Present(disk') = Present(disk) /\ Present(ArrayDayOlder(copy)) = Present(copy)
  BY <1>2, <1>3, OlderArray
<1>5. CASE proc[id].pc = "notifying"
  <2>1. id \in Present(copy) /\ Counts(copy[id], sinceRun[id])
    BY <1>5 DEF RecordsCount
  <2> QED
    BY <1>2, <1>3, <1>4, <1>5, <2>1, CountsOlder
<1>6. CASE proc[id].pc # "notifying"
  <2>1. id \in Present(disk) => Counts(disk[id], sinceRun[id])
    BY <1>6 DEF RecordsCount
  <2> QED
    BY <1>2, <1>3, <1>4, <1>6, <2>1, CountsOlder
<1> QED
  BY <1>5, <1>6

LEMMA HeadlessCounts ==
    ASSUME LeftAlone, IInv, RecordsCount, NEW i \in Ids, HeadlessStep(i)
    PROVE  RecordsCount'
<1> USE DEF LeftAlone
<1>1. Ids = {i}
  OBVIOUS
<1>2. gui.pc = "off" /\ proc[i] \in Processes /\ disk \in Arrays
  BY DEF RecordsCount, IInv, TypeOK, Processes
<1>3. CASE timerFires(i)
  BY <1>1, <1>2, <1>3 DEF timerFires, RecordsCount, IInv, TypeOK
<1>4. CASE workDone(i)
  <2>1. /\ gui' = gui
        /\ proc'[i] = [pc |-> "notifying",
                       schedules |-> RecordedIn(proc[i].schedules, i)]
        /\ sinceRun'[i] = 0
    BY <1>4 DEF workDone, IInv, TypeOK
  <2>2. i \in Present(proc[i].schedules)
    BY <1>4 DEF workDone, IInv, WorkFounded
  <2>3. proc[i].schedules \in Arrays
    BY <1>2 DEF Processes
  <2>4. /\ proc[i].schedules[i] \in Schedule
        /\ RecordedIn(proc[i].schedules, i)[i] = Recorded(proc[i].schedules[i])
    BY <2>2, <2>3, PresentSchedule DEF RecordedIn, Arrays
  <2>5. /\ Recorded(proc[i].schedules[i]) \in Schedule
        /\ Recorded(proc[i].schedules[i]).lastRun = 0
    BY <2>4, RecordedType DEF Recorded, Schedule
  <2>6. i \in Present(RecordedIn(proc[i].schedules, i))
    BY <2>4, <2>5, ScheduleNotAbsent DEF Present
  <2> QED
    BY <1>1, <1>2, <2>1, <2>4, <2>5, <2>6 DEF RecordsCount, Counts
<1>5. CASE flush(i)
  BY <1>1, <1>2, <1>5 DEF flush, RecordsCount, IInv, TypeOK, NoProcess
<1>6. CASE killed(i)
  BY <1>6 DEF killed
<1> QED
  BY <1>3, <1>4, <1>5, <1>6 DEF HeadlessStep

\* Without the GUI there are no other steps.
LEMMA NoGuiSteps ==
    ASSUME LeftAlone, RecordsCount, [Next]_vars
    PROVE  newDay \/ (\E id \in Ids : HeadlessStep(id)) \/ UNCHANGED vars
BY DEF LeftAlone, RecordsCount, Next, UserStep, SyncStep, loadSchedules, guiQuits,
       guiKilled, ListChanged, createSchedule, editSchedule, toggleSchedule, deleteSchedule,
       deleteSystemdTimer, createSystemdTimer, allTimersDeleted, guiFlush

\* A schedule of every N days that is left alone never runs before N days have
\* passed since its last run.  Each hypothesis of LeftAlone is needed: another
\* process, the GUI, a kill, or a run without notification loses a date.
THEOREM IntervalIsKept == ASSUME LeftAlone PROVE Spec => EveryNDaysCadence
<1>1. Init => RecordsCount
  <2> SUFFICES ASSUME Init PROVE RecordsCount
    OBVIOUS
  <2>1. PICK f \in Frequencies :
          disk = [id \in Ids |-> IF id \in InitialIds THEN NewSchedule(f) ELSE Absent]
    BY DEF Init
  <2>2. NewSchedule(f).lastRun = Never
    BY DEF NewSchedule
  <2>3. \A id \in Present(disk) : disk[id].lastRun = Never
    BY <2>1, <2>2 DEF Present
  <2> QED
    BY <2>3 DEF Init, RecordsCount, GuiOff, Gui, NoProcess, Counts
<1>2. ASSUME IInv, RecordsCount, [Next]_vars PROVE RecordsCount'
  <2>1. CASE newDay
    BY <1>2, <2>1, NewDayCounts
  <2>2. CASE \E id \in Ids : HeadlessStep(id)
    BY <1>2, <2>2, HeadlessCounts
  <2>3. CASE UNCHANGED vars
    BY <1>2, <2>3 DEF vars, RecordsCount
  <2> QED
    BY <1>2, <2>1, <2>2, <2>3, NoGuiSteps
<1>3. ASSUME IInv, RecordsCount, [Next]_vars PROVE KeepsInterval
  <2> SUFFICES ASSUME NEW id \in Ids, StartsWork(id), disk[id].frequency = "EveryNDays"
               PROVE  sinceRun[id] = EveryN
    BY DEF KeepsInterval
  <2>1. proc[id].pc = "none" /\ proc'[id].pc \in {"scanning", "cleaning"}
    BY DEF StartsWork
  <2>2. ~newDay /\ ~UNCHANGED vars
    <3>1. newDay => proc'[id].pc = proc[id].pc
      BY <1>3 DEF newDay, IInv, TypeOK
    <3> QED
      BY <2>1, <3>1 DEF vars
  <2>3. PICK i \in Ids : HeadlessStep(i)
    BY <1>3, <2>2, NoGuiSteps
  <2>4. i = id
    BY DEF LeftAlone
  <2>5. timerFires(id) /\ proc' # proc
    BY <2>1, <2>3, <2>4 DEF HeadlessStep, workDone, flush, killed
  <2>6. disk[id] # Absent /\ ~isEveryNDaysGateBlocked(disk[id])
    BY <2>5 DEF timerFires
  <2>7. id \in Present(disk) /\ Counts(disk[id], sinceRun[id])
    BY <1>3, <2>1, <2>6 DEF RecordsCount, Present
  <2>8. sinceRun[id] \in 0..EveryN
    BY <1>3 DEF IInv, TypeOK
  <2> QED
    BY <2>6, <2>7, <2>8, EveryNType DEF isEveryNDaysGateBlocked, Counts
<1>4. IInv /\ RecordsCount /\ [Next]_vars => RecordsCount' /\ [KeepsInterval]_vars
  BY <1>2, <1>3
<1> QED
  BY <1>1, <1>4, Inductive, PTL DEF Spec, EveryNDaysCadence
================================================================================
