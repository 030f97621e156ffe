------------------------------- MODULE Schedules ------------------------------
(***************************************************************************)
(* Scheduled cleaning: the GUI's ScheduleManager, the OS timers it keeps   *)
(* (systemd user units), and the headless `nexis --clean <id>` processes   *)
(* the timers start, CleanerService::cleanSchedule().  They share one      *)
(* settings.ini key holding the whole array of schedules, which every      *)
(* process reads into a copy and writes back as a whole, with no lock.     *)
(*                                                                         *)
(* QSettings writes the file from the event loop.  A headless process runs *)
(* one only to show its notification; the GUI gets back to its own after   *)
(* syncToOS().  systemd never runs two instances of one unit.              *)
(***************************************************************************)
EXTENDS Integers, FiniteSets

CONSTANTS
    Ids,                   \* uuids of schedules
    InitialIds,            \* schedules created in earlier sessions
    Frequencies,           \* frequencies the user may pick
    EveryN,                \* everyNDays of the every-N-days schedules
    NotificationsEnabled,  \* getCleaningNotificationsEnabled()
    GuiOpen,               \* the user opens the GUI
    MayCrash,              \* processes may be killed: logout, shutdown
    MaxEdits,              \* bound: changes of the list the user makes
    Absent                 \* no schedule with this id in an array

Never == EveryN + 1    \* an invalid lastRun

\* What the modelled properties need of a CleaningSchedule.  lastRun is the
\* number of days since; the gate compares it with EveryN, so EveryN stands
\* for any larger number too.  "Daily" stands for the frequencies without gate.
Schedule == [enabled : BOOLEAN, frequency : {"Daily", "EveryNDays"},
             lastRun : {Never} \union (0..EveryN), dryRunCompleted : BOOLEAN]

ASSUME ConstantsAssumption ==
    /\ InitialIds \subseteq Ids
    /\ Frequencies \subseteq {"Daily", "EveryNDays"}
    /\ EveryN \in Nat \ {0}
    /\ NotificationsEnabled \in BOOLEAN
    /\ GuiOpen \in BOOLEAN
    /\ MayCrash \in BOOLEAN
    /\ MaxEdits \in Nat
    /\ Absent \notin Schedule

Arrays == [Ids -> Schedule \union {Absent}]
Present(array) == {id \in Ids : array[id] # Absent}
EnabledIn(array) == {id \in Present(array) : array[id].enabled}

VARIABLES
    disk,          \* the array in settings.ini
    gui,           \* where the GUI is, its mSchedules, timers still to create,
                   \* and whether it has synchronised the timers since its start
    osTimers,      \* ids with an enabled systemd timer
    proc,          \* the headless process of an id and the array it has read
    created,       \* uuids in use, now or before
    edits,         \* changes of the list so far
    dryRunDone,    \* history: ids a dry run was finished for
    sinceRun       \* history: days since the last finished run, up to EveryN

vars == <<disk, gui, osTimers, proc, created, edits, dryRunDone, sinceRun>>

NoArray == [id \in Ids |-> Absent]
NoProcess == [pc |-> "none", schedules |-> NoArray]
AllIdle == \A id \in Ids : proc[id].pc = "none"

--------------------------------------------------------------------------------
(* The calendar. *)

DayOlder(days) == IF days \in {Never, EveryN} THEN days ELSE days + 1

ArrayDayOlder(array) ==
    [id \in Ids |-> IF array[id] = Absent THEN Absent
                    ELSE [array[id] EXCEPT !.lastRun = DayOlder(@)]]

newDay ==
    /\ disk' = ArrayDayOlder(disk)
    /\ gui' = [gui EXCEPT !.list = ArrayDayOlder(@)]
    /\ proc' = [id \in Ids |-> [proc[id] EXCEPT !.schedules = ArrayDayOlder(@)]]
    /\ sinceRun' = [id \in Ids |-> DayOlder(sinceRun[id])]
    /\ UNCHANGED <<osTimers, created, edits, dryRunDone>>

--------------------------------------------------------------------------------
(* A headless clean. *)

\* Seeded fault: the gate lets the boundary day wait, too.
GateBlockedAtBoundary(s) ==
    s.frequency = "EveryNDays" /\ s.lastRun # Never /\ s.lastRun <= EveryN

\* Seeded fault: the gate opens a day early.
GateOpenEarly(s) ==
    s.frequency = "EveryNDays" /\ s.lastRun # Never /\ s.lastRun < EveryN - 1

isEveryNDaysGateBlocked(s) ==
    s.frequency = "EveryNDays" /\ s.lastRun # Never /\ s.lastRun < EveryN

\* The timer elapses, at the time of the schedule or, with Persistent=true, when
\* the machine is on again, and the process reads the array.  It leaves at once
\* without its schedule, or inside the interval.
timerFires(id) ==
    /\ id \in osTimers
    /\ proc[id].pc = "none"
    /\ IF disk[id] = Absent \/ isEveryNDaysGateBlocked(disk[id])
       THEN UNCHANGED proc
       ELSE proc' = [proc EXCEPT ![id] =
              [pc |-> IF disk[id].dryRunCompleted THEN "cleaning" ELSE "scanning",
               schedules |-> disk]]
    /\ UNCHANGED <<disk, gui, osTimers, created, edits, dryRunDone, sinceRun>>

\* Seeded fault: lastRun is written in UTC and read as local time, a day ahead.
RecordedInUtc(s) == [s EXCEPT !.lastRun = -1, !.dryRunCompleted = TRUE]

\* What a finished run, dry or not, leaves in its schedule.
Recorded(s) == [s EXCEPT !.lastRun = 0, !.dryRunCompleted = TRUE]
RecordedIn(array, id) == [array EXCEPT ![id] = Recorded(array[id])]

\* The scan or the clean is over: setSchedules() on the array read at the
\* start.  Without a notification to show, main() returns before QSettings
\* has written anything.
workDone(id) ==
    /\ proc[id].pc \in {"scanning", "cleaning"}
    /\ proc' = [proc EXCEPT ![id] =
         IF NotificationsEnabled
         THEN [pc |-> "notifying", schedules |-> RecordedIn(proc[id].schedules, id)]
         ELSE NoProcess]
    /\ dryRunDone' = dryRunDone \union {i \in {id} : proc[id].pc = "scanning"}
    /\ sinceRun' = [sinceRun EXCEPT ![id] = 0]
    /\ UNCHANGED <<disk, gui, osTimers, created, edits>>

\* The notification's event loop lets QSettings write the array; then quit.
flush(id) ==
    /\ proc[id].pc = "notifying"
    /\ disk' = proc[id].schedules
    /\ proc' = [proc EXCEPT ![id] = NoProcess]
    /\ UNCHANGED <<gui, osTimers, created, edits, dryRunDone,
                   sinceRun>>

killed(id) ==
    /\ MayCrash
    /\ proc[id].pc # "none"
    /\ proc' = [proc EXCEPT ![id] = NoProcess]
    /\ UNCHANGED <<disk, gui, osTimers, created, edits, dryRunDone,
                   sinceRun>>

--------------------------------------------------------------------------------
(* The GUI.  loadSchedules() runs once, in ScheduleManager's constructor.    *)

Gui(pc, list, todo, synced) ==
    [pc |-> pc, list |-> list, todo |-> todo, synced |-> synced]
GuiOff == Gui("off", NoArray, {}, FALSE)

loadSchedules ==
    /\ GuiOpen
    /\ gui.pc = "off"
    /\ gui' = Gui("idle", disk, {}, FALSE)
    /\ UNCHANGED <<disk, osTimers, proc, created, edits, dryRunDone,
                   sinceRun>>

guiQuits ==
    /\ gui.pc = "idle"
    /\ gui' = GuiOff
    /\ UNCHANGED <<disk, osTimers, proc, created, edits, dryRunDone,
                   sinceRun>>

guiKilled ==
    /\ MayCrash
    /\ gui.pc \notin {"off", "idle"}
    /\ gui' = GuiOff
    /\ UNCHANGED <<disk, osTimers, proc, created, edits, dryRunDone,
                   sinceRun>>

\* Each list operation is followed by saveSchedules(), which reaches the file
\* later, and syncToOS().
ListChanged(list) ==
    /\ gui.pc = "idle"
    /\ edits < MaxEdits
    /\ edits' = edits + 1
    /\ gui' = Gui("removing", list, {}, FALSE)
    /\ UNCHANGED <<disk, osTimers, proc, dryRunDone, sinceRun>>

\* Seeded fault: a new schedule counts as tried.
NewScheduleTried(frequency) ==
    [enabled |-> TRUE, frequency |-> frequency, lastRun |-> Never,
     dryRunCompleted |-> TRUE]

NewSchedule(frequency) ==
    [enabled |-> TRUE, frequency |-> frequency, lastRun |-> Never,
     dryRunCompleted |-> FALSE]

createSchedule(id, frequency) ==
    /\ id \notin created
    /\ created' = created \union {id}
    /\ ListChanged([gui.list EXCEPT ![id] = NewSchedule(frequency)])

\* The editor's getSchedule() starts from a fresh record: it keeps the id and
\* dryRunCompleted, and neither lastRun nor enabled.
EditedSchedule(s, frequency) ==
    [NewSchedule(frequency) EXCEPT !.dryRunCompleted = s.dryRunCompleted]

editSchedule(id, frequency) ==
    /\ id \in Present(gui.list)
    /\ ListChanged([gui.list EXCEPT ![id] = EditedSchedule(@, frequency)])
    /\ UNCHANGED created

Toggled(s) == [s EXCEPT !.enabled = ~s.enabled]

toggleSchedule(id) ==
    /\ id \in Present(gui.list)
    /\ ListChanged([gui.list EXCEPT ![id] = Toggled(gui.list[id])])
    /\ UNCHANGED created

deleteSchedule(id) ==
    /\ id \in Present(gui.list)
    /\ ListChanged([gui.list EXCEPT ![id] = Absent])
    /\ UNCHANGED created

\* syncToOS(): remove every timer, then create those of the enabled schedules.
deleteSystemdTimer(id) ==
    /\ gui.pc = "removing"
    /\ id \in osTimers
    /\ osTimers' = osTimers \ {id}
    /\ UNCHANGED <<disk, gui, proc, created, edits, dryRunDone,
                   sinceRun>>

\* Seeded fault: the second loop does not look at `enabled`.
TimersToCreateAll(list) == Present(list)

TimersToCreate(list) == EnabledIn(list)

allTimersDeleted ==
    /\ gui.pc = "removing"
    /\ osTimers = {}
    /\ gui' = [gui EXCEPT !.pc = "creating", !.todo = TimersToCreate(gui.list)]
    /\ UNCHANGED <<disk, osTimers, proc, created, edits, dryRunDone,
                   sinceRun>>

createSystemdTimer(id) ==
    /\ gui.pc = "creating"
    /\ id \in gui.todo
    /\ gui' = [gui EXCEPT !.todo = @ \ {id}]
    /\ osTimers' = osTimers \union {id}
    /\ UNCHANGED <<disk, proc, created, edits, dryRunDone,
                   sinceRun>>

\* Back in the event loop, QSettings writes the array.
guiFlush ==
    /\ gui.pc = "creating"
    /\ gui.todo = {}
    /\ disk' = gui.list
    /\ gui' = Gui("idle", gui.list, {}, TRUE)
    /\ UNCHANGED <<osTimers, proc, created, edits, dryRunDone,
                   sinceRun>>

--------------------------------------------------------------------------------

Init ==
    /\ disk \in {[id \in Ids |->
                     IF id \in InitialIds THEN NewSchedule(f) ELSE Absent] :
                 f \in Frequencies}
    /\ gui = GuiOff
    /\ osTimers = InitialIds
    /\ proc = [id \in Ids |-> NoProcess]
    /\ created = InitialIds
    /\ edits = 0
    /\ dryRunDone = {}
    /\ sinceRun = [id \in Ids |-> EveryN]

HeadlessStep(id) == timerFires(id) \/ workDone(id) \/ flush(id) \/ killed(id)

UserStep(id) ==
    \/ \E f \in Frequencies : createSchedule(id, f) \/ editSchedule(id, f)
    \/ toggleSchedule(id)
    \/ deleteSchedule(id)

SyncStep == \/ \E id \in Ids : deleteSystemdTimer(id) \/ createSystemdTimer(id)
            \/ allTimersDeleted
            \/ guiFlush

Next ==
    \/ newDay
    \/ \E id \in Ids : HeadlessStep(id) \/ UserStep(id)
    \/ loadSchedules
    \/ guiQuits
    \/ guiKilled
    \/ SyncStep

Spec == Init /\ [][Next]_vars

\* Days pass, timers elapse, processes come to an end.
FairSpec ==
    /\ Spec
    /\ WF_vars(newDay)
    /\ \A id \in Ids : WF_vars(timerFires(id)) /\ WF_vars(workDone(id))
                       /\ WF_vars(flush(id))

--------------------------------------------------------------------------------
(* Properties. *)

\* Every variable keeps its type.
TypeOK ==
    /\ disk \in Arrays
    /\ gui \in [pc : {"off", "idle", "removing", "creating"}, list : Arrays,
                todo : SUBSET Ids, synced : BOOLEAN]
    /\ osTimers \subseteq Ids
    /\ proc \in [Ids -> [pc : {"none", "scanning", "cleaning", "notifying"},
                         schedules : Arrays]]
    /\ created \subseteq Ids
    /\ edits \in 0..MaxEdits
    /\ dryRunDone \subseteq Ids
    /\ sinceRun \in [Ids -> 0..EveryN]

\* No schedule deletes anything before a dry run of it was finished, whatever
\* stale copies of the array overwrite each other, and whoever is killed.
DryRunFirst == \A id \in Ids : proc[id].pc = "cleaning" => id \in dryRunDone

\* After a change of the list in this session, the enabled timers are those of
\* the enabled schedules of the GUI's list.
TimersFollowList ==
    gui.pc = "idle" /\ gui.synced => osTimers = EnabledIn(gui.list)

\* Documented: a schedule of every N days never runs before N days have passed
\* since its last run.
StartsWork(id) == proc[id].pc = "none" /\ proc'[id].pc \in {"scanning", "cleaning"}
KeepsInterval ==
    \A id \in Ids :
        StartsWork(id) /\ disk[id].frequency = "EveryNDays" => sinceRun[id] = EveryN
EveryNDaysCadence == [][KeepsInterval]_vars

\* Documented: headless cleans do not conflict with the GUI.  With nobody
\* writing, the file holds the schedules of the list the user sees.
ListIsOnDisk ==
    gui.pc = "idle" /\ gui.synced /\ AllIdle => Present(disk) = Present(gui.list)

\* A schedule that is left alone keeps deleting: no dry run, gate or lost
\* record holds it back for ever.
KeepsCleaning == \A id \in InitialIds : []<>(proc[id].pc = "cleaning")
================================================================================
