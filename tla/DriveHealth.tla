------------------------------- MODULE DriveHealth ------------------------------
(***************************************************************************)
(* The drive-health cache, DiskHealthInfo::mDrives, and everybody around   *)
(* it on Linux: the full collection that a worker makes as an ordinary     *)
(* user and the UI thread publishes; the SMART unlocks of the Hardware     *)
(* page, workers that read as root through pkexec and merge into the cache *)
(* in place; the page's table, which is filled when the page is built and  *)
(* after an unlock; and the Dashboard, which keeps what was published and  *)
(* raises the alert.  mDrivesMutex makes each access of the cache a step.  *)
(*                                                                         *)
(* An entry of the cache is reduced to needsElevation and to where its     *)
(* SMART data comes from: whose data it is, and how old.                   *)
(***************************************************************************)
EXTENDS Naturals, Sequences, FiniteSets

CONSTANTS
    Listing,       \* device paths, in the order of /sys/block
    Unsafe,        \* those whose names isSafeDevicePath() refuses
    NoSmart,       \* those that answer smartctl, but without SMART data
    Unopened,      \* those that smartctl cannot open, whoever runs it
    MaxCollectors, \* bound: threads of the pool that may collect at a time
    HasSmartctl,   \* mHasSmartctl
    MaxWear,       \* bound: changes of a drive's data; the last makes it critical
    MaxUnlocks,    \* bound: unlocks the user starts
    NoData,        \* an entry's data before any was read
    NoList,        \* mDrives before the first discovery; the section hidden
    NotShown       \* the Hardware page before its first showEvent()

Collectors == 1..MaxCollectors
Drives == {Listing[i] : i \in 1..Len(Listing)}
Data   == {NoData} \union [of : Drives, version : 0..MaxWear]
Entry  == [locked : BOOLEAN, data : Data]
Lists  == [Drives -> Entry]

ASSUME ConstantsAssumption ==
    /\ Listing \in Seq(STRING)
    /\ Unsafe \subseteq Drives
    /\ NoSmart \subseteq Drives /\ Unopened \subseteq Drives
    /\ HasSmartctl \in BOOLEAN
    /\ MaxCollectors \in Nat
    /\ MaxWear \in Nat
    /\ MaxUnlocks \in Nat
    /\ NoData \notin [of : Drives, version : 0..MaxWear]
    /\ NoList \notin Lists
    /\ NotShown \notin Lists \union {NoList}

VARIABLES
    smart,       \* version of the data each drive would report now
    granted,     \* smartctl has its capabilities: no password needed any more
    polling,     \* the slow timer is active
    alertsOn,    \* getDiskHealthAlertEnabled()
    mDrives,     \* the cache
    mDiskHealthRunning,
    collect,     \* a collection: where it is, the next drive, its local list
    unlocks,     \* the unlock workers started so far, in that order
    dialog,      \* devices the open SmartPermissionDialog is about, or none
    table,       \* what the Hardware page shows
    dashboard,   \* DashboardPage::mCachedDriveHealth
    alertShown   \* the static of DashboardPage::onDiskHealthUpdated

settings == <<polling, alertsOn>>
vars == <<smart, granted, settings, mDrives, mDiskHealthRunning, collect, unlocks,
          dialog, table, dashboard, alertShown>>

Blank == [locked |-> FALSE, data |-> NoData]
BlankList == [d \in Drives |-> Blank]

\* Seeded fault: drives are counted from zero.
IdleCollectionFromZero == [pc |-> "idle", next |-> 0, list |-> BlankList]

IdleCollection == [pc |-> "idle", next |-> 1, list |-> BlankList]

--------------------------------------------------------------------------------
(* What smartctl prints for a drive. *)

SmartData(d) == IF d \in NoSmart THEN NoData
                                 ELSE [of |-> d, version |-> smart[d]]

\* When it cannot open the drive, what it prints anyway is parsed all the same.
Printed(d, opened) == IF opened THEN {SmartData(d)} ELSE {NoData, SmartData(d)}

\* deriveHealthVerdict(), reduced: no data and a locked drive is Unknown, no
\* data otherwise falls through to Good.
Verdict(entry) ==
    CASE entry.data = NoData -> IF entry.locked THEN "Unknown" ELSE "Good"
      [] OTHER -> IF entry.data.version = MaxWear THEN "Critical" ELSE "Good"

\* The drive itself: errors, wear; of what smartctl does not report nothing is kept.
wear(d) ==
    /\ d \notin NoSmart
    /\ smart[d] < MaxWear
    /\ smart' = [smart EXCEPT ![d] = @ + 1]
    /\ UNCHANGED <<granted, settings, mDrives, mDiskHealthRunning, collect, unlocks,
                   dialog, table, dashboard, alertShown>>

--------------------------------------------------------------------------------
(* The full collection. *)

\* Seeded fault: the tick does not look at mDiskHealthRunning.
MayCollectAlways == TRUE

MayCollect == mDiskHealthRunning = FALSE

startCollection(c) ==
    /\ MayCollect
    /\ collect[c].pc = "idle"
    /\ \A b \in 1..(c - 1) : collect[b].pc # "idle"
    /\ mDiskHealthRunning' = TRUE
    /\ collect' = [collect EXCEPT ![c] = [IdleCollection EXCEPT !.pc = "reading"]]
    /\ UNCHANGED <<smart, granted, settings, mDrives, unlocks, dialog, table,
                   dashboard, alertShown>>

onSlowTick(c) == polling /\ startCollection(c)

\* The Resources page's activation, which does not look at the timer; and start().
triggerDiskHealthCheck(c) == startCollection(c)

\* The timer stops when the window is hidden, and starts when it is shown; a change
\* of the power mode stops and starts it at once (DataRefresh).
slowTimer ==
    /\ polling' = ~polling
    /\ UNCHANGED <<smart, granted, alertsOn, mDrives, mDiskHealthRunning, collect,
                   unlocks, dialog, table, dashboard, alertShown>>

\* What an ordinary user's smartctl leaves in the entry of a drive: nothing if it is
\* not installed; needsElevation if it cannot open the drive, for want of the
\* capabilities or for another reason, with what it printed.
CollectedEntries(d) ==
    LET opened == granted /\ d \notin Unopened
    IN  IF HasSmartctl
        THEN {[locked |-> ~opened, data |-> data] : data \in Printed(d, opened)}
        ELSE {Blank}

\* collectDriveHealth() forks a smartctl per drive, into its local list.
collectDrive(c) ==
    /\ collect[c].pc = "reading"
    /\ collect[c].next <= Len(Listing)
    /\ LET d == Listing[collect[c].next]
       IN  \E entry \in CollectedEntries(d) :
             collect' = [collect EXCEPT
               ![c] = [pc |-> "reading", next |-> collect[c].next + 1,
                       list |-> [collect[c].list EXCEPT ![d] = entry]]]
    /\ UNCHANGED <<smart, granted, settings, mDrives, mDiskHealthRunning, unlocks,
                   dialog, table, dashboard, alertShown>>

\* Seeded fault: the loop breaks after the first drive, bad or not.
AnyBadFirstOnly(list) == Verdict(list[Listing[1]]) = "Critical"

AnyBad(list) == \E d \in Drives : Verdict(list[d]) = "Critical"

\* Seeded fault: the completion does not clear the flag.
RunningAfterPublishStuck == TRUE

RunningAfterPublish == FALSE

\* The queued completion: setDrives(), then diskHealthUpdated(), which the
\* Dashboard keeps; its alert, unless switched off, is up while any drive of the
\* list is bad.
publish(c) ==
    /\ collect[c].pc = "reading"
    /\ collect[c].next > Len(Listing)
    /\ mDrives' = collect[c].list
    /\ mDiskHealthRunning' = RunningAfterPublish
    /\ dashboard' = collect[c].list
    /\ alertShown' = IF alertsOn THEN AnyBad(collect[c].list) ELSE alertShown
    /\ collect' = [collect EXCEPT ![c] = IdleCollection]
    /\ UNCHANGED <<smart, granted, settings, unlocks, dialog, table>>

\* The check box on the Settings page.
setDiskHealthAlertEnabled ==
    /\ alertsOn' = ~alertsOn
    /\ UNCHANGED <<smart, granted, polling, mDrives, mDiskHealthRunning, collect,
                   unlocks, dialog, table, dashboard, alertShown>>

--------------------------------------------------------------------------------
(* The Hardware page. *)

\* The first showEvent() fills the page, later ones do not.  An empty cache
\* hides the section.
populateStorage ==
    /\ table = NotShown
    /\ table' = mDrives
    /\ UNCHANGED <<smart, granted, settings, mDrives, mDiskHealthRunning, collect,
                   unlocks, dialog, dashboard, alertShown>>

Unlock(pc, devices, batch, setcap) ==
    [pc |-> pc, devices |-> devices, batch |-> batch, setcap |-> setcap,
     safeDevices |-> <<>>, blocks |-> <<>>]

\* Clicks reach a section that is not hidden, unless the dialog is open.
MayClick ==
    table \in Lists /\ dialog = {} /\ Len(unlocks) < MaxUnlocks

\* The Unlock button in the row of a drive shown as locked.
onUnlockSmartDrive(d) ==
    /\ MayClick
    /\ table[d].locked
    /\ unlocks' = Append(unlocks, Unlock("prompt", {d}, FALSE, FALSE))
    /\ UNCHANGED <<smart, granted, settings, mDrives, mDiskHealthRunning, collect,
                   dialog, table, dashboard, alertShown>>

LockedDevices == {d \in Drives : mDrives[d].locked}

\* Unlock All Drives: asks about the devices that the cache has as locked now.
onUnlockAllDrives ==
    /\ MayClick
    /\ \E d \in Drives : table[d].locked
    /\ dialog' = LockedDevices
    /\ UNCHANGED <<smart, granted, settings, mDrives, mDiskHealthRunning, collect,
                   unlocks, table, dashboard, alertShown>>

\* The dialog is a nested event loop: collections are published meanwhile.
dialogAccepted(makePermanent) ==
    /\ dialog # {}
    /\ unlocks' = Append(unlocks, Unlock("prompt", dialog, TRUE, makePermanent))
    /\ dialog' = {}
    /\ UNCHANGED <<smart, granted, settings, mDrives, mDiskHealthRunning, collect,
                   table, dashboard, alertShown>>

dialogRejected ==
    /\ dialog # {}
    /\ dialog' = {}
    /\ UNCHANGED <<smart, granted, settings, mDrives, mDiskHealthRunning, collect,
                   unlocks, table, dashboard, alertShown>>

--------------------------------------------------------------------------------
(* An unlock worker. *)

\* Devices in the order in which the cache lists them.
Place(d) == CHOOSE i \in 1..Len(Listing) : Listing[i] = d
InOrder(devices) ==
    {s \in [1..Cardinality(devices) -> devices] :
        \A i, j \in DOMAIN s : i < j => Place(s[i]) < Place(s[j])}

\* The devices the root shell reads; a single unlock needs no shell.
SafeAmong(u) ==
    IF unlocks[u].batch THEN unlocks[u].devices \ Unsafe ELSE unlocks[u].devices

\* What setcap leaves: it may fail, and is not run without a safe device.
GrantedAfter(u) ==
    IF unlocks[u].setcap /\ SafeAmong(u) # {} THEN {granted, TRUE} ELSE {granted}

\* What root's smartctl prints of the first k of some devices.
BlocksOf(devices, k) ==
    {blocks \in [1..k -> Data] :
        \A i \in 1..k : blocks[i] \in Printed(devices[i], devices[i] \notin Unopened)}

\* pkexec returns: with a JSON block per device, in their order; with fewer if
\* it was killed at its time-out; with none if the user declined.
pkexecReturns(u) ==
    /\ unlocks[u].pc = "prompt"
    /\ \E safe \in InOrder(SafeAmong(u)), k \in 0..Cardinality(SafeAmong(u)) :
       \E blocks \in BlocksOf(safe, k) :
         unlocks' = [unlocks EXCEPT
           ![u].pc = IF k = 0 THEN "finished" ELSE "merging",
           ![u].safeDevices = safe,
           ![u].blocks = blocks]
    /\ granted' \in GrantedAfter(u)
    /\ UNCHANGED <<smart, settings, mDrives, mDiskHealthRunning, collect, dialog,
                   table, dashboard, alertShown>>

\* Seeded fault: blocks are matched with the list before the unsafe names went.
MergeTargetsUnfiltered(u) == CHOOSE s \in InOrder(unlocks[u].devices) : TRUE

MergeTargets(u) == unlocks[u].safeDevices

\* parseSmartctlJsonInto() overwrites what the block has.
MergedEntry(entry, data) ==
    [locked |-> FALSE, data |-> IF data = NoData THEN entry.data ELSE data]

BlocksFor(u, d) ==
    {i \in DOMAIN unlocks[u].blocks : MergeTargets(u)[i] = d}

\* Under the mutex: block i goes to the entry with the path of device i.
mergeUnlocked(u) ==
    /\ unlocks[u].pc = "merging"
    /\ mDrives' = [d \in Drives |->
         IF BlocksFor(u, d) = {} THEN mDrives[d]
         ELSE MergedEntry(mDrives[d],
                          unlocks[u].blocks[CHOOSE i \in BlocksFor(u, d) : TRUE])]
    /\ unlocks' = [unlocks EXCEPT ![u].pc = "finished"]
    /\ UNCHANGED <<smart, granted, settings, mDiskHealthRunning, collect, dialog,
                   table, dashboard, alertShown>>

\* The worker is gone, with what it knew.
Ended == Unlock("seen", {}, FALSE, FALSE)

\* The watcher's finished signal: repopulateStorage(), for a single drive only
\* if the cache has it as unlocked by now.
unlockFinished(u) ==
    /\ unlocks[u].pc = "finished"
    /\ unlocks' = [unlocks EXCEPT ![u] = Ended]
    /\ table' = IF unlocks[u].batch \/ \E d \in unlocks[u].devices : ~mDrives[d].locked
                THEN mDrives ELSE table
    /\ UNCHANGED <<smart, granted, settings, mDrives, mDiskHealthRunning, collect,
                   dialog, dashboard, alertShown>>

--------------------------------------------------------------------------------

Init ==
    /\ smart = [d \in Drives |-> 0]
    /\ granted \in BOOLEAN
    /\ polling = TRUE /\ alertsOn \in BOOLEAN
    /\ mDrives = NoList
    /\ mDiskHealthRunning = FALSE
    /\ collect = [c \in Collectors |-> IdleCollection]
    /\ unlocks = <<>>
    /\ dialog = {}
    /\ table = NotShown
    /\ dashboard = NoList
    /\ alertShown = FALSE

CollectStep(c) ==
    onSlowTick(c) \/ triggerDiskHealthCheck(c) \/ collectDrive(c) \/ publish(c)

UserStep ==
    \/ populateStorage
    \/ \E d \in Drives : onUnlockSmartDrive(d)
    \/ onUnlockAllDrives
    \/ \E makePermanent \in BOOLEAN : dialogAccepted(makePermanent)
    \/ dialogRejected
    \/ slowTimer
    \/ setDiskHealthAlertEnabled

UnlockStep(u) == pkexecReturns(u) \/ mergeUnlocked(u) \/ unlockFinished(u)

Next ==
    \/ \E d \in Drives : wear(d)
    \/ \E c \in Collectors : CollectStep(c)
    \/ UserStep
    \/ \E u \in DOMAIN unlocks : UnlockStep(u)

Spec == Init /\ [][Next]_vars

\* The slow timer fires while it is left active; smartctl has a time-out, and
\* completions are delivered.  Nothing is asked of the user, of the window or of
\* pkexec.
FairSpec ==
    /\ Spec
    /\ \A c \in Collectors :
          WF_vars(onSlowTick(c)) /\ WF_vars(collectDrive(c)) /\ WF_vars(publish(c))

--------------------------------------------------------------------------------
(* Properties. *)

Collection == [pc : {"idle", "reading"}, next : 1..(Len(Listing) + 1),
               list : Lists]
UnlockWorker ==
    [pc : {"prompt", "merging", "finished", "seen"}, devices : SUBSET Drives,
     batch : BOOLEAN, setcap : BOOLEAN, safeDevices : Seq(Drives),
     blocks : Seq(Data)]

\* Every variable keeps its type.
TypeOK ==
    /\ smart \in [Drives -> 0..MaxWear]
    /\ granted \in BOOLEAN /\ polling \in BOOLEAN /\ alertsOn \in BOOLEAN
    /\ {mDrives, dashboard} \subseteq Lists \union {NoList}
    /\ table \in Lists \union {NoList, NotShown}
    /\ mDiskHealthRunning \in BOOLEAN
    /\ collect \in [Collectors -> Collection]
    /\ unlocks \in Seq(UnlockWorker)
    /\ dialog \subseteq Drives
    /\ alertShown \in BOOLEAN

\* Nobody is ever shown one drive's health as that of another, whichever devices
\* the shell refused and however much of its output came.
OwnData(list) ==
    list \in Lists =>
        \A d \in Drives : list[d].data # NoData => list[d].data.of = d
DataIsItsOwn == OwnData(mDrives) /\ OwnData(table) /\ OwnData(dashboard)

\* A list published later never has older data of a drive: the Dashboard and
\* its alert do not go back in time.
Older(old, new) ==
    old.data # NoData /\ new.data # NoData /\ new.data.version < old.data.version
ListGoesBack ==
    \E d \in Drives :
        dashboard # NoList /\ dashboard' # NoList /\ Older(dashboard[d], dashboard'[d])
DashboardNeverGoesBack == [][~ListGoesBack]_vars

\* Once the slow timer is left alone, permanent access is not taken back for good by
\* a collection that was under way when it was granted: sooner or later no drive is
\* locked, for ever, but those that cannot be opened at all.
GrantSticks ==
    <>[]polling =>
        granted ~> [](mDrives # NoList /\ \A d \in Drives \ Unopened : ~mDrives[d].locked)

\* With the timer and the alert left on, a drive that turns critical and can be read
\* raises the alert.
BadDriveAlerted ==
    <>[](polling /\ alertsOn) =>
        \A d \in Drives \ (NoSmart \union Unopened) :
            HasSmartctl /\ granted /\ smart[d] = MaxWear ~> alertShown

\* Documented: the Storage section has the drives.  A visit before the first
\* collection is over hides it for the rest of the session.
StorageAppears == table = NoList ~> table \in Lists

\* Documented: a verdict is not made up without data.
VerdictHasData ==
    mDrives # NoList =>
        \A d \in Drives : mDrives[d].data = NoData => Verdict(mDrives[d]) = "Unknown"

\* Documented: an unlock completes, however slow the password: what was read as
\* root is in the table when the worker's end has been handled.
UnlockShown(u) ==
    unlocks[u].pc = "finished" /\ unlocks'[u].pc = "seen" =>
        \A i \in 1..Len(unlocks[u].blocks) : ~table'[MergeTargets(u)[i]].locked
UnlockCompletes == [][\A u \in DOMAIN unlocks : UnlockShown(u)]_vars
================================================================================
