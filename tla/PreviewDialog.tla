----------------------------- MODULE PreviewDialog -----------------------------
(***************************************************************************)
(* "Clean selected" of the System Cleaner page: the dialog that previews   *)
(* the items (TrustSafetyPreviewDialog), the runner that scans for them    *)
(* and executes the checked ones off the GUI thread (TrustSafetyRunner),   *)
(* and the provider that removes them (SystemCleanerProvider).  The worker *)
(* speaks to the dialog through posted signals, and the dialog to the      *)
(* worker through two cancel flags.                                        *)
(***************************************************************************)
EXTENDS Naturals, Sequences, SequencesExt

CONSTANTS
    Files, Dirs,        \* items that are a file, a directory (app caches)
    Snaps,              \* stale snap revisions
    Directs,            \* trash roots and the unused Flatpak runtimes
    Risky,              \* items of the Risky tier
    Categories          \* a partition of the items

Items == Files \union Dirs \union Snaps \union Directs
Paths == Files \union Dirs

ASSUME ItemsAssumption ==
    /\ IsFiniteSet(Items)
    /\ Directs \intersect (Paths \union Snaps) = {}
    /\ Risky \subseteq Items
    /\ UNION Categories = Items
    /\ \A c, d \in Categories : c # d => c \intersect d = {}
    /\ \A c \in Categories : c \subseteq Risky \/ c \intersect Risky = {}

VARIABLES
    page,               \* "page", "dialog", or "closing" (~TrustSafetyRunner waits)
    mHasScanned, retained,      \* the page's scan, and what it found (mRetained*)
    rows, checked,      \* the preview's rows, and the checked ones
    confirmed,          \* mRiskyConfirmedCategoryIds
    dryRun,             \* the dry-run check box
    treeOn, primaryOn, stopOn,  \* what is enabled
    box,                \* the message box open over the dialog
    scan, scanStop,     \* the scanning worker, and mScanCancelled
    exec, execStop,     \* the executing worker, and mExecCancelled
    events,             \* signals posted to the dialog
    lastRun,            \* of mLastSummary: was there a run, a dry one
    disk,               \* external: what is left of each item
    diskBefore,         \* history: the same when the last run started
    slipped             \* history: categories selected in spite of the user's no

pageVars == <<page, mHasScanned, retained>>
treeVars == <<rows, checked, confirmed, dryRun, slipped>>
controlVars == <<treeOn, primaryOn, stopOn>>
scanVars == <<scan, scanStop>>
execVars == <<exec, execStop>>
vars == <<pageVars, treeVars, controlVars, box, scanVars, execVars, events, lastRun, disk, diskBefore>>

NoBox == [kind |-> "none"]
Boxes == {NoBox}
    \union [kind : {"risky"}, item : Items, rest : SUBSET Items]
    \union [kind : {"confirm"}, items : SUBSET Items]

\* phase "sent": the last signal is posted and the future is still running.
NoScan == [phase |-> "idle", todo |-> <<>>]
NoExec == [phase |-> "idle", dry |-> FALSE, items |-> <<>>, todo |-> <<>>, results |-> <<>>]

Scans == [phase : {"idle", "running", "sent"}, todo : Seq(Items)]
Result == [item : Items, succeeded : BOOLEAN]
Execs == [phase : {"idle", "begin", "batch", "next", "perform", "sent"}, dry : BOOLEAN,
          items : Seq(Items), todo : Seq(Items), results : Seq(Result)]
Disks == [Items -> {"whole", "emptied", "gone"}]
Summaries == [items : SUBSET Items, dry : BOOLEAN, cancelled : BOOLEAN, results : Seq(Result)]
Events ==
    [name : {"found"}, item : Items]
    \union [name : {"scanFinished", "scanCancelled"}]
    \union [name : {"executionFinished"}, summary : Summaries]

scanning == scan.phase # "idle"         \* isScanning(): mScanFuture.isRunning()
executing == exec.phase # "idle"        \* isExecuting()
dialogFree == page = "dialog" /\ box = NoBox

CategoryOf(i) == CHOOSE c \in Categories : i \in c
InOrder(S) == SetToSeq(S)

TypeOK ==
    /\ page \in {"page", "dialog", "closing"}
    /\ mHasScanned \in BOOLEAN /\ retained \subseteq Paths
    /\ rows \subseteq Items /\ checked \subseteq rows
    /\ confirmed \subseteq Categories /\ slipped \subseteq Categories /\ dryRun \in BOOLEAN
    /\ treeOn \in BOOLEAN /\ primaryOn \in BOOLEAN /\ stopOn \in BOOLEAN
    /\ box \in Boxes
    /\ scan \in Scans /\ scanStop \in BOOLEAN
    /\ exec \in Execs /\ execStop \in BOOLEAN
    /\ events \in Seq(Events)
    /\ lastRun \in {"none", "dry", "real"}
    /\ disk \in Disks /\ diskBefore \in Disks

\* No dialog yet; a new one starts with the same values.
Init ==
    /\ page = "page" /\ mHasScanned = TRUE /\ retained = Paths
    /\ rows = {} /\ checked = {} /\ confirmed = {} /\ dryRun = FALSE /\ slipped = {}
    /\ treeOn = FALSE /\ primaryOn = FALSE /\ stopOn = FALSE
    /\ box = NoBox
    /\ scan = NoScan /\ scanStop = FALSE
    /\ exec = NoExec /\ execStop = FALSE
    /\ events = <<>> /\ lastRun = "none"
    /\ disk = [i \in Items |-> "whole"] /\ diskBefore = disk

--------------------------------------------------------------------------------
(* The page around the dialog. *)

\* Trash roots and snap revisions are looked up when the dialog opens.
Offered == retained \union Directs \union {i \in Snaps : disk[i] # "gone"}

\* quickCleanByCategory() up to dlg.exec(), and the dialog's constructor.
openDialog ==
    /\ page = "page" /\ mHasScanned
    /\ page' = "dialog"
    /\ treeOn' = TRUE /\ stopOn' = TRUE
    /\ scan' = [phase |-> "running", todo |-> InOrder(Offered)]
    /\ UNCHANGED <<mHasScanned, retained, treeVars, primaryOn, box, scanStop>>
    /\ UNCHANGED <<execVars, events, lastRun, disk, diskBefore>>

\* dlg.exec() has returned after a last run r: what the page makes of it, and the
\* destructor of the runner, which tells its workers to stop.
leaveDialog(r) ==
    /\ page' = "closing"
    /\ IF r = "real"
         THEN mHasScanned' = FALSE /\ retained' = {}
         ELSE UNCHANGED <<mHasScanned, retained>>
    /\ scanStop' = (scanStop \/ scanning)
    /\ execStop' = (execStop \/ executing)

\* (Seeded fault: the destructor waits for the scan only.)
workersDoneEarly == ~scanning
workersDone == ~scanning /\ ~executing

workersEnded ==
    /\ page = "closing" /\ workersDone
    /\ page' = "page"
    /\ rows' = {} /\ checked' = {} /\ confirmed' = {} /\ dryRun' = FALSE /\ slipped' = {}
    /\ treeOn' = FALSE /\ primaryOn' = FALSE /\ stopOn' = FALSE
    /\ scanStop' = FALSE /\ execStop' = FALSE
    /\ events' = <<>> /\ lastRun' = "none"
    /\ diskBefore' = disk
    /\ UNCHANGED <<mHasScanned, retained, box, scan, exec, disk>>

\* A new scan of the page, in one step.
systemScan ==
    /\ page = "page"
    /\ mHasScanned' = TRUE
    /\ retained' = {i \in Paths : disk[i] # "gone"}
    /\ UNCHANGED <<page, treeVars, controlVars, box, scanVars, execVars, events, lastRun, disk, diskBefore>>

--------------------------------------------------------------------------------
(* The dialog: what its controls follow, and what the user does. *)

\* (Seeded fault: the tree stays on.)
updateControlsTreeLeft(isScanning, isExecuting, c) ==
    /\ treeOn' = TRUE /\ stopOn' = TRUE
    /\ primaryOn' = (~isScanning /\ ~isExecuting /\ c # {})

\* updateControlsForState(), with c the rows that are checked.
updateControls(isScanning, isExecuting, c) ==
    /\ treeOn' = ~isExecuting
    /\ stopOn' = TRUE
    /\ primaryOn' = (~isScanning /\ ~isExecuting /\ c # {})

updatePrimaryActionEnabled(c) ==
    /\ primaryOn' = (~scanning /\ ~executing /\ c # {})
    /\ UNCHANGED <<treeOn, stopOn>>

\* A click in the tree, which is off during an execution.  (Select All clicks
\* on every category in turn.)
click == dialogFree /\ treeOn
clickUnchanged ==
    UNCHANGED <<pageVars, dryRun, scanVars, execVars, events, lastRun, disk, diskBefore>>

RowsOf(c) == rows \intersect c

\* The handler's turn for a category row: a category that is checked in part gets
\* all of its rows checked.  Qt tells the handler of the category whenever one of
\* its rows is clicked (ItemIsAutoTristate), and when its label changes, with the
\* number of its rows.
Whole(c, shown, chosen) ==
    chosen \union (IF c \intersect chosen = {} THEN {} ELSE shown \intersect c)

needsConfirmation(i) == i \in Risky /\ CategoryOf(i) \notin confirmed

\* A row is checked before the question is asked; rest are rows still to be checked.
ask(i, chosen, rest) ==
    /\ checked' = chosen \union {i}
    /\ box' = [kind |-> "risky", item |-> i, rest |-> rest]
    /\ UNCHANGED controlVars

select(chosen) == checked' = chosen /\ updatePrimaryActionEnabled(chosen)

\* onItemCheckChanged(), for the row that is clicked and then for its category.
check(i, rest) ==
    /\ click /\ i \in rows \ checked
    /\ IF needsConfirmation(i)
         THEN ask(i, checked, rest)
         ELSE select(Whole(CategoryOf(i), rows, checked \union {i})) /\ UNCHANGED box
    /\ clickUnchanged /\ UNCHANGED <<rows, confirmed, slipped>>

checkItem(i) == check(i, {})

\* Qt checks the rows of the category one by one.
checkCategory(c) == \E i \in RowsOf(c) \ checked : check(i, RowsOf(c) \ (checked \union {i}))

\* The category checks the row again, unless it is its last one.
uncheckItem(i) ==
    /\ click /\ i \in checked
    /\ select(Whole(CategoryOf(i), rows, checked \ {i}))
    /\ clickUnchanged /\ UNCHANGED <<rows, confirmed, slipped, box>>

uncheckCategory(c) ==
    /\ click /\ c \intersect checked # {}
    /\ select(checked \ c)
    /\ clickUnchanged /\ UNCHANGED <<rows, confirmed, slipped, box>>

toggleDryRun ==
    /\ click
    /\ dryRun' = ~dryRun
    /\ UNCHANGED <<pageVars, rows, checked, confirmed, slipped, controlVars, box, scanVars, execVars>>
    /\ UNCHANGED <<events, lastRun, disk, diskBefore>>

\* An answer comes many turns of the box's event loop later: no signal is left.
answered == page = "dialog" /\ events = <<>>

\* confirmRiskyCategory(), and the end of onItemCheckChanged().  After a no the row
\* is unchecked, and the next one of the category asks again; at the end the
\* category takes all its rows from one that a new row of it left checked.
answerRisky ==
    /\ answered /\ box.kind = "risky"
    /\ LET i == box.item
           c == CategoryOf(i)
           unchecked == checked \ {i}
           next == box.rest \ checked
       IN  \/ /\ confirmed' = confirmed \union {c}
              /\ select(Whole(c, rows, checked))
              /\ box' = NoBox /\ UNCHANGED slipped
           \/ /\ \E j \in next : ask(j, unchecked, next \ {j})
              /\ UNCHANGED <<confirmed, slipped>>
           \/ /\ next = {}
              /\ select(Whole(c, rows, unchecked))
              /\ slipped' = slipped \union (IF c \intersect unchecked = {} THEN {} ELSE {c})
              /\ box' = NoBox /\ UNCHANGED confirmed
    /\ clickUnchanged /\ UNCHANGED rows

\* TrustSafetyRunner::startExecution() and updateControlsForState().
startExecution(S, dry) ==
    /\ exec' = [NoExec EXCEPT !.phase = "begin", !.dry = dry, !.items = InOrder(S)]
    /\ execStop' = FALSE /\ diskBefore' = disk
    /\ updateControls(scanning, TRUE, checked)

\* onPrimaryActionClicked(): a dry run starts at once.
clickPrimary ==
    /\ dialogFree /\ primaryOn /\ checked # {}
    /\ IF dryRun
         THEN startExecution(checked, TRUE) /\ UNCHANGED box
         ELSE /\ box' = [kind |-> "confirm", items |-> checked]
              /\ UNCHANGED <<controlVars, execVars, diskBefore>>
    /\ UNCHANGED <<pageVars, treeVars, scanVars, events, lastRun, disk>>

answerConfirm ==
    /\ answered /\ box.kind = "confirm"
    /\ box' = NoBox
    /\ \/ startExecution(box.items, FALSE)
       \/ UNCHANGED <<controlVars, execVars, diskBefore>>
    /\ UNCHANGED <<pageVars, treeVars, scanVars, events, lastRun, disk>>

\* onCancelClicked(), on the button that reads Stop or Close.
clickStop ==
    /\ dialogFree /\ stopOn
    /\ IF executing \/ scanning
         THEN /\ IF executing THEN execStop' = TRUE /\ UNCHANGED scanStop
                 ELSE scanStop' = TRUE /\ UNCHANGED execStop
              /\ stopOn' = FALSE
              /\ UNCHANGED pageVars
         ELSE leaveDialog(lastRun) /\ UNCHANGED stopOn
    /\ UNCHANGED <<treeVars, treeOn, primaryOn, box, scan, exec, events, lastRun, disk, diskBefore>>

\* Escape, or the window's close button: QDialog::reject().
dismiss ==
    /\ dialogFree
    /\ leaveDialog(lastRun)
    /\ UNCHANGED <<treeVars, controlVars, box, scan, exec, events, lastRun, disk, diskBefore>>

--------------------------------------------------------------------------------
(* The signals of the runner, delivered by the dialog's event loop or a box's. *)

deliver(name) ==
    /\ page = "dialog" /\ events # <<>> /\ Head(events).name = name
    /\ events' = Tail(events)
    /\ UNCHANGED <<confirmed, dryRun, slipped, box, scan, exec, disk, diskBefore>>

\* The row, and the new label of its category.
onItemDiscovered ==
    /\ deliver("found")
    /\ rows' = rows \union {Head(events).item}
    /\ select(Whole(CategoryOf(Head(events).item), rows', checked))
    /\ UNCHANGED <<pageVars, scanStop, execStop, lastRun>>

onScanEnded ==
    /\ deliver("scanFinished") \/ deliver("scanCancelled")
    /\ updateControls(scanning, executing, checked)
    /\ UNCHANGED <<pageVars, rows, checked, scanStop, execStop, lastRun>>

accepted(s) == ~s.dry

Succeeded(s) == {r.item : r \in {x \in ToSet(s.results) : x.succeeded}}

onExecutionFinished ==
    /\ deliver("executionFinished")
    /\ LET s == Head(events).summary
           done == IF s.dry THEN {} ELSE Succeeded(s)
       IN  /\ lastRun' = IF s.dry THEN "dry" ELSE "real"
           /\ rows' = rows \ done /\ checked' = checked \ done
           /\ updateControls(scanning, executing, checked')
           /\ IF accepted(s) THEN leaveDialog("real") ELSE UNCHANGED <<pageVars, scanStop, execStop>>

--------------------------------------------------------------------------------
(* The scanning worker: scanSynchronous() over SystemCleanerProvider::scan(). *)

scanUnchanged ==
    UNCHANGED <<pageVars, treeVars, controlVars, box, execVars, lastRun, disk, diskBefore>>

itemFound ==
    /\ scan.phase = "running" /\ scan.todo # <<>> /\ ~scanStop
    /\ events' = Append(events, [name |-> "found", item |-> Head(scan.todo)])
    /\ scan' = [scan EXCEPT !.todo = Tail(scan.todo)]
    /\ UNCHANGED scanStop /\ scanUnchanged

scanEnds ==
    /\ scan.phase = "running" /\ (scan.todo = <<>> \/ scanStop)
    /\ events' = Append(events, [name |-> IF scanStop THEN "scanCancelled" ELSE "scanFinished"])
    /\ scan' = [NoScan EXCEPT !.phase = "sent"]
    /\ UNCHANGED scanStop /\ scanUnchanged

\* (A cancel flag is not read again before the next start has reset it.)
scanReturns ==
    /\ scan.phase = "sent"
    /\ scan' = NoScan /\ scanStop' = FALSE
    /\ UNCHANGED events /\ scanUnchanged

--------------------------------------------------------------------------------
(* The executing worker: executeSynchronous() over the provider. *)

execUnchanged ==
    UNCHANGED <<pageVars, treeVars, controlVars, box, scanVars, lastRun, diskBefore>>

selected(S) == InOrder(S \intersect ToSet(exec.items))

\* Every path goes through one cleanFiles(), which empties directories before it
\* removes the files.  (Seeded fault: trash and runtimes go through it too.)
BatchWithDirects == selected(Dirs \union Directs) \o selected(Files)
Batch == selected(Dirs) \o selected(Files)

\* beginExecution() does nothing in a dry run.  (Seeded fault: it does.)
batchedAlways == TRUE
batched == ~exec.dry

beginExecution ==
    /\ exec.phase = "begin"
    /\ exec' = IF batched THEN [exec EXCEPT !.phase = "batch", !.todo = Batch]
                          ELSE [exec EXCEPT !.phase = "next", !.todo = exec.items]
    /\ UNCHANGED <<execStop, events, disk>> /\ execUnchanged

\* The directory itself stays; exclusions and failures leave something in it.
Outcomes(i) == {disk[i], IF i \in Dirs \union Directs THEN "emptied" ELSE "gone"}

cleanFiles ==
    /\ exec.phase = "batch" /\ exec.todo # <<>>
    /\ \E left \in Outcomes(Head(exec.todo)) : disk' = [disk EXCEPT ![Head(exec.todo)] = left]
    /\ exec' = [exec EXCEPT !.todo = Tail(exec.todo)]
    /\ UNCHANGED <<execStop, events>> /\ execUnchanged

\* One elevated call for all the revisions, after the files.
removeStaleSnapRevisions ==
    /\ exec.phase = "batch" /\ exec.todo = <<>>
    /\ \E removed \in SUBSET ToSet(selected(Snaps)) :
          disk' = [i \in Items |-> IF i \in removed THEN "gone" ELSE disk[i]]
    /\ exec' = [exec EXCEPT !.phase = "next", !.todo = exec.items]
    /\ UNCHANGED <<execStop, events>> /\ execUnchanged

\* The loop's test of the cancel flag, between items.
nextItem ==
    /\ exec.phase = "next" /\ exec.todo # <<>> /\ ~execStop
    /\ exec' = [exec EXCEPT !.phase = "perform"]
    /\ UNCHANGED <<execStop, events, disk>> /\ execUnchanged

\* Paths and snaps were removed by beginExecution(): a path is looked up, a snap
\* is reported as removed.  Trash and Flatpak runtimes are removed here.
reported(i) == i \in Paths => disk[i] # "gone" <=> exec.dry

performItem ==
    /\ exec.phase = "perform"
    /\ LET i == Head(exec.todo)
       IN  /\ IF i \in Directs /\ ~exec.dry
                THEN \E left \in Outcomes(i) : disk' = [disk EXCEPT ![i] = left]
                ELSE UNCHANGED disk
           /\ exec' = [exec EXCEPT !.phase = "next", !.todo = Tail(exec.todo),
                          !.results = Append(exec.results, [item |-> i, succeeded |-> reported(i)])]
    /\ UNCHANGED <<execStop, events>> /\ execUnchanged

execEnds ==
    /\ exec.phase = "next" /\ (exec.todo = <<>> \/ execStop)
    /\ events' = Append(events,
          [name |-> "executionFinished",
           summary |-> [items |-> ToSet(exec.items), dry |-> exec.dry,
                        cancelled |-> exec.todo # <<>>, results |-> exec.results]])
    /\ exec' = [NoExec EXCEPT !.phase = "sent"]
    /\ UNCHANGED <<execStop, disk>> /\ execUnchanged

execReturns ==
    /\ exec.phase = "sent"
    /\ exec' = NoExec /\ execStop' = FALSE
    /\ UNCHANGED <<events, disk>> /\ execUnchanged

--------------------------------------------------------------------------------
Page == openDialog \/ workersEnded \/ systemScan
User ==
    \/ \E i \in Items : checkItem(i) \/ uncheckItem(i)
    \/ \E c \in Categories : checkCategory(c) \/ uncheckCategory(c)
    \/ toggleDryRun \/ clickPrimary \/ clickStop \/ dismiss
Answer == answerRisky \/ answerConfirm
Deliver == onItemDiscovered \/ onScanEnded \/ onExecutionFinished
ScanWorker == itemFound \/ scanEnds \/ scanReturns
ExecWorker ==
    \/ beginExecution \/ cleanFiles \/ removeStaleSnapRevisions
    \/ nextItem \/ performItem \/ execEnds \/ execReturns

Next == Page \/ User \/ Answer \/ Deliver \/ ScanWorker \/ ExecWorker

Spec == Init /\ [][Next]_vars

\* Event loops and workers do not stop; people may.
FairSpec ==
    Spec /\ WF_vars(Deliver) /\ WF_vars(ScanWorker) /\ WF_vars(ExecWorker) /\ WF_vars(workersEnded)

--------------------------------------------------------------------------------
(* Properties. *)

\* What a step does to the disk it does in a real run, to an item that was
\* selected when the user confirmed; and if the item is risky, in a category the
\* user confirmed too, or in one that was selected in spite of a no.
OnlyConfirmedIsDeleted ==
    [][\A i \in Items : disk'[i] # disk[i] =>
          /\ ~exec.dry /\ i \in ToSet(exec.items)
          /\ i \in Risky /\ page = "dialog" => CategoryOf(i) \in confirmed \union slipped]_vars

\* Not true of the code: "risky categories get an explicit extra confirmation step
\* before their items can be checked".  A row that comes in while the question
\* is open checks all rows of its category, and the no that follows unchecks one
\* of them, for a moment.
RiskyIsConfirmed ==
    [][\A i \in Risky : disk'[i] # disk[i] /\ page = "dialog" => CategoryOf(i) \in confirmed]_vars

\* Not true of the code: a "per-item" selection.  A click on an item is also one
\* on its category, which takes all of its items.
ItemsAreSelectedOneByOne ==
    [][\A i \in Items : checkItem(i) \/ uncheckItem(i) => checked' \ {i} = checked \ {i}]_vars

\* What a run works on stays selected while it does, with the controls off, though
\* signals of the scan may still arrive, switch the controls and check new rows.
SelectionHeldWhileExecuting ==
    exec.phase \notin {"idle", "sent"} /\ page = "dialog"
       => ~treeOn /\ ~primaryOn /\ ToSet(exec.items) \subseteq checked

\* A path reported as removed is not there, and one reported as failed is:
\* no path is dropped from the preview, or kept in it, by mistake.
PathResultsAreTrue ==
    \A n \in DOMAIN events :
       events[n].name = "executionFinished" /\ ~events[n].summary.dry =>
          \A r \in ToSet(events[n].summary.results) :
             r.item \in Paths => (r.succeeded <=> disk[r.item] = "gone")

\* Not true of the code: "items that were actually removed no longer exist - drop
\* them from the preview".  Trash, snap revisions and Flatpak runtimes are
\* reported as removed whatever became of them.
SucceededIsRemoved ==
    \A n \in DOMAIN events :
       events[n].name = "executionFinished" /\ ~events[n].summary.dry =>
          \A r \in ToSet(events[n].summary.results) : r.succeeded => disk[r.item] # "whole"

\* What a stopped run has not reported, the run has not touched.
StoppedRestIsUntouched(S) ==
    \A n \in DOMAIN events :
       /\ page = "dialog"
       /\ events[n].name = "executionFinished" /\ events[n].summary.cancelled
       =>
          \A i \in S \intersect events[n].summary.items :
             \/ \E r \in ToSet(events[n].summary.results) : r.item = i
             \/ disk[i] = diskBefore[i]

\* Stop keeps what is removed item by item, trash and Flatpak runtimes.
StopKeepsItems == StoppedRestIsUntouched(Directs)

\* What can be believed of a summary: what it says of a path, and its silence on
\* trash and Flatpak runtimes.  (Not what it says of those and of snap revisions,
\* see SucceededIsRemoved, nor its silence on the rest, see StopHalts.)
PathsReportedDirectsKept == PathResultsAreTrue /\ StopKeepsItems

\* Not true of the code: Stop "must actually halt the in-flight operation, not
\* just dismiss the dialog".  beginExecution() removes every path and every snap
\* without a look at the flag, and the summary then says nothing was reached.
StopHalts == StoppedRestIsUntouched(Items)

\* Not true of the code: an item of which nothing is left is reported so.  A
\* directory is emptied and stays, and is reported as "Failed to remove".
CleanedIsReported ==
    \A n \in DOMAIN events :
       events[n].name = "executionFinished" /\ ~events[n].summary.dry =>
          \A r \in ToSet(events[n].summary.results) :
             r.item \in Paths /\ disk[r.item] # "whole" => r.succeeded

\* Not true of the code: with no worker, no signal and no question left, the
\* tree and the Stop button are on: "the primary action ... re-enables the moment
\* onScanFinished() fires".  The last signal of a worker may be delivered while
\* its future still runs, and nothing looks again.
ControlsFollowWork ==
    dialogFree /\ ~scanning /\ ~executing /\ events = <<>>
       => treeOn /\ stopOn /\ (primaryOn \/ checked = {})

\* Not true of the code: what a real run removed, the page does not list any
\* more.  Escape ends the dialog before the summary is there.
PageForgetsTheCleaned == page = "page" => \A i \in retained : disk[i] # "gone"

\* The provider is a local variable of the page: no worker is left to call it
\* once the page goes on.
NoWorkerOutlivesDialog == page = "page" => ~scanning /\ ~executing

================================================================================
