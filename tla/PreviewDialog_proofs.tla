-------------------------- MODULE PreviewDialog_proofs --------------------------
(***************************************************************************)
(* Proofs about PreviewDialog, for any items and categories: nothing is    *)
(* removed that was not selected when the user confirmed, and nothing risky *)
(* without the question about its category, in whatever order workers,     *)
(* their posted signals, questions and clicks come.                        *)
(***************************************************************************)
EXTENDS PreviewDialog, FiniteSetTheorems, TLAPS

active == exec.phase \notin {"idle", "sent"}

\* Every risky item of S is in a category that was confirmed, or that was selected
\* in spite of a no.
AllConfirmed(S) == \A i \in S \intersect Risky : CategoryOf(i) \in confirmed \union slipped

RealIn(queue) ==
    \E n \in DOMAIN queue :
        queue[n].name = "executionFinished" /\ queue[n].summary.dry = FALSE

\* Without a dialog nothing is checked or confirmed, and no question is open.
ClosedIsBlank ==
    /\ page = "page" => /\ scan.phase = "idle" /\ exec.phase = "idle"
                        /\ checked = {} /\ confirmed = {} /\ events = <<>>
                        /\ treeOn = FALSE /\ primaryOn = FALSE
    /\ page # "dialog" => box = NoBox

\* A risky row that is checked is confirmed, or its category is being asked about.
CheckedIsConfirmed ==
    \A i \in checked \intersect Risky :
        \/ CategoryOf(i) \in confirmed \union slipped
        \/ box.kind = "risky" /\ CategoryOf(box.item) = CategoryOf(i)

\* A question is about one category.
AskedIsOneCategory ==
    box.kind = "risky" =>
        box.item \in Items /\ box.rest \subseteq rows \intersect CategoryOf(box.item)

\* A run can only be started while no worker is at work.
StartsIdle ==
    page = "dialog" /\ (primaryOn = TRUE \/ box.kind = "confirm")
        => exec.phase = "idle" /\ scan.phase = "idle"

\* The question before a real run is about what is checked, but for new rows.
AskedIsChecked == box.kind = "confirm" => box.items \subseteq checked

\* The run works on what was checked and confirmed, with all controls off.
RunIsHeld ==
    page = "dialog" /\ active =>
        /\ treeOn = FALSE /\ primaryOn = FALSE /\ box = NoBox
        /\ ToSet(exec.items) \subseteq checked /\ AllConfirmed(ToSet(exec.items))

\* What is left to do is of the run; only a real run has a batch.
TodoIsOfRun ==
    /\ active => ToSet(exec.todo) \subseteq ToSet(exec.items)
    /\ exec.phase = "batch" => exec.dry = FALSE
    /\ exec.phase = "perform" => exec.todo # <<>>

\* Between the start of a real run and the delivery of its end nothing else
\* happens in the dialog.
RealIsAlone ==
    page = "dialog" =>
        /\ active /\ exec.dry = FALSE => events = <<>> /\ scan.phase = "idle"
        /\ RealIn(events) =>
             /\ Len(events) = 1 /\ ~active /\ scan.phase = "idle"
             /\ treeOn = FALSE /\ primaryOn = FALSE /\ box = NoBox

IInv == /\ TypeOK /\ ClosedIsBlank /\ CheckedIsConfirmed /\ AskedIsOneCategory
        /\ StartsIdle /\ AskedIsChecked /\ RunIsHeld /\ TodoIsOfRun /\ RealIsAlone

--------------------------------------------------------------------------------
(* Sets, sequences and categories. *)

\* Some sequence has the items of a set, all of them and no others.
LEMMA InOrderFacts ==
  ASSUME NEW S \in SUBSET Items
  PROVE  InOrder(S) \in Seq(Items) /\ ToSet(InOrder(S)) = S
<1>1. IsFiniteSet(S)
  BY ItemsAssumption, FS_Subset
<1> DEFINE n == Cardinality(S)
<1>2. n \in Nat /\ ExistsBijection(1..n, S)
  BY <1>1, FS_CardinalityType
<1>3. PICK g \in Bijection(1..n, S) : TRUE
  BY <1>2 DEF ExistsBijection
<1>4. g \in [1..n -> S] /\ IsInjective(g)
  BY <1>3 DEF Bijection, Injection, IsInjective
<1>5. InOrder(S) \in [1..n -> S] /\ IsInjective(InOrder(S))
  BY <1>4 DEF InOrder, SetToSeq
<1>6. InOrder(S) \in Injection(1..n, S)
  BY <1>5 DEF Injection
<1>7. InOrder(S) \in Surjection(1..n, S)
  <2>1. IsFiniteSet(1..n) /\ Cardinality(1..n) = n
    BY <1>2, FS_Interval
  <2> QED
    BY <1>1, <1>6, <2>1, FS_Injection
<1>8. ToSet(InOrder(S)) = S
  BY <1>5, <1>7 DEF Surjection, ToSet
<1> QED
  BY <1>2, <1>5, <1>8

LEMMA SeqFacts ==
  ASSUME NEW s \in Seq(Items)
  PROVE  /\ ToSet(s) \subseteq Items
         /\ s # <<>> => /\ Head(s) \in ToSet(s) /\ Tail(s) \in Seq(Items)
                        /\ ToSet(Tail(s)) \subseteq ToSet(s)
BY DEF ToSet

LEMMA ConcatFacts ==
  ASSUME NEW s \in Seq(Items), NEW t \in Seq(Items)
  PROVE  s \o t \in Seq(Items) /\ ToSet(s \o t) \subseteq ToSet(s) \union ToSet(t)
BY DEF ToSet

LEMMA CategoryFacts ==
  ASSUME NEW i \in Items
  PROVE  /\ CategoryOf(i) \in Categories /\ i \in CategoryOf(i)
         /\ \A c \in Categories : i \in c => CategoryOf(i) = c
BY ItemsAssumption DEF CategoryOf

LEMMA KnownItems == Risky \subseteq Items /\ \A c \in Categories : c \subseteq Items
BY ItemsAssumption

LEMMA BoxFacts ==
  /\ NoBox.kind = "none"
  /\ \A b \in Boxes : b.kind = "risky" => b.item \in Items /\ b.rest \in SUBSET Items
  /\ \A b \in Boxes : b.kind = "confirm" => b.items \in SUBSET Items
  /\ \A b \in Boxes : b.kind = "none" => b = NoBox
BY DEF Boxes, NoBox

\* A category that takes all its rows takes risky ones only next to a risky one.
LEMMA WholeFacts ==
  ASSUME NEW c \in Categories, NEW shown \in SUBSET Items, NEW chosen \in SUBSET shown
  PROVE  /\ Whole(c, shown, chosen) \in SUBSET shown /\ chosen \subseteq Whole(c, shown, chosen)
         /\ \A i \in Whole(c, shown, chosen) \intersect Risky :
              \E j \in chosen \intersect Risky : CategoryOf(j) = CategoryOf(i)
<1>1. Whole(c, shown, chosen) \in SUBSET shown /\ chosen \subseteq Whole(c, shown, chosen)
  BY DEF Whole
<1>2. ASSUME NEW i \in Whole(c, shown, chosen) \intersect Risky, i \notin chosen
      PROVE  \E j \in chosen \intersect Risky : CategoryOf(j) = CategoryOf(i)
  <2>1. i \in c /\ c \intersect chosen # {}
    BY <1>2 DEF Whole
  <2>2. c \subseteq Risky
    BY <2>1, ItemsAssumption
  <2>3. PICK j \in c : j \in chosen
    BY <2>1
  <2>4. CategoryOf(j) = c /\ CategoryOf(i) = c
    BY <2>1, <2>3, CategoryFacts, KnownItems
  <2> QED
    BY <2>2, <2>3, <2>4
<1> QED
  BY <1>1, <1>2

--------------------------------------------------------------------------------
(* The page. *)

LEMMA InitInv == Init => IInv
<1> SUFFICES ASSUME Init PROVE IInv
  OBVIOUS
<1>1. TypeOK
  <2>1. NoScan \in Scans /\ NoExec \in Execs /\ <<>> \in Seq(Events)
    BY DEF NoScan, Scans, NoExec, Execs
  <2>2. disk \in Disks /\ diskBefore \in Disks
    BY DEF Init, Disks
  <2>3. NoBox \in Boxes /\ Paths \subseteq Items
    BY DEF Boxes, Paths, Items
  <2> QED
    BY <2>1, <2>2, <2>3 DEF Init, TypeOK
<1> QED
  BY <1>1, BoxFacts DEF Init, IInv, ClosedIsBlank, CheckedIsConfirmed, AskedIsOneCategory, StartsIdle, AskedIsChecked,
      RunIsHeld, TodoIsOfRun, RealIsAlone, NoScan, NoExec, active

\* The parts of the invariant, to be taken one by one.
LEMMA Parts ==
  ASSUME TypeOK', ClosedIsBlank', CheckedIsConfirmed', AskedIsOneCategory', StartsIdle',
         AskedIsChecked', RunIsHeld', TodoIsOfRun', RealIsAlone'
  PROVE  IInv'
BY DEF IInv

LEMMA OpenInv ==
  ASSUME IInv, openDialog
  PROVE  IInv'
<1>1. /\ page = "page" /\ page' = "dialog" /\ treeOn' = TRUE /\ stopOn' = TRUE
      /\ scan' = [phase |-> "running", todo |-> InOrder(Offered)]
      /\ UNCHANGED <<mHasScanned, retained, rows, checked, confirmed, slipped, dryRun, primaryOn, box,
                     scanStop, exec, execStop, events, lastRun, disk, diskBefore>>
  BY DEF openDialog, treeVars, execVars
<1>2. /\ exec.phase = "idle" /\ checked = {} /\ confirmed = {} /\ events = <<>>
      /\ primaryOn = FALSE /\ box = NoBox
  BY <1>1 DEF IInv, ClosedIsBlank
<1>3. TypeOK'
  <2>1. Offered \subseteq Items
    BY DEF IInv, TypeOK, Offered, Paths, Items
  <2>2. InOrder(Offered) \in Seq(Items)
    BY <2>1, InOrderFacts
  <2>3. scan' \in Scans
    BY <1>1, <2>2 DEF Scans
  <2> QED
    BY <1>1, <2>3 DEF IInv, TypeOK
<1>4. ClosedIsBlank' /\ CheckedIsConfirmed' /\ AskedIsOneCategory' /\ AskedIsChecked'
  BY <1>1, <1>2, BoxFacts DEF ClosedIsBlank, CheckedIsConfirmed, AskedIsOneCategory, AskedIsChecked
<1>5. StartsIdle' /\ RunIsHeld' /\ TodoIsOfRun'
  BY <1>1, <1>2, BoxFacts DEF StartsIdle, RunIsHeld, TodoIsOfRun, active
<1>6. RealIsAlone'
  BY <1>1, <1>2 DEF RealIsAlone, active, RealIn
<1> QED
  BY <1>3, <1>4, <1>5, <1>6, Parts

LEMMA EndedInv ==
  ASSUME IInv, workersEnded
  PROVE  IInv'
<1>1. /\ page = "closing" /\ page' = "page" /\ scan.phase = "idle" /\ exec.phase = "idle"
      /\ rows' = {} /\ checked' = {} /\ confirmed' = {} /\ slipped' = {} /\ dryRun' = FALSE
      /\ treeOn' = FALSE /\ primaryOn' = FALSE /\ stopOn' = FALSE
      /\ scanStop' = FALSE /\ execStop' = FALSE
      /\ events' = <<>> /\ lastRun' = "none" /\ diskBefore' = disk
      /\ UNCHANGED <<mHasScanned, retained, box, scan, exec, disk>>
  BY DEF workersEnded, workersDone, scanning, executing
<1>2. box = NoBox
  BY <1>1 DEF IInv, ClosedIsBlank
<1>3. TypeOK'
  <2>1. /\ page' \in {"page", "dialog", "closing"} /\ mHasScanned' \in BOOLEAN
        /\ retained' \subseteq Paths
        /\ rows' \subseteq Items /\ checked' \subseteq rows'
        /\ confirmed' \subseteq Categories /\ slipped' \subseteq Categories /\ dryRun' \in BOOLEAN
        /\ treeOn' \in BOOLEAN /\ primaryOn' \in BOOLEAN /\ stopOn' \in BOOLEAN
    BY <1>1 DEF IInv, TypeOK
  <2>2. /\ box' \in Boxes /\ scan' \in Scans /\ exec' \in Execs
        /\ scanStop' \in BOOLEAN /\ execStop' \in BOOLEAN
    BY <1>1 DEF IInv, TypeOK
  <2>3. <<>> \in Seq(Events)
    OBVIOUS
  <2>4. events' \in Seq(Events)
    BY <1>1, <2>3
  <2>5. lastRun' \in {"none", "dry", "real"} /\ disk' \in Disks /\ diskBefore' \in Disks
    BY <1>1 DEF IInv, TypeOK
  <2> QED
    BY <2>1, <2>2, <2>4, <2>5 DEF TypeOK
<1>4. ClosedIsBlank' /\ CheckedIsConfirmed' /\ AskedIsOneCategory' /\ AskedIsChecked' /\ StartsIdle'
  BY <1>1, <1>2, BoxFacts
     DEF ClosedIsBlank, CheckedIsConfirmed, AskedIsOneCategory, AskedIsChecked, StartsIdle
<1>5. RunIsHeld' /\ TodoIsOfRun' /\ RealIsAlone'
  BY <1>1 DEF RunIsHeld, TodoIsOfRun, RealIsAlone, active
<1> QED
  BY <1>3, <1>4, <1>5, Parts

LEMMA SystemScanInv ==
  ASSUME IInv, systemScan
  PROVE  IInv'
<1>1. /\ mHasScanned' = TRUE /\ retained' \subseteq Paths
      /\ UNCHANGED <<page, rows, checked, confirmed, slipped, dryRun, treeOn, primaryOn, stopOn, box,
                     scan, scanStop, exec, execStop, events, lastRun, disk, diskBefore>>
  BY DEF systemScan, treeVars, controlVars, scanVars, execVars
<1>2. TypeOK'
  BY <1>1 DEF IInv, TypeOK
<1>3. ClosedIsBlank' /\ CheckedIsConfirmed' /\ AskedIsOneCategory' /\ AskedIsChecked' /\ StartsIdle'
  BY <1>1 DEF IInv, ClosedIsBlank, CheckedIsConfirmed, AskedIsOneCategory, AskedIsChecked, StartsIdle
<1>4. RunIsHeld' /\ TodoIsOfRun' /\ RealIsAlone'
  BY <1>1 DEF IInv, RunIsHeld, AllConfirmed, TodoIsOfRun, RealIsAlone, RealIn, active
<1> QED
  BY <1>2, <1>3, <1>4, Parts

\* The dialog is left: what was under way goes on, with no question open.
LEMMA LeaveInv ==
  ASSUME IInv, NEW r, leaveDialog(r), rows' \subseteq rows, checked' \subseteq checked,
         checked' \subseteq rows', box = NoBox, events' \in Seq(Events),
         treeOn' \in BOOLEAN, primaryOn' \in BOOLEAN, stopOn' \in BOOLEAN,
         lastRun' \in {"none", "dry", "real"},
         UNCHANGED <<confirmed, slipped, dryRun, box, scan, exec, disk, diskBefore>>
  PROVE  IInv'
<1>1. /\ page' = "closing"
      /\ mHasScanned' \in BOOLEAN /\ retained' \subseteq Paths
      /\ scanStop' \in BOOLEAN /\ execStop' \in BOOLEAN
  BY DEF leaveDialog, IInv, TypeOK, scanning, executing
<1>2. TypeOK'
  BY <1>1 DEF IInv, TypeOK
<1>3. ClosedIsBlank' /\ CheckedIsConfirmed' /\ AskedIsOneCategory' /\ AskedIsChecked' /\ StartsIdle'
  BY <1>1, BoxFacts
     DEF IInv, ClosedIsBlank, CheckedIsConfirmed, AskedIsOneCategory, AskedIsChecked, StartsIdle
<1>4. RunIsHeld' /\ TodoIsOfRun' /\ RealIsAlone'
  BY <1>1 DEF IInv, RunIsHeld, TodoIsOfRun, RealIsAlone, active
<1> QED
  BY <1>2, <1>3, <1>4, Parts

--------------------------------------------------------------------------------
(* The dialog. *)

\* Clicks in the tree and answers about it, while no run is under way.
LEMMA TreeInv ==
  ASSUME IInv, page = "dialog", ~active, ~RealIn(events),
         checked' \in SUBSET rows, confirmed' \in SUBSET Categories,
         slipped' \in SUBSET Categories, dryRun' \in BOOLEAN,
         box' \in Boxes, box'.kind # "confirm", CheckedIsConfirmed', AskedIsOneCategory',
         primaryOn' \in BOOLEAN,
         primaryOn' = TRUE => primaryOn = TRUE \/ (exec.phase = "idle" /\ scan.phase = "idle"),
         UNCHANGED <<page, mHasScanned, retained, rows, treeOn, stopOn, scan, scanStop, exec,
                     execStop, events, lastRun, disk, diskBefore>>
  PROVE  IInv'
<1>1. TypeOK'
  BY DEF IInv, TypeOK
<1>2. ClosedIsBlank' /\ AskedIsChecked'
  BY DEF ClosedIsBlank, AskedIsChecked
<1>3. StartsIdle'
  BY DEF IInv, StartsIdle
<1>4. RunIsHeld' /\ RealIsAlone'
  BY DEF RunIsHeld, RealIsAlone, active, RealIn
<1>5. TodoIsOfRun'
  BY DEF IInv, TodoIsOfRun, active
<1> QED
  BY <1>1, <1>2, <1>3, <1>4, <1>5, Parts

LEMMA ClickFacts ==
  ASSUME IInv, click
  PROVE  page = "dialog" /\ box = NoBox /\ box.kind = "none" /\ ~active /\ ~RealIn(events)
BY BoxFacts DEF IInv, TypeOK, click, dialogFree, RunIsHeld, RealIsAlone

\* updatePrimaryActionEnabled() looks at both workers.
LEMMA PrimaryFacts ==
  ASSUME IInv, NEW c, updatePrimaryActionEnabled(c)
  PROVE  /\ primaryOn' \in BOOLEAN
         /\ primaryOn' = TRUE => exec.phase = "idle" /\ scan.phase = "idle"
         /\ UNCHANGED <<treeOn, stopOn>>
BY DEF updatePrimaryActionEnabled, scanning, executing

\* A row that is checked, with the rest of the rows of its category to come.
LEMMA CheckInv ==
  ASSUME IInv, NEW i \in Items, NEW rest \in SUBSET (rows \intersect CategoryOf(i)), check(i, rest)
  PROVE  IInv'
<1>1. /\ click /\ i \in rows
      /\ UNCHANGED <<page, mHasScanned, retained, rows, confirmed, slipped, dryRun, scan, scanStop,
                     exec, execStop, events, lastRun, disk, diskBefore>>
  BY DEF check, clickUnchanged, pageVars, scanVars, execVars
<1>2. /\ box = NoBox /\ box.kind = "none" /\ box \in Boxes
      /\ checked \in SUBSET rows /\ rows \in SUBSET Items
  BY <1>1, ClickFacts DEF IInv, TypeOK
<1>3. /\ confirmed' \in SUBSET Categories /\ slipped' \in SUBSET Categories
      /\ dryRun' \in BOOLEAN
  BY <1>1 DEF IInv, TypeOK
<1>4. \A j \in checked \intersect Risky : CategoryOf(j) \in confirmed \union slipped
  BY <1>2 DEF IInv, CheckedIsConfirmed
<1>5. CASE needsConfirmation(i)
  <2> DEFINE b == [kind |-> "risky", item |-> i, rest |-> rest]
  <2>1. /\ checked' = checked \union {i} /\ box' = b
        /\ UNCHANGED <<treeOn, primaryOn, stopOn>>
    BY <1>5 DEF check, ask, controlVars
  <2>2. b \in Boxes /\ b.kind = "risky" /\ b.item = i /\ b.rest = rest
    BY <1>2 DEF Boxes
  <2> HIDE DEF b
  <2>3. CheckedIsConfirmed' /\ AskedIsOneCategory'
    BY <1>1, <1>4, <2>1, <2>2 DEF CheckedIsConfirmed, AskedIsOneCategory
  <2>4. primaryOn' \in BOOLEAN /\ checked' \in SUBSET rows
    BY <1>1, <1>2, <2>1 DEF IInv, TypeOK
  <2> QED
    BY <1>1, <1>3, <2>1, <2>2, <2>3, <2>4, ClickFacts, TreeInv
<1>6. CASE ~needsConfirmation(i)
  <2> DEFINE chosen == checked \union {i}
             c == CategoryOf(i)
  <2>1. checked' = Whole(c, rows, chosen) /\ updatePrimaryActionEnabled(checked') /\ box' = box
    BY <1>6 DEF check, select
  <2>2. c \in Categories /\ chosen \in SUBSET rows
    BY <1>1, <1>2, CategoryFacts
  <2>3. \A j \in chosen \intersect Risky : CategoryOf(j) \in confirmed \union slipped
    BY <1>4, <1>6 DEF needsConfirmation
  <2> HIDE DEF chosen, c
  <2>4. /\ checked' \in SUBSET rows
        /\ \A j \in checked' \intersect Risky :
             \E k \in chosen \intersect Risky : CategoryOf(k) = CategoryOf(j)
    BY <1>2, <2>1, <2>2, WholeFacts
  <2>5. CheckedIsConfirmed' /\ AskedIsOneCategory'
    BY <1>1, <1>2, <2>1, <2>3, <2>4 DEF CheckedIsConfirmed, AskedIsOneCategory
  <2> QED
    BY <1>1, <1>2, <1>3, <2>1, <2>4, <2>5, ClickFacts, PrimaryFacts, TreeInv
<1> QED
  BY <1>5, <1>6

LEMMA CheckCategoryInv ==
  ASSUME IInv, NEW c \in Categories, checkCategory(c)
  PROVE  IInv'
<1>1. PICK i \in RowsOf(c) \ checked : check(i, RowsOf(c) \ (checked \union {i}))
  BY DEF checkCategory
<1>2. i \in Items /\ CategoryOf(i) = c
  BY <1>1, CategoryFacts DEF RowsOf, IInv, TypeOK
<1>3. RowsOf(c) \ (checked \union {i}) \in SUBSET (rows \intersect CategoryOf(i))
  BY <1>2 DEF RowsOf
<1> QED
  BY <1>1, <1>2, <1>3, CheckInv

\* Rows are unchecked, and what is checked now was so before or stands by one that was.
LEMMA UncheckInv ==
  ASSUME IInv, click, NEW chosen \in SUBSET checked, NEW c \in Categories,
         checked' \in {chosen, Whole(c, rows, chosen)},
         updatePrimaryActionEnabled(checked'),
         UNCHANGED <<rows, confirmed, slipped, box>>, clickUnchanged
  PROVE  IInv'
<1>1. UNCHANGED <<page, mHasScanned, retained, rows, confirmed, slipped, dryRun, box, scan,
                  scanStop, exec, execStop, events, lastRun, disk, diskBefore>>
  BY DEF clickUnchanged, pageVars, scanVars, execVars
<1>2. /\ box' \in Boxes /\ box'.kind = "none" /\ box.kind = "none"
      /\ checked \in SUBSET rows /\ rows \in SUBSET Items
      /\ confirmed' \in SUBSET Categories /\ slipped' \in SUBSET Categories
      /\ dryRun' \in BOOLEAN
  BY <1>1, ClickFacts DEF IInv, TypeOK
<1>3. \A j \in chosen \intersect Risky : CategoryOf(j) \in confirmed \union slipped
  BY <1>2 DEF IInv, CheckedIsConfirmed
<1>4. chosen \in SUBSET rows
  BY <1>2
<1>5. /\ checked' \in SUBSET rows
      /\ \A j \in checked' \intersect Risky :
           \E k \in chosen \intersect Risky : CategoryOf(k) = CategoryOf(j)
  BY <1>2, <1>4, WholeFacts
<1>6. CheckedIsConfirmed' /\ AskedIsOneCategory'
  BY <1>1, <1>2, <1>3, <1>5 DEF CheckedIsConfirmed, AskedIsOneCategory
<1> QED
  BY <1>1, <1>2, <1>5, <1>6, ClickFacts, PrimaryFacts, TreeInv

LEMMA UncheckItemInv ==
  ASSUME IInv, NEW i \in Items, uncheckItem(i)
  PROVE  IInv'
BY CategoryFacts, UncheckInv DEF uncheckItem, select

LEMMA UncheckCategoryInv ==
  ASSUME IInv, NEW c \in Categories, uncheckCategory(c)
  PROVE  IInv'
BY UncheckInv DEF uncheckCategory, select

LEMMA ToggleDryRunInv ==
  ASSUME IInv, toggleDryRun
  PROVE  IInv'
<1>1. /\ click /\ dryRun' = ~dryRun
      /\ UNCHANGED <<page, mHasScanned, retained, rows, checked, confirmed, slipped, treeOn, primaryOn,
                     stopOn, box, scan, scanStop, exec, execStop, events, lastRun, disk,
                     diskBefore>>
  BY DEF toggleDryRun, pageVars, controlVars, scanVars, execVars
<1>2. /\ box' \in Boxes /\ box'.kind # "confirm" /\ checked' \in SUBSET rows
      /\ confirmed' \in SUBSET Categories /\ slipped' \in SUBSET Categories
      /\ dryRun' \in BOOLEAN /\ primaryOn' \in BOOLEAN
  BY <1>1, ClickFacts DEF IInv, TypeOK
<1>3. CheckedIsConfirmed' /\ AskedIsOneCategory'
  BY <1>1 DEF IInv, CheckedIsConfirmed, AskedIsOneCategory
<1> QED
  BY <1>1, <1>2, <1>3, ClickFacts, TreeInv

LEMMA AnswerRiskyInv ==
  ASSUME IInv, answerRisky
  PROVE  IInv'
<1> DEFINE i == box.item
           c == CategoryOf(i)
           unchecked == checked \ {i}
           next == box.rest \ checked
<1>1. /\ page = "dialog" /\ events = <<>> /\ box.kind = "risky"
      /\ UNCHANGED <<page, mHasScanned, retained, rows, dryRun, scan, scanStop, exec,
                     execStop, events, lastRun, disk, diskBefore>>
  BY DEF answerRisky, answered, clickUnchanged, pageVars, scanVars, execVars
<1>2. ~active /\ ~RealIn(events)
  BY <1>1, BoxFacts DEF IInv, RunIsHeld, RealIn
<1>3. /\ dryRun' \in BOOLEAN /\ primaryOn \in BOOLEAN
      /\ confirmed \in SUBSET Categories /\ slipped \in SUBSET Categories
      /\ checked \in SUBSET rows /\ rows \in SUBSET Items
  BY <1>1 DEF IInv, TypeOK
<1>4. /\ i \in Items /\ c \in Categories /\ next \subseteq rows
      /\ \A j \in next : j \in Items /\ CategoryOf(j) = c
  BY <1>1, <1>3, CategoryFacts DEF IInv, AskedIsOneCategory
<1>5. \A j \in checked \intersect Risky : CategoryOf(j) \in confirmed \union slipped \union {c}
  BY DEF IInv, CheckedIsConfirmed
<1>6. NoBox \in Boxes /\ NoBox.kind = "none"
  BY BoxFacts DEF Boxes
<1> HIDE DEF i, c, unchecked, next
<1>7. ASSUME confirmed' = confirmed \union {c}, checked' = Whole(c, rows, checked),
             updatePrimaryActionEnabled(checked'), box' = NoBox, UNCHANGED slipped
      PROVE  IInv'
  <2>1. /\ checked' \in SUBSET rows
        /\ \A j \in checked' \intersect Risky :
             \E k \in checked \intersect Risky : CategoryOf(k) = CategoryOf(j)
    BY <1>3, <1>4, <1>7, WholeFacts
  <2>2. CheckedIsConfirmed' /\ AskedIsOneCategory'
    BY <1>5, <1>6, <1>7, <2>1 DEF CheckedIsConfirmed, AskedIsOneCategory
  <2> QED
    BY <1>1, <1>2, <1>3, <1>4, <1>6, <1>7, <2>1, <2>2, PrimaryFacts, TreeInv
<1>8. ASSUME NEW j \in next, ask(j, unchecked, next \ {j}), UNCHANGED <<confirmed, slipped>>
      PROVE  IInv'
  <2> DEFINE b == [kind |-> "risky", item |-> j, rest |-> next \ {j}]
  <2>1. /\ checked' = unchecked \union {j} /\ box' = b
        /\ UNCHANGED <<treeOn, primaryOn, stopOn>>
    BY <1>8 DEF ask, controlVars
  <2>2. /\ b \in Boxes /\ b.kind = "risky" /\ b.item = j /\ b.rest \subseteq rows
        /\ \A k \in b.rest : k \in Items /\ CategoryOf(k) = c
    BY <1>3, <1>4 DEF Boxes
  <2>3. /\ checked' \in SUBSET rows
        /\ \A k \in checked' : k \in checked \/ k = j
    BY <1>3, <1>4, <2>1 DEF unchecked
  <2> HIDE DEF b
  <2>4. CheckedIsConfirmed'
    BY <1>4, <1>5, <1>8, <2>1, <2>2, <2>3 DEF CheckedIsConfirmed
  <2>5. b.rest \subseteq CategoryOf(j)
    BY <1>4, <2>2, CategoryFacts
  <2>6. AskedIsOneCategory'
    BY <1>1, <1>4, <2>1, <2>2, <2>5 DEF AskedIsOneCategory
  <2> QED
    BY <1>1, <1>2, <1>3, <1>8, <2>1, <2>2, <2>3, <2>4, <2>6, TreeInv
<1>9. ASSUME checked' = Whole(c, rows, unchecked), updatePrimaryActionEnabled(checked'),
             slipped' = slipped \union (IF c \intersect unchecked = {} THEN {} ELSE {c}),
             box' = NoBox, UNCHANGED confirmed
      PROVE  IInv'
  <2>1. unchecked \in SUBSET rows /\ unchecked \subseteq checked
    BY <1>3 DEF unchecked
  <2>2. /\ checked' \in SUBSET rows
        /\ \A j \in checked' \intersect Risky :
             \E k \in unchecked \intersect Risky : CategoryOf(k) = CategoryOf(j)
    BY <1>3, <1>4, <1>9, <2>1, WholeFacts
  <2>3. \A k \in unchecked : CategoryOf(k) = c => k \in c
    BY <1>3, <2>1, CategoryFacts
  <2>4. \A k \in unchecked \intersect Risky : CategoryOf(k) \in confirmed' \union slipped'
    BY <1>5, <1>9, <2>1, <2>3
  <2>5. CheckedIsConfirmed' /\ AskedIsOneCategory'
    BY <1>6, <1>9, <2>2, <2>4 DEF CheckedIsConfirmed, AskedIsOneCategory
  <2>6. slipped' \in SUBSET Categories /\ confirmed' \in SUBSET Categories
    BY <1>3, <1>4, <1>9
  <2> QED
    BY <1>1, <1>2, <1>3, <1>6, <1>9, <2>2, <2>5, <2>6, PrimaryFacts, TreeInv
<1> QED
  BY <1>7, <1>8, <1>9 DEF answerRisky, select, i, c, unchecked, next

\* A run starts with rows that are checked, and switches the controls off.
LEMMA StartInv ==
  ASSUME IInv, page = "dialog", exec.phase = "idle", scan.phase = "idle",
         box.kind # "risky", ~RealIn(events), NEW dry \in BOOLEAN,
         dry = FALSE => events = <<>>, NEW S \in SUBSET checked, startExecution(S, dry),
         box' = NoBox,
         UNCHANGED <<page, mHasScanned, retained, rows, checked, confirmed, slipped, dryRun, scan,
                     scanStop, events, lastRun, disk>>
  PROVE  IInv'
<1>1. /\ treeOn' = FALSE /\ primaryOn' = FALSE /\ stopOn' = TRUE
      /\ execStop' = FALSE /\ diskBefore' = disk
  BY DEF startExecution, updateControls, scanning
<1>2. S \in SUBSET Items
  BY DEF IInv, TypeOK
<1>3. InOrder(S) \in Seq(Items) /\ ToSet(InOrder(S)) = S
  BY <1>2, InOrderFacts
<1>4. exec' = [phase |-> "begin", dry |-> dry, items |-> InOrder(S), todo |-> <<>>,
               results |-> <<>>]
  BY DEF startExecution, NoExec
<1>5. exec' \in Execs
  BY <1>3, <1>4 DEF Execs
<1>6. /\ exec'.phase = "begin" /\ exec'.dry = dry /\ exec'.items = InOrder(S)
      /\ exec'.todo = <<>>
  BY <1>4
<1>7. TypeOK'
  <2>1. NoBox \in Boxes
    BY DEF Boxes
  <2> QED
    BY <1>1, <1>5, <2>1 DEF IInv, TypeOK
<1>8. ClosedIsBlank' /\ AskedIsChecked' /\ StartsIdle'
  BY <1>1, BoxFacts DEF ClosedIsBlank, AskedIsChecked, StartsIdle
<1>9. CheckedIsConfirmed' /\ AskedIsOneCategory'
  BY BoxFacts DEF IInv, CheckedIsConfirmed, AskedIsOneCategory
<1>10. RunIsHeld'
  BY <1>1, <1>3, <1>6 DEF IInv, RunIsHeld, CheckedIsConfirmed, AskedIsOneCategory, AllConfirmed
<1>11. TodoIsOfRun'
  BY <1>6 DEF TodoIsOfRun, ToSet
<1>12. RealIsAlone'
  BY <1>6 DEF RealIsAlone, RealIn, active
<1> QED
  BY <1>7, <1>8, <1>9, <1>10, <1>11, <1>12, Parts

LEMMA ClickPrimaryInv ==
  ASSUME IInv, clickPrimary
  PROVE  IInv'
<1>1. /\ page = "dialog" /\ box = NoBox /\ primaryOn = TRUE
      /\ UNCHANGED <<page, mHasScanned, retained, rows, checked, confirmed, slipped, dryRun, scan,
                     scanStop, events, lastRun, disk>>
  BY DEF clickPrimary, dialogFree, pageVars, treeVars, scanVars, IInv, TypeOK
<1>2. /\ exec.phase = "idle" /\ scan.phase = "idle" /\ ~RealIn(events)
      /\ box.kind = "none"
  BY <1>1, BoxFacts DEF IInv, StartsIdle, RealIsAlone
<1>3. CASE dryRun
  BY <1>1, <1>2, <1>3, StartInv DEF clickPrimary
<1>4. CASE ~dryRun
  <2> DEFINE b == [kind |-> "confirm", items |-> checked]
  <2>1. box' = b /\ UNCHANGED <<treeOn, primaryOn, stopOn, exec, execStop, diskBefore>>
    BY <1>4 DEF clickPrimary, controlVars, execVars
  <2>2. b \in Boxes /\ b.kind = "confirm" /\ b.items = checked
    BY DEF Boxes, IInv, TypeOK
  <2> HIDE DEF b
  <2>3. TypeOK'
    BY <1>1, <2>1, <2>2 DEF IInv, TypeOK
  <2>4. ClosedIsBlank' /\ AskedIsChecked' /\ StartsIdle'
    BY <1>1, <1>2, <2>1, <2>2 DEF ClosedIsBlank, AskedIsChecked, StartsIdle
  <2>5. CheckedIsConfirmed' /\ AskedIsOneCategory'
    BY <1>1, <1>2, <2>1, <2>2 DEF IInv, CheckedIsConfirmed, AskedIsOneCategory
  <2>6. RunIsHeld' /\ TodoIsOfRun' /\ RealIsAlone'
    BY <1>1, <1>2, <2>1 DEF RunIsHeld, TodoIsOfRun, RealIsAlone, RealIn, active
  <2> QED
    BY <2>3, <2>4, <2>5, <2>6, Parts
<1> QED
  BY <1>3, <1>4

LEMMA AnswerConfirmInv ==
  ASSUME IInv, answerConfirm
  PROVE  IInv'
<1>1. /\ page = "dialog" /\ events = <<>> /\ box.kind = "confirm" /\ box' = NoBox
      /\ UNCHANGED <<page, mHasScanned, retained, rows, checked, confirmed, slipped, dryRun, scan,
                     scanStop, events, lastRun, disk>>
  BY DEF answerConfirm, answered, pageVars, treeVars, scanVars
<1>2. /\ exec.phase = "idle" /\ scan.phase = "idle" /\ ~RealIn(events)
      /\ box.items \in SUBSET checked
  BY <1>1 DEF IInv, StartsIdle, RealIn, AskedIsChecked
<1>3. CASE startExecution(box.items, FALSE)
  BY <1>1, <1>2, <1>3, StartInv
<1>4. CASE UNCHANGED <<treeOn, primaryOn, stopOn, exec, execStop, diskBefore>>
  <2>1. /\ checked' \in SUBSET rows /\ confirmed' \in SUBSET Categories
        /\ slipped' \in SUBSET Categories /\ dryRun' \in BOOLEAN /\ primaryOn' \in BOOLEAN
    BY <1>1, <1>4 DEF IInv, TypeOK
  <2>2. CheckedIsConfirmed' /\ AskedIsOneCategory'
    BY <1>1, BoxFacts DEF IInv, CheckedIsConfirmed, AskedIsOneCategory
  <2>3. box' \in Boxes /\ box'.kind # "confirm" /\ ~active
    BY <1>1, <1>2, BoxFacts DEF Boxes, active
  <2> QED
    BY <1>1, <1>2, <1>4, <2>1, <2>2, <2>3, TreeInv
<1> QED
  BY <1>3, <1>4 DEF answerConfirm, controlVars, execVars

LEMMA StopInv ==
  ASSUME IInv, clickStop
  PROVE  IInv'
<1>1. /\ page = "dialog" /\ box = NoBox
      /\ UNCHANGED <<rows, checked, confirmed, slipped, dryRun, treeOn, primaryOn, box, scan, exec,
                     events, lastRun, disk, diskBefore>>
  BY DEF clickStop, dialogFree, treeVars
<1>2. CASE executing \/ scanning
  <2>1. /\ scanStop' \in BOOLEAN /\ execStop' \in BOOLEAN /\ stopOn' = FALSE
        /\ UNCHANGED <<page, mHasScanned, retained>>
    BY <1>2 DEF clickStop, pageVars, IInv, TypeOK
  <2>2. TypeOK'
    BY <1>1, <2>1 DEF IInv, TypeOK
  <2>3. ClosedIsBlank' /\ AskedIsChecked' /\ StartsIdle' /\ CheckedIsConfirmed' /\ AskedIsOneCategory'
    BY <1>1, <2>1 DEF IInv, ClosedIsBlank, AskedIsChecked, StartsIdle, CheckedIsConfirmed, AskedIsOneCategory
  <2>4. RunIsHeld' /\ TodoIsOfRun' /\ RealIsAlone'
    BY <1>1, <2>1 DEF IInv, RunIsHeld, AllConfirmed, TodoIsOfRun, RealIsAlone, RealIn, active
  <2> QED
    BY <2>2, <2>3, <2>4, Parts
<1>3. CASE ~(executing \/ scanning)
  <2>1. leaveDialog(lastRun) /\ UNCHANGED stopOn
    BY <1>3 DEF clickStop
  <2>2. /\ checked' \subseteq rows' /\ events' \in Seq(Events) /\ treeOn' \in BOOLEAN
        /\ primaryOn' \in BOOLEAN /\ stopOn' \in BOOLEAN
        /\ lastRun' \in {"none", "dry", "real"}
    BY <1>1, <2>1 DEF IInv, TypeOK
  <2> QED
    BY <1>1, <2>1, <2>2, LeaveInv
<1> QED
  BY <1>2, <1>3

LEMMA DismissInv ==
  ASSUME IInv, dismiss
  PROVE  IInv'
<1>1. /\ box = NoBox /\ leaveDialog(lastRun)
      /\ UNCHANGED <<rows, checked, confirmed, slipped, dryRun, treeOn, primaryOn, stopOn, box, scan,
                     exec, events, lastRun, disk, diskBefore>>
  BY DEF dismiss, dialogFree, treeVars, controlVars
<1>2. /\ checked' \subseteq rows' /\ events' \in Seq(Events) /\ treeOn' \in BOOLEAN
      /\ primaryOn' \in BOOLEAN /\ stopOn' \in BOOLEAN
      /\ lastRun' \in {"none", "dry", "real"}
  BY <1>1 DEF IInv, TypeOK
<1> QED
  BY <1>1, <1>2, LeaveInv

--------------------------------------------------------------------------------
(* The signals of the workers. *)

LEMMA DeliverFacts ==
  ASSUME IInv, NEW name, deliver(name)
  PROVE  /\ page = "dialog" /\ Head(events) \in Events /\ Head(events).name = name
         /\ events' = Tail(events) /\ events' \in Seq(Events)
         /\ events # <<>> /\ events[1] = Head(events) /\ 1 \in DOMAIN events
         /\ RealIn(events') => RealIn(events)
         /\ UNCHANGED <<confirmed, slipped, dryRun, box, scan, exec, disk, diskBefore>>
<1>1. /\ page = "dialog" /\ events # <<>> /\ Head(events).name = name
      /\ events' = Tail(events)
      /\ UNCHANGED <<confirmed, slipped, dryRun, box, scan, exec, disk, diskBefore>>
  BY DEF deliver
<1>2. events \in Seq(Events)
  BY DEF IInv, TypeOK
<1>3. Head(events) \in Events /\ Tail(events) \in Seq(Events)
      /\ events[1] = Head(events) /\ 1 \in DOMAIN events
  BY <1>1, <1>2
<1>4. \A n \in DOMAIN Tail(events) : n + 1 \in DOMAIN events /\ Tail(events)[n] = events[n + 1]
  BY <1>1, <1>2
<1>5. RealIn(Tail(events)) => RealIn(events)
  BY <1>4 DEF RealIn
<1> QED
  BY <1>1, <1>3, <1>5

\* Whatever comes before the end of a real run is not delivered after its start.
LEMMA NotReal ==
  ASSUME IInv, page = "dialog", events # <<>>, 1 \in DOMAIN events,
         ~(events[1].name = "executionFinished" /\ events[1].summary.dry = FALSE)
  PROVE  ~RealIn(events) /\ ~(active /\ exec.dry = FALSE)
<1>1. events \in Seq(Events)
  BY DEF IInv, TypeOK
<1>2. ASSUME RealIn(events) PROVE FALSE
  BY <1>1, <1>2 DEF IInv, RealIsAlone, RealIn
<1> QED
  BY <1>2 DEF IInv, RealIsAlone

LEMMA DiscoveredInv ==
  ASSUME IInv, onItemDiscovered
  PROVE  IInv'
<1> DEFINE i == Head(events).item
           c == CategoryOf(i)
<1>1. /\ deliver("found") /\ rows' = rows \union {i} /\ checked' = Whole(c, rows', checked)
      /\ updatePrimaryActionEnabled(checked')
      /\ UNCHANGED <<page, mHasScanned, retained, scanStop, execStop, lastRun>>
  BY DEF onItemDiscovered, select, pageVars
<1>2. i \in Items
  BY <1>1, DeliverFacts DEF Events
<1>3. ~RealIn(events) /\ ~(active /\ exec.dry = FALSE)
  BY <1>1, DeliverFacts, NotReal
<1>4. c \in Categories /\ rows' \in SUBSET Items /\ checked \in SUBSET rows'
  BY <1>1, <1>2, CategoryFacts DEF IInv, TypeOK
<1> HIDE DEF i, c
<1>5. /\ checked' \in SUBSET rows' /\ checked \subseteq checked' /\ rows \subseteq rows'
      /\ \A j \in checked' \intersect Risky :
           \E k \in checked \intersect Risky : CategoryOf(k) = CategoryOf(j)
  BY <1>1, <1>4, WholeFacts
<1>6. /\ primaryOn' \in BOOLEAN /\ UNCHANGED <<treeOn, stopOn>>
      /\ primaryOn' = TRUE => exec.phase = "idle" /\ scan.phase = "idle"
  BY <1>1, PrimaryFacts
<1>7. TypeOK'
  BY <1>1, <1>4, <1>5, <1>6, DeliverFacts DEF IInv, TypeOK
<1>8. ClosedIsBlank' /\ AskedIsChecked' /\ StartsIdle'
  BY <1>1, <1>5, <1>6, DeliverFacts DEF IInv, ClosedIsBlank, AskedIsChecked, StartsIdle
<1>9. CheckedIsConfirmed' /\ AskedIsOneCategory'
  BY <1>1, <1>5, DeliverFacts DEF IInv, CheckedIsConfirmed, AskedIsOneCategory
<1>10. RunIsHeld' /\ TodoIsOfRun'
  BY <1>1, <1>5, <1>6, DeliverFacts DEF IInv, RunIsHeld, AllConfirmed, TodoIsOfRun, active
<1>11. RealIsAlone'
  BY <1>1, <1>3, DeliverFacts DEF RealIsAlone, active
<1> QED
  BY <1>7, <1>8, <1>9, <1>10, <1>11, Parts

\* Controls set while a run is under way are off, and on only without workers.
LEMMA ControlFacts ==
  ASSUME IInv, NEW c, updateControls(scanning, executing, c)
  PROVE  /\ treeOn' \in BOOLEAN /\ primaryOn' \in BOOLEAN /\ stopOn' \in BOOLEAN
         /\ active => treeOn' = FALSE /\ primaryOn' = FALSE
         /\ primaryOn' = TRUE => exec.phase = "idle" /\ scan.phase = "idle"
BY DEF updateControls, scanning, executing, active

LEMMA ScanEndedInv ==
  ASSUME IInv, onScanEnded
  PROVE  IInv'
<1>1. /\ deliver("scanFinished") \/ deliver("scanCancelled")
      /\ updateControls(scanning, executing, checked)
      /\ UNCHANGED <<page, mHasScanned, retained, rows, checked, scanStop, execStop, lastRun>>
  BY DEF onScanEnded, pageVars
<1>2. /\ page = "dialog" /\ events' \in Seq(Events) /\ (RealIn(events') => RealIn(events))
      /\ events # <<>> /\ 1 \in DOMAIN events /\ events[1].name # "executionFinished"
      /\ UNCHANGED <<confirmed, slipped, dryRun, box, scan, exec, disk, diskBefore>>
  BY <1>1, DeliverFacts
<1>3. ~RealIn(events) /\ ~(active /\ exec.dry = FALSE)
  BY <1>2, NotReal
<1>4. TypeOK'
  BY <1>1, <1>2, ControlFacts DEF IInv, TypeOK
<1>5. ClosedIsBlank' /\ AskedIsChecked' /\ CheckedIsConfirmed' /\ AskedIsOneCategory'
  BY <1>1, <1>2 DEF IInv, ClosedIsBlank, AskedIsChecked, CheckedIsConfirmed, AskedIsOneCategory
<1>6. StartsIdle'
  BY <1>1, <1>2, ControlFacts DEF IInv, StartsIdle
<1>7. RunIsHeld' /\ TodoIsOfRun'
  BY <1>1, <1>2, ControlFacts DEF IInv, RunIsHeld, AllConfirmed, TodoIsOfRun, active
<1>8. RealIsAlone'
  BY <1>1, <1>2, <1>3 DEF RealIsAlone, active
<1> QED
  BY <1>4, <1>5, <1>6, <1>7, <1>8, Parts

LEMMA FinishedInv ==
  ASSUME IInv, onExecutionFinished
  PROVE  IInv'
<1> DEFINE s == Head(events).summary
           done == IF s.dry THEN {} ELSE Succeeded(s)
<1>1. /\ deliver("executionFinished")
      /\ lastRun' = IF s.dry THEN "dry" ELSE "real"
      /\ rows' = rows \ done /\ checked' = checked \ done
      /\ updateControls(scanning, executing, checked')
      /\ IF ~s.dry THEN leaveDialog("real")
                   ELSE UNCHANGED <<page, mHasScanned, retained, scanStop, execStop>>
  BY DEF onExecutionFinished, accepted, pageVars
<1>2. Head(events) \in Events /\ s \in Summaries /\ s.dry \in BOOLEAN
  <2>1. Head(events) \in Events /\ Head(events).name = "executionFinished"
    BY <1>1, DeliverFacts
  <2>2. s \in Summaries
    BY <2>1 DEF Events
  <2> QED
    BY <2>1, <2>2 DEF Summaries
<1>3. lastRun' \in {"none", "dry", "real"} /\ checked' \subseteq rows'
      /\ rows' \subseteq rows /\ checked' \subseteq checked
  BY <1>1 DEF IInv, TypeOK
<1>4. CASE s.dry = FALSE
  <2>1. RealIn(events)
    BY <1>1, <1>4, DeliverFacts DEF RealIn
  <2>2. box = NoBox
    BY <1>1, <2>1, DeliverFacts DEF IInv, RealIsAlone
  <2>3. leaveDialog("real")
    BY <1>1, <1>4
  <2> HIDE DEF s, done
  <2> QED
    BY <1>1, <1>3, <2>2, <2>3, DeliverFacts, ControlFacts, LeaveInv
<1>5. CASE s.dry = TRUE
  <2>1. /\ rows' = rows /\ checked' = checked
        /\ UNCHANGED <<page, mHasScanned, retained, scanStop, execStop>>
    BY <1>1, <1>5
  <2>2. /\ page = "dialog" /\ events' \in Seq(Events) /\ (RealIn(events') => RealIn(events))
        /\ events # <<>> /\ 1 \in DOMAIN events /\ events[1].summary.dry # FALSE
        /\ UNCHANGED <<confirmed, slipped, dryRun, box, scan, exec, disk, diskBefore>>
    BY <1>1, <1>5, DeliverFacts
  <2>3. ~RealIn(events) /\ ~(active /\ exec.dry = FALSE)
    BY <2>2, NotReal
  <2> HIDE DEF s, done
  <2>4. TypeOK'
    BY <1>1, <1>3, <2>1, <2>2, ControlFacts DEF IInv, TypeOK
  <2>5. ClosedIsBlank' /\ AskedIsChecked' /\ CheckedIsConfirmed' /\ AskedIsOneCategory'
    BY <2>1, <2>2 DEF IInv, ClosedIsBlank, AskedIsChecked, CheckedIsConfirmed, AskedIsOneCategory
  <2>6. StartsIdle'
    BY <1>1, <2>1, <2>2, ControlFacts DEF IInv, StartsIdle
  <2>7. RunIsHeld' /\ TodoIsOfRun'
    BY <1>1, <2>1, <2>2, ControlFacts DEF IInv, RunIsHeld, AllConfirmed, TodoIsOfRun, active
  <2>8. RealIsAlone'
    BY <2>1, <2>2, <2>3 DEF RealIsAlone, active
  <2> QED
    BY <2>4, <2>5, <2>6, <2>7, <2>8, Parts
<1> QED
  BY <1>2, <1>4, <1>5

--------------------------------------------------------------------------------
(* The scanning worker. *)

\* A queue with one more signal.
LEMMA AppendFacts ==
  ASSUME events \in Seq(Events), NEW e \in Events
  PROVE  /\ Append(events, e) \in Seq(Events)
         /\ Len(Append(events, e)) = Len(events) + 1
         /\ RealIn(Append(events, e)) =>
              \/ RealIn(events)
              \/ e.name = "executionFinished" /\ e.summary.dry = FALSE
<1> DEFINE q == Append(events, e)
<1>1. q \in Seq(Events) /\ Len(q) = Len(events) + 1
  OBVIOUS
<1>2. \A n \in DOMAIN q : (n \in DOMAIN events /\ q[n] = events[n]) \/ q[n] = e
  OBVIOUS
<1> HIDE DEF q
<1>3. RealIn(q) => \/ RealIn(events)
                   \/ e.name = "executionFinished" /\ e.summary.dry = FALSE
  BY <1>2 DEF RealIn
<1> QED
  BY <1>1, <1>3 DEF q

\* A scan never runs next to a real run, and holds back every start.
LEMMA ScanStepInv ==
  ASSUME IInv, scan.phase # "idle", scan' \in Scans, scanStop' \in BOOLEAN,
         events' \in Seq(Events), RealIn(events') => RealIn(events), scanUnchanged
  PROVE  IInv'
<1>1. UNCHANGED <<page, mHasScanned, retained, rows, checked, confirmed, slipped, dryRun, treeOn,
                  primaryOn, stopOn, box, exec, execStop, lastRun, disk, diskBefore>>
  BY DEF scanUnchanged, pageVars, treeVars, controlVars, execVars
<1>2. page # "page"
  BY DEF IInv, ClosedIsBlank
<1>3. TypeOK'
  BY <1>1 DEF IInv, TypeOK
<1>4. ClosedIsBlank' /\ CheckedIsConfirmed' /\ AskedIsOneCategory' /\ AskedIsChecked' /\ StartsIdle'
  BY <1>1, <1>2 DEF IInv, ClosedIsBlank, CheckedIsConfirmed, AskedIsOneCategory, AskedIsChecked, StartsIdle
<1>5. RunIsHeld' /\ TodoIsOfRun'
  BY <1>1 DEF IInv, RunIsHeld, AllConfirmed, TodoIsOfRun, active
<1>6. RealIsAlone'
  BY <1>1 DEF IInv, RealIsAlone, active
<1> QED
  BY <1>3, <1>4, <1>5, <1>6, Parts

LEMMA ItemFoundInv ==
  ASSUME IInv, itemFound
  PROVE  IInv'
<1> DEFINE e == [name |-> "found", item |-> Head(scan.todo)]
<1>1. /\ scan.phase = "running" /\ scan.todo # <<>>
      /\ events' = Append(events, e)
      /\ scan' = [scan EXCEPT !.todo = Tail(scan.todo)]
      /\ UNCHANGED scanStop /\ scanUnchanged
  BY DEF itemFound
<1>2. scan \in Scans /\ scanStop \in BOOLEAN /\ events \in Seq(Events)
  BY DEF IInv, TypeOK
<1>3. scan.todo \in Seq(Items)
  BY <1>2 DEF Scans
<1>4. scan' \in Scans /\ Head(scan.todo) \in Items
  <2>1. Head(scan.todo) \in Items /\ Tail(scan.todo) \in Seq(Items)
    BY <1>1, <1>3
  <2>2. scan' \in Scans
    BY <1>1, <1>2, <2>1 DEF Scans
  <2> QED
    BY <2>1, <2>2
<1>5. e \in Events /\ e.name # "executionFinished"
  BY <1>4 DEF Events
<1> HIDE DEF e
<1>6. events' \in Seq(Events) /\ (RealIn(events') => RealIn(events))
  BY <1>1, <1>2, <1>5, AppendFacts
<1> QED
  BY <1>1, <1>2, <1>4, <1>6, ScanStepInv

LEMMA ScanEndsInv ==
  ASSUME IInv, scanEnds
  PROVE  IInv'
<1> DEFINE e == [name |-> IF scanStop THEN "scanCancelled" ELSE "scanFinished"]
<1>1. /\ scan.phase = "running"
      /\ events' = Append(events, e)
      /\ scan' = [NoScan EXCEPT !.phase = "sent"]
      /\ UNCHANGED scanStop /\ scanUnchanged
  BY DEF scanEnds
<1>2. scanStop \in BOOLEAN /\ events \in Seq(Events)
  BY DEF IInv, TypeOK
<1>3. NoScan \in Scans
  BY DEF NoScan, Scans
<1>4. scan' \in Scans
  BY <1>1, <1>3 DEF Scans
<1>5. e \in Events /\ e.name # "executionFinished"
  BY DEF Events
<1> HIDE DEF e
<1>6. events' \in Seq(Events) /\ (RealIn(events') => RealIn(events))
  BY <1>1, <1>2, <1>5, AppendFacts
<1> QED
  BY <1>1, <1>2, <1>4, <1>6, ScanStepInv

LEMMA ScanReturnsInv ==
  ASSUME IInv, scanReturns
  PROVE  IInv'
<1>1. /\ scan.phase = "sent" /\ scan' = NoScan /\ scanStop' = FALSE
      /\ UNCHANGED events /\ scanUnchanged
  BY DEF scanReturns
<1>2. scan' \in Scans
  BY <1>1 DEF NoScan, Scans
<1>3. events' \in Seq(Events) /\ (RealIn(events') => RealIn(events))
  BY <1>1 DEF IInv, TypeOK, RealIn
<1> QED
  BY <1>1, <1>2, <1>3, ScanStepInv

--------------------------------------------------------------------------------
(* The executing worker. *)

LEMMA ExecFacts ==
  ASSUME IInv
  PROVE  /\ exec \in Execs /\ exec.dry \in BOOLEAN /\ exec.items \in Seq(Items)
         /\ exec.todo \in Seq(Items) /\ exec.results \in Seq(Result)
         /\ ToSet(exec.items) \subseteq Items
         /\ disk \in Disks /\ execStop \in BOOLEAN /\ events \in Seq(Events)
<1>1. exec \in Execs /\ disk \in Disks /\ execStop \in BOOLEAN /\ events \in Seq(Events)
  BY DEF IInv, TypeOK
<1>2. /\ exec.dry \in BOOLEAN /\ exec.items \in Seq(Items)
      /\ exec.todo \in Seq(Items) /\ exec.results \in Seq(Result)
  BY <1>1 DEF Execs
<1> QED
  BY <1>1, <1>2, SeqFacts

\* A step inside a run changes neither its items nor anything of the dialog.
LEMMA ExecStepInv ==
  ASSUME IInv, active, active', exec' \in Execs, exec'.dry = exec.dry,
         exec'.items = exec.items, TodoIsOfRun', disk' \in Disks,
         UNCHANGED <<execStop, events>>, execUnchanged
  PROVE  IInv'
<1>1. UNCHANGED <<page, mHasScanned, retained, rows, checked, confirmed, slipped, dryRun, treeOn,
                  primaryOn, stopOn, box, scan, scanStop, lastRun, diskBefore>>
  BY DEF execUnchanged, pageVars, treeVars, controlVars, scanVars
<1>2. page # "page" /\ exec.phase # "idle"
  BY DEF IInv, ClosedIsBlank, active
<1>3. TypeOK'
  BY <1>1 DEF IInv, TypeOK
<1>4. ClosedIsBlank' /\ CheckedIsConfirmed' /\ AskedIsOneCategory' /\ AskedIsChecked' /\ StartsIdle'
  BY <1>1, <1>2 DEF IInv, ClosedIsBlank, CheckedIsConfirmed, AskedIsOneCategory, AskedIsChecked, StartsIdle
<1>5. RunIsHeld'
  BY <1>1 DEF IInv, RunIsHeld, AllConfirmed
<1>6. RealIsAlone'
  BY <1>1 DEF IInv, RealIsAlone, RealIn
<1> QED
  BY <1>3, <1>4, <1>5, <1>6, Parts

\* The batch is of the run.
LEMMA BatchFacts ==
  ASSUME IInv
  PROVE  /\ Batch \in Seq(Items) /\ ToSet(Batch) \subseteq ToSet(exec.items)
         /\ ToSet(selected(Snaps)) \subseteq ToSet(exec.items)
<1>1. ASSUME NEW S PROVE /\ selected(S) \in Seq(Items)
                        /\ ToSet(selected(S)) \subseteq ToSet(exec.items)
  <2>1. S \intersect ToSet(exec.items) \in SUBSET Items
    BY ExecFacts
  <2> QED
    BY <2>1, InOrderFacts DEF selected
<1>2. Batch \in Seq(Items) /\ ToSet(Batch) \subseteq ToSet(selected(Dirs)) \union ToSet(selected(Files))
  BY <1>1, ConcatFacts DEF Batch
<1> QED
  BY <1>1, <1>2

LEMMA BeginInv ==
  ASSUME IInv, beginExecution
  PROVE  IInv'
<1>1. /\ exec.phase = "begin"
      /\ exec' = IF ~exec.dry THEN [exec EXCEPT !.phase = "batch", !.todo = Batch]
                              ELSE [exec EXCEPT !.phase = "next", !.todo = exec.items]
      /\ UNCHANGED <<execStop, events, disk>> /\ execUnchanged
  BY DEF beginExecution, batched
<1>2. /\ exec' \in Execs /\ exec'.dry = exec.dry /\ exec'.items = exec.items
      /\ exec'.phase \in {"batch", "next"} /\ (exec'.phase = "batch" => exec.dry = FALSE)
      /\ exec'.todo \in {Batch, exec.items}
  BY <1>1, ExecFacts, BatchFacts DEF Execs
<1>3. active /\ active'
  BY <1>1, <1>2 DEF active
<1>4. TodoIsOfRun'
  BY <1>2, BatchFacts DEF TodoIsOfRun
<1> QED
  BY <1>1, <1>2, <1>3, <1>4, ExecFacts, ExecStepInv

LEMMA CleanInv ==
  ASSUME IInv, cleanFiles
  PROVE  IInv'
<1>1. /\ exec.phase = "batch" /\ exec.todo # <<>>
      /\ exec' = [exec EXCEPT !.todo = Tail(exec.todo)]
      /\ UNCHANGED <<execStop, events>> /\ execUnchanged
  BY DEF cleanFiles
<1>2. PICK left \in Outcomes(Head(exec.todo)) : disk' = [disk EXCEPT ![Head(exec.todo)] = left]
  BY DEF cleanFiles
<1>3. /\ Head(exec.todo) \in Items /\ Tail(exec.todo) \in Seq(Items)
      /\ ToSet(Tail(exec.todo)) \subseteq ToSet(exec.todo)
  BY <1>1, ExecFacts, SeqFacts
<1>4. left \in {"whole", "emptied", "gone"}
  BY <1>2, <1>3, ExecFacts DEF Outcomes, Disks
<1>5. disk' \in Disks
  BY <1>2, <1>3, <1>4, ExecFacts DEF Disks
<1>6. /\ exec' \in Execs /\ exec'.dry = exec.dry /\ exec'.items = exec.items
      /\ exec'.phase = "batch" /\ exec'.todo = Tail(exec.todo)
  BY <1>1, <1>3, ExecFacts DEF Execs
<1>7. active /\ active'
  BY <1>1, <1>6 DEF active
<1>8. TodoIsOfRun'
  BY <1>1, <1>3, <1>6, <1>7 DEF IInv, TodoIsOfRun
<1> QED
  BY <1>1, <1>5, <1>6, <1>7, <1>8, ExecStepInv

LEMMA SnapsInv ==
  ASSUME IInv, removeStaleSnapRevisions
  PROVE  IInv'
<1>1. /\ exec.phase = "batch"
      /\ exec' = [exec EXCEPT !.phase = "next", !.todo = exec.items]
      /\ UNCHANGED <<execStop, events>> /\ execUnchanged
  BY DEF removeStaleSnapRevisions
<1>2. disk' \in Disks
  BY ExecFacts DEF removeStaleSnapRevisions, Disks
<1>3. /\ exec' \in Execs /\ exec'.dry = exec.dry /\ exec'.items = exec.items
      /\ exec'.phase = "next" /\ exec'.todo = exec.items
  BY <1>1, ExecFacts DEF Execs
<1>4. active /\ active'
  BY <1>1, <1>3 DEF active
<1>5. TodoIsOfRun'
  BY <1>3 DEF TodoIsOfRun
<1> QED
  BY <1>1, <1>2, <1>3, <1>4, <1>5, ExecStepInv

LEMMA NextItemInv ==
  ASSUME IInv, nextItem
  PROVE  IInv'
<1>1. /\ exec.phase = "next" /\ exec.todo # <<>>
      /\ exec' = [exec EXCEPT !.phase = "perform"]
      /\ UNCHANGED <<execStop, events, disk>> /\ execUnchanged
  BY DEF nextItem
<1>2. /\ exec' \in Execs /\ exec'.dry = exec.dry /\ exec'.items = exec.items
      /\ exec'.phase = "perform" /\ exec'.todo = exec.todo
  BY <1>1, ExecFacts DEF Execs
<1>3. active /\ active'
  BY <1>1, <1>2 DEF active
<1>4. TodoIsOfRun'
  BY <1>1, <1>2, <1>3 DEF IInv, TodoIsOfRun
<1> QED
  BY <1>1, <1>2, <1>3, <1>4, ExecFacts, ExecStepInv

LEMMA PerformInv ==
  ASSUME IInv, performItem
  PROVE  IInv'
<1> DEFINE i == Head(exec.todo)
           r == [item |-> i, succeeded |-> reported(i)]
<1>1. /\ exec.phase = "perform"
      /\ exec' = [exec EXCEPT !.phase = "next", !.todo = Tail(exec.todo),
                     !.results = Append(exec.results, r)]
      /\ UNCHANGED <<execStop, events>> /\ execUnchanged
  BY DEF performItem
<1>2. exec.todo # <<>>
  BY <1>1 DEF IInv, TodoIsOfRun
<1>3. /\ i \in Items /\ Tail(exec.todo) \in Seq(Items)
      /\ ToSet(Tail(exec.todo)) \subseteq ToSet(exec.todo)
  BY <1>2, ExecFacts, SeqFacts
<1>4. r \in Result
  <2>1. reported(i) \in BOOLEAN
    BY DEF reported
  <2> QED
    BY <1>3, <2>1 DEF Result
<1>5. disk' \in Disks
  <2>1. CASE i \in Directs /\ ~exec.dry
    <3>1. PICK left \in Outcomes(i) : disk' = [disk EXCEPT ![i] = left]
      BY <2>1 DEF performItem
    <3>2. left \in {"whole", "emptied", "gone"}
      BY <1>3, <3>1, ExecFacts DEF Outcomes, Disks
    <3> QED
      BY <1>3, <3>1, <3>2, ExecFacts DEF Disks
  <2>2. CASE ~(i \in Directs /\ ~exec.dry)
    BY <2>2, ExecFacts DEF performItem
  <2> QED
    BY <2>1, <2>2
<1> HIDE DEF i, r
<1>6. Append(exec.results, r) \in Seq(Result)
  BY <1>4, ExecFacts
<1>7. /\ exec' \in Execs /\ exec'.dry = exec.dry /\ exec'.items = exec.items
      /\ exec'.phase = "next" /\ exec'.todo = Tail(exec.todo)
  BY <1>1, <1>3, <1>6, ExecFacts DEF Execs
<1>8. active /\ active'
  BY <1>1, <1>7 DEF active
<1>9. TodoIsOfRun'
  BY <1>1, <1>3, <1>7, <1>8 DEF IInv, TodoIsOfRun
<1> QED
  BY <1>1, <1>5, <1>7, <1>8, <1>9, ExecStepInv

LEMMA ExecEndsInv ==
  ASSUME IInv, execEnds
  PROVE  IInv'
<1> DEFINE s == [items |-> ToSet(exec.items), dry |-> exec.dry,
                 cancelled |-> exec.todo # <<>>, results |-> exec.results]
           e == [name |-> "executionFinished", summary |-> s]
<1>1. /\ exec.phase = "next" /\ events' = Append(events, e)
      /\ exec' = [NoExec EXCEPT !.phase = "sent"]
      /\ UNCHANGED <<execStop, disk>>
      /\ UNCHANGED <<page, mHasScanned, retained, rows, checked, confirmed, slipped, dryRun, treeOn,
                     primaryOn, stopOn, box, scan, scanStop, lastRun, diskBefore>>
  BY DEF execEnds, execUnchanged, pageVars, treeVars, controlVars, scanVars
<1>2. s \in Summaries
  BY ExecFacts DEF Summaries
<1>3. e \in Events /\ e.summary.dry = exec.dry
  BY <1>2 DEF Events
<1> HIDE DEF s, e
<1>4. /\ events' \in Seq(Events) /\ Len(events') = Len(events) + 1
      /\ RealIn(events') => RealIn(events) \/ exec.dry = FALSE
  BY <1>1, <1>3, ExecFacts, AppendFacts
<1>5. NoExec \in Execs
  BY DEF NoExec, Execs
<1>6. exec' \in Execs /\ exec'.phase = "sent"
  BY <1>1, <1>5 DEF Execs
<1>7. active /\ ~active' /\ page # "page"
  BY <1>1, <1>6 DEF active, IInv, ClosedIsBlank
<1>8. TypeOK'
  BY <1>1, <1>4, <1>6 DEF IInv, TypeOK
<1>9. ClosedIsBlank' /\ CheckedIsConfirmed' /\ AskedIsOneCategory' /\ AskedIsChecked'
  BY <1>1, <1>7 DEF IInv, ClosedIsBlank, CheckedIsConfirmed, AskedIsOneCategory, AskedIsChecked
<1>10. StartsIdle'
  BY <1>1 DEF IInv, StartsIdle
<1>11. RunIsHeld' /\ TodoIsOfRun'
  BY <1>6, <1>7 DEF RunIsHeld, TodoIsOfRun
<1>12. RealIsAlone'
  <2> SUFFICES ASSUME page = "dialog", RealIn(events')
               PROVE  /\ Len(events') = 1 /\ scan.phase = "idle"
                      /\ treeOn = FALSE /\ primaryOn = FALSE /\ box = NoBox
    BY <1>1, <1>7 DEF RealIsAlone
  <2>1. exec.dry = FALSE
    BY <1>4, <1>7 DEF IInv, RealIsAlone
  <2>2. events = <<>> /\ scan.phase = "idle"
    BY <1>7, <2>1 DEF IInv, RealIsAlone
  <2> QED
    BY <1>4, <1>7, <2>2 DEF IInv, RunIsHeld
<1> QED
  BY <1>8, <1>9, <1>10, <1>11, <1>12, Parts

LEMMA ExecReturnsInv ==
  ASSUME IInv, execReturns
  PROVE  IInv'
<1>1. /\ exec.phase = "sent" /\ exec' = NoExec /\ execStop' = FALSE
      /\ UNCHANGED <<events, disk>>
      /\ UNCHANGED <<page, mHasScanned, retained, rows, checked, confirmed, slipped, dryRun, treeOn,
                     primaryOn, stopOn, box, scan, scanStop, lastRun, diskBefore>>
  BY DEF execReturns, execUnchanged, pageVars, treeVars, controlVars, scanVars
<1>2. exec' \in Execs /\ exec'.phase = "idle" /\ ~active /\ ~active'
  BY <1>1 DEF NoExec, Execs, active
<1>3. TypeOK'
  BY <1>1, <1>2 DEF IInv, TypeOK
<1>4. ClosedIsBlank' /\ CheckedIsConfirmed' /\ AskedIsOneCategory' /\ AskedIsChecked' /\ StartsIdle'
  BY <1>1, <1>2 DEF IInv, ClosedIsBlank, CheckedIsConfirmed, AskedIsOneCategory, AskedIsChecked, StartsIdle
<1>5. RunIsHeld' /\ TodoIsOfRun'
  BY <1>2 DEF RunIsHeld, TodoIsOfRun
<1>6. RealIsAlone'
  BY <1>1, <1>2 DEF IInv, RealIsAlone, RealIn
<1> QED
  BY <1>3, <1>4, <1>5, <1>6, Parts

--------------------------------------------------------------------------------
(* Theorems. *)

LEMMA StepInv == IInv /\ [Next]_vars => IInv'
<1> SUFFICES ASSUME IInv, [Next]_vars PROVE IInv'
  OBVIOUS
<1>1. CASE Page
  BY <1>1, OpenInv, EndedInv, SystemScanInv DEF Page
<1>2. CASE User
  <2>1. \A i \in Items : checkItem(i) => IInv'
    BY CheckInv DEF checkItem
  <2>2. \A c \in Categories : checkCategory(c) => IInv'
    BY CheckCategoryInv
  <2>3. /\ \A i \in Items : uncheckItem(i) => IInv'
        /\ \A c \in Categories : uncheckCategory(c) => IInv'
    BY UncheckItemInv, UncheckCategoryInv
  <2> QED
    BY <1>2, <2>1, <2>2, <2>3, ToggleDryRunInv, ClickPrimaryInv, StopInv, DismissInv DEF User
<1>3. CASE Answer
  BY <1>3, AnswerRiskyInv, AnswerConfirmInv DEF Answer
<1>4. CASE Deliver
  BY <1>4, DiscoveredInv, ScanEndedInv, FinishedInv DEF Deliver
<1>5. CASE ScanWorker
  BY <1>5, ItemFoundInv, ScanEndsInv, ScanReturnsInv DEF ScanWorker
<1>6. CASE ExecWorker
  BY <1>6, BeginInv, CleanInv, SnapsInv, NextItemInv, PerformInv, ExecEndsInv, ExecReturnsInv
     DEF ExecWorker
<1>7. CASE UNCHANGED vars
  <2>1. UNCHANGED <<page, mHasScanned, retained, rows, checked, confirmed, slipped, dryRun, treeOn,
                    primaryOn, stopOn, box, scan, scanStop, exec, execStop, events, lastRun,
                    disk, diskBefore>>
    BY <1>7 DEF vars, pageVars, treeVars, controlVars, scanVars, execVars
  <2>2. TypeOK'
    BY <2>1 DEF IInv, TypeOK
  <2>3. ClosedIsBlank' /\ CheckedIsConfirmed' /\ AskedIsOneCategory' /\ AskedIsChecked' /\ StartsIdle'
    BY <2>1 DEF IInv, ClosedIsBlank, CheckedIsConfirmed, AskedIsOneCategory, AskedIsChecked, StartsIdle
  <2>4. RunIsHeld' /\ TodoIsOfRun' /\ RealIsAlone'
    BY <2>1 DEF IInv, RunIsHeld, AllConfirmed, TodoIsOfRun, RealIsAlone, RealIn, active
  <2> QED
    BY <2>2, <2>3, <2>4, Parts
<1> QED
  BY <1>1, <1>2, <1>3, <1>4, <1>5, <1>6, <1>7 DEF Next

LEMMA Invariance == Spec => []IInv
<1>1. Init => IInv
  BY InitInv
<1>2. IInv /\ [Next]_vars => IInv'
  BY StepInv
<1> QED
  BY <1>1, <1>2, PTL DEF Spec

\* Every variable stays in its set, for any items: the invariant starts from it.
THEOREM TypeCorrect == Spec => []TypeOK
<1>1. IInv => TypeOK
  BY DEF IInv
<1> QED
  BY <1>1, Invariance, PTL

\* Once the page goes on after a dialog, neither of the runner's workers is
\* left to use the provider that was the page's local variable.
THEOREM NoWorkerIsLeft == Spec => []NoWorkerOutlivesDialog
<1>1. IInv => NoWorkerOutlivesDialog
  BY DEF IInv, ClosedIsBlank, NoWorkerOutlivesDialog, scanning, executing
<1> QED
  BY <1>1, Invariance, PTL

\* The tree and the primary button are off while a run is under way, and its rows
\* are still checked: updateControlsForState() may be called for the end of a scan
\* in between, and a late row may be checked with its category.
THEOREM SelectionIsHeld == Spec => []SelectionHeldWhileExecuting
<1>1. IInv => SelectionHeldWhileExecuting
  BY DEF IInv, RunIsHeld, SelectionHeldWhileExecuting, active
<1> QED
  BY <1>1, Invariance, PTL

\* What a step removes belongs to a real run and was confirmed.
LEMMA StepRemovesConfirmed ==
  ASSUME IInv, [Next]_vars, NEW i \in Items, disk'[i] # disk[i]
  PROVE  /\ ~exec.dry /\ i \in ToSet(exec.items)
         /\ i \in Risky /\ page = "dialog" => CategoryOf(i) \in confirmed \union slipped
<1>1. cleanFiles \/ removeStaleSnapRevisions \/ performItem
  <2>1. CASE Page
    BY <2>1 DEF Page, openDialog, workersEnded, systemScan
  <2>2. CASE User
    BY <2>2 DEF User, checkItem, checkCategory, check, uncheckItem, uncheckCategory, clickUnchanged, toggleDryRun,
         clickPrimary, clickStop, dismiss
  <2>3. CASE Answer
    BY <2>3 DEF Answer, answerRisky, clickUnchanged, answerConfirm
  <2>4. CASE Deliver
    BY <2>4 DEF Deliver, onItemDiscovered, onScanEnded, onExecutionFinished, deliver
  <2>5. CASE ScanWorker
    BY <2>5 DEF ScanWorker, itemFound, scanEnds, scanReturns, scanUnchanged
  <2>6. CASE ExecWorker
    BY <2>6 DEF ExecWorker, beginExecution, nextItem, execEnds, execReturns
  <2>7. CASE UNCHANGED vars
    BY <2>7 DEF vars
  <2> QED
    BY <2>1, <2>2, <2>3, <2>4, <2>5, <2>6, <2>7 DEF Next
<1>2. active /\ ~exec.dry /\ i \in ToSet(exec.items)
  <2>1. CASE cleanFiles
    <3>1. exec.phase = "batch" /\ exec.todo # <<>>
          /\ \E left : disk' = [disk EXCEPT ![Head(exec.todo)] = left]
      BY <2>1 DEF cleanFiles
    <3>2. i = Head(exec.todo)
      BY <3>1, ExecFacts DEF Disks
    <3>3. i \in ToSet(exec.todo)
      BY <3>1, <3>2, ExecFacts, SeqFacts
    <3> QED
      BY <3>1, <3>3, ExecFacts DEF IInv, TodoIsOfRun, active
  <2>2. CASE removeStaleSnapRevisions
    <3>1. exec.phase = "batch" /\ i \in ToSet(selected(Snaps))
      BY <2>2, ExecFacts DEF removeStaleSnapRevisions, Disks
    <3> QED
      BY <3>1, BatchFacts, ExecFacts DEF IInv, TodoIsOfRun, active
  <2>3. CASE performItem
    <3>1. /\ exec.phase = "perform" /\ ~exec.dry
          /\ \E left : disk' = [disk EXCEPT ![Head(exec.todo)] = left]
      BY <2>3 DEF performItem
    <3>2. i = Head(exec.todo) /\ exec.todo # <<>>
      BY <3>1, ExecFacts DEF Disks, IInv, TodoIsOfRun
    <3>3. i \in ToSet(exec.todo)
      BY <3>2, ExecFacts, SeqFacts
    <3> QED
      BY <3>1, <3>3, ExecFacts DEF IInv, TodoIsOfRun, active
  <2> QED
    BY <1>1, <2>1, <2>2, <2>3
<1>3. ASSUME i \in Risky, page = "dialog" PROVE CategoryOf(i) \in confirmed \union slipped
  BY <1>2, <1>3 DEF IInv, RunIsHeld, AllConfirmed
<1> QED
  BY <1>2, <1>3

\* The promise of the preview: files, caches, trash and revisions go only in a
\* real run, only if they were selected when the user confirmed it, and the
\* risky ones only if the user said so for their category, whatever signals,
\* questions and clicks came in between.
THEOREM OnlyTheConfirmed == Spec => OnlyConfirmedIsDeleted
<1>1. IInv /\ [Next]_vars =>
        \A i \in Items : disk'[i] # disk[i] =>
          /\ ~exec.dry /\ i \in ToSet(exec.items)
          /\ i \in Risky /\ page = "dialog" => CategoryOf(i) \in confirmed \union slipped
  BY StepRemovesConfirmed
<1> QED
  BY <1>1, Invariance, PTL DEF Spec, OnlyConfirmedIsDeleted

--------------------------------------------------------------------------------
(* What the summaries say. *)

TrueOfPaths(results) ==
    \A r \in ToSet(results) : r.item \in Paths => (r.succeeded <=> disk[r.item] = "gone")
ReportedOrKept(items, results) ==
    \A i \in Directs \intersect items :
        (\E r \in ToSet(results) : r.item = i) \/ disk[i] = diskBefore[i]

\* The results are true while they are collected: nothing is reported before
\* all the paths are done.
RunIsTrue ==
    active =>
        /\ exec.phase \in {"begin", "batch"} => exec.results = <<>>
        /\ exec.phase = "batch" => ToSet(exec.todo) \subseteq Paths
        /\ exec.dry = FALSE => TrueOfPaths(exec.results)
        /\ ReportedOrKept(ToSet(exec.items), exec.results)

\* No real run removes anything while the summary of an earlier one is waiting,
\* in a dialog that is closing too.
RealIsLast == RealIn(events) => ~(active /\ exec.dry = FALSE)

SummaryIsTrue(e) ==
    e.name = "executionFinished" =>
        /\ e.summary.dry = FALSE => TrueOfPaths(e.summary.results)
        /\ page = "dialog" /\ e.summary.cancelled
             => ReportedOrKept(e.summary.items, e.summary.results)
QueueIsTrue == \A n \in DOMAIN events : SummaryIsTrue(events[n])

SInv == RunIsTrue /\ RealIsLast /\ QueueIsTrue

\* A step that is not of the executing worker, and posts no summary.
LEMMA QuietKeepsTrue ==
  ASSUME SInv, UNCHANGED <<exec, disk, diskBefore>>,
         page' = "dialog" => page = "dialog" \/ events' = <<>>,
         \A n \in DOMAIN events' : \/ \E m \in DOMAIN events : events'[n] = events[m]
                                  \/ events'[n].name # "executionFinished"
  PROVE  SInv'
<1>1. RunIsTrue'
  BY DEF SInv, RunIsTrue, TrueOfPaths, ReportedOrKept, active
<1>2. RealIn(events') => RealIn(events)
  BY DEF RealIn
<1>3. RealIsLast'
  BY <1>2 DEF SInv, RealIsLast, active
<1>4. ASSUME NEW n \in DOMAIN events' PROVE SummaryIsTrue(events[n])'
  <2>1. CASE events'[n].name # "executionFinished"
    BY <2>1 DEF SummaryIsTrue
  <2>2. CASE \E m \in DOMAIN events : events'[n] = events[m]
    <3>1. PICK m \in DOMAIN events : events'[n] = events[m]
      BY <2>2
    <3>2. SummaryIsTrue(events[m])
      BY DEF SInv, QueueIsTrue
    <3>3. page' = "dialog" => page = "dialog"
      BY <1>4
    <3> QED
      BY <3>1, <3>2, <3>3 DEF SummaryIsTrue, TrueOfPaths, ReportedOrKept
  <2> QED
    BY <1>4, <2>1, <2>2
<1>5. QueueIsTrue'
  BY <1>4 DEF QueueIsTrue
<1> QED
  BY <1>1, <1>3, <1>5 DEF SInv

\* Where the queue is the same, empty, or one signal shorter.
LEMMA ShorterKeepsTrue ==
  ASSUME IInv, SInv, UNCHANGED <<exec, disk, diskBefore>>,
         page' = "dialog" => page = "dialog" \/ events' = <<>>,
         events' \in {events, <<>>} \/ (events # <<>> /\ events' = Tail(events))
  PROVE  SInv'
<1>1. events \in Seq(Events)
  BY DEF IInv, TypeOK
<1>2. \A n \in DOMAIN events' : \E m \in DOMAIN events : events'[n] = events[m]
  <2>1. CASE events' = events
    BY <2>1
  <2>2. CASE events' = <<>>
    BY <2>2
  <2>3. CASE events # <<>> /\ events' = Tail(events)
    <3>1. \A n \in DOMAIN Tail(events) : n + 1 \in DOMAIN events
                                        /\ Tail(events)[n] = events[n + 1]
      BY <1>1, <2>3
    <3> QED
      BY <2>3, <3>1
  <2> QED
    BY <2>1, <2>2, <2>3
<1> QED
  BY <1>2, QuietKeepsTrue

LEMMA StartKeepsTrue ==
  ASSUME IInv, SInv, page = "dialog", NEW S, NEW dry \in BOOLEAN, startExecution(S, dry),
         dry = FALSE => events = <<>>, UNCHANGED <<page, events, disk>>
  PROVE  SInv'
<1>1. /\ exec'.phase = "begin" /\ exec'.dry = dry /\ exec'.results = <<>>
      /\ diskBefore' = disk
  BY DEF startExecution, NoExec
<1>2. \A items, results : ReportedOrKept(items, results)'
  BY <1>1 DEF ReportedOrKept
<1>3. RunIsTrue'
  BY <1>1, <1>2 DEF RunIsTrue, TrueOfPaths, ToSet
<1>4. RealIsLast'
  BY <1>1 DEF RealIsLast, RealIn
<1>5. QueueIsTrue'
  BY <1>2 DEF SInv, QueueIsTrue, SummaryIsTrue, TrueOfPaths
<1> QED
  BY <1>3, <1>4, <1>5 DEF SInv

\* A step inside a run; only a real run touches the disk.
LEMMA RunKeepsTrue ==
  ASSUME IInv, SInv, active, exec'.dry = exec.dry, disk' = disk \/ exec.dry = FALSE,
         RunIsTrue', UNCHANGED <<page, events, diskBefore>>
  PROVE  SInv'
<1>1. RealIsLast'
  BY DEF SInv, RealIsLast, RealIn
<1>2. CASE disk' = disk
  <2>1. QueueIsTrue'
    BY <1>2 DEF SInv, QueueIsTrue, SummaryIsTrue, TrueOfPaths, ReportedOrKept
  <2> QED
    BY <1>1, <2>1 DEF SInv
<1>3. CASE exec.dry = FALSE
  <2>1. ~RealIn(events) /\ (page = "dialog" => events = <<>>)
    BY <1>3 DEF IInv, SInv, RealIsLast, RealIsAlone
  <2>2. QueueIsTrue'
    BY <2>1 DEF QueueIsTrue, SummaryIsTrue, RealIn
  <2> QED
    BY <1>1, <2>2 DEF SInv
<1> QED
  BY <1>2, <1>3

LEMMA BatchIsOfPaths ==
  ASSUME IInv
  PROVE  ToSet(Batch) \subseteq Paths /\ ToSet(selected(Snaps)) \subseteq Snaps
<1>1. ASSUME NEW S PROVE /\ selected(S) \in Seq(Items) /\ ToSet(selected(S)) \subseteq S
  <2>1. S \intersect ToSet(exec.items) \in SUBSET Items
    BY ExecFacts
  <2> QED
    BY <2>1, InOrderFacts DEF selected
<1>2. ToSet(Batch) \subseteq ToSet(selected(Dirs)) \union ToSet(selected(Files))
  BY <1>1, ConcatFacts DEF Batch
<1> QED
  BY <1>1, <1>2 DEF Paths

LEMMA BatchKeepsTrue ==
  ASSUME IInv, SInv, beginExecution \/ cleanFiles \/ removeStaleSnapRevisions
  PROVE  SInv'
<1>1. UNCHANGED <<page, events, diskBefore>>
  BY DEF beginExecution, cleanFiles, removeStaleSnapRevisions, execUnchanged, pageVars
<1>2. CASE beginExecution
  <2>1. /\ exec.phase = "begin" /\ UNCHANGED disk
        /\ exec' = IF ~exec.dry THEN [exec EXCEPT !.phase = "batch", !.todo = Batch]
                                ELSE [exec EXCEPT !.phase = "next", !.todo = exec.items]
    BY <1>2 DEF beginExecution, batched
  <2>2. /\ exec'.dry = exec.dry /\ exec'.items = exec.items /\ exec'.results = exec.results
        /\ exec'.phase \in {"batch", "next"} /\ (exec'.phase = "batch" => exec'.todo = Batch)
    BY <2>1, ExecFacts DEF Execs
  <2>3. active
    BY <2>1 DEF active
  <2>4. RunIsTrue'
    BY <1>1, <2>1, <2>2, <2>3, BatchIsOfPaths
       DEF SInv, RunIsTrue, TrueOfPaths, ReportedOrKept
  <2> QED
    BY <1>1, <2>1, <2>2, <2>3, <2>4, RunKeepsTrue
<1>3. CASE cleanFiles
  <2>1. /\ exec.phase = "batch" /\ exec.todo # <<>>
        /\ exec' = [exec EXCEPT !.todo = Tail(exec.todo)]
        /\ \E left : disk' = [disk EXCEPT ![Head(exec.todo)] = left]
    BY <1>3 DEF cleanFiles
  <2>2. active /\ exec.dry = FALSE /\ exec.results = <<>> /\ ToSet(exec.todo) \subseteq Paths
    BY <2>1 DEF active, IInv, TodoIsOfRun, SInv, RunIsTrue
  <2>3. Head(exec.todo) \in Paths /\ ToSet(Tail(exec.todo)) \subseteq Paths
    BY <2>1, <2>2, ExecFacts, SeqFacts
  <2>4. \A i \in Directs : disk'[i] = disk[i]
    BY <2>1, <2>3, ExecFacts, ItemsAssumption DEF Disks, Items
  <2>5. /\ exec'.dry = exec.dry /\ exec'.items = exec.items /\ exec'.results = <<>>
        /\ exec'.todo = Tail(exec.todo)
    BY <2>1, <2>2, ExecFacts DEF Execs
  <2>6. ReportedOrKept(ToSet(exec.items), exec.results)'
    BY <1>1, <2>2, <2>4, <2>5 DEF SInv, RunIsTrue, ReportedOrKept
  <2>7. TrueOfPaths(exec.results)'
    BY <2>5 DEF TrueOfPaths, ToSet
  <2>8. RunIsTrue'
    BY <2>3, <2>5, <2>6, <2>7 DEF RunIsTrue
  <2> QED
    BY <1>1, <2>2, <2>5, <2>8, RunKeepsTrue
<1>4. CASE removeStaleSnapRevisions
  <2>1. /\ exec.phase = "batch" /\ exec' = [exec EXCEPT !.phase = "next", !.todo = exec.items]
        /\ \E removed \in SUBSET ToSet(selected(Snaps)) :
               disk' = [i \in Items |-> IF i \in removed THEN "gone" ELSE disk[i]]
    BY <1>4 DEF removeStaleSnapRevisions
  <2>2. active /\ exec.dry = FALSE /\ exec.results = <<>>
    BY <2>1 DEF active, IInv, TodoIsOfRun, SInv, RunIsTrue
  <2>3. \A i \in Directs : disk'[i] = disk[i]
    BY <2>1, BatchIsOfPaths, ItemsAssumption DEF Items
  <2>4. /\ exec'.dry = exec.dry /\ exec'.items = exec.items /\ exec'.results = <<>>
        /\ exec'.phase = "next"
    BY <2>1, <2>2, ExecFacts DEF Execs
  <2>5. ReportedOrKept(ToSet(exec.items), exec.results)'
    BY <1>1, <2>2, <2>3, <2>4 DEF SInv, RunIsTrue, ReportedOrKept
  <2>6. TrueOfPaths(exec.results)'
    BY <2>4 DEF TrueOfPaths, ToSet
  <2>7. RunIsTrue'
    BY <2>4, <2>5, <2>6 DEF RunIsTrue
  <2> QED
    BY <1>1, <2>2, <2>4, <2>7, RunKeepsTrue
<1> QED
  BY <1>2, <1>3, <1>4

LEMMA AppendedSet ==
  ASSUME NEW s \in Seq(Result), NEW r \in Result
  PROVE  ToSet(Append(s, r)) = ToSet(s) \union {r}
<1> DEFINE q == Append(s, r)
<1>1. /\ DOMAIN q = 1..(Len(s) + 1) /\ Len(s) \in Nat /\ DOMAIN s = 1..Len(s)
      /\ q[Len(s) + 1] = r /\ \A n \in 1..Len(s) : q[n] = s[n]
  OBVIOUS
<1> HIDE DEF q
<1>2. ToSet(q) \subseteq ToSet(s) \union {r}
  BY <1>1 DEF ToSet
<1>3. r \in ToSet(q) /\ ToSet(s) \subseteq ToSet(q)
  BY <1>1 DEF ToSet
<1> QED
  BY <1>2, <1>3 DEF q

\* One more item is reported, as it is found to be.
LEMMA PerformKeepsTrue ==
  ASSUME IInv, SInv, performItem
  PROVE  SInv'
<1> DEFINE i == Head(exec.todo)
           r == [item |-> i, succeeded |-> reported(i)]
<1>1. /\ exec.phase = "perform" /\ UNCHANGED <<page, events, diskBefore>>
      /\ exec' = [exec EXCEPT !.phase = "next", !.todo = Tail(exec.todo),
                     !.results = Append(exec.results, r)]
  BY DEF performItem, execUnchanged, pageVars
<1>2. active /\ exec.todo # <<>>
  BY <1>1 DEF active, IInv, TodoIsOfRun
<1>3. i \in Items
  BY <1>2, ExecFacts, SeqFacts
<1>4. \/ disk' = disk
      \/ exec.dry = FALSE /\ i \in Directs /\ \E left : disk' = [disk EXCEPT ![i] = left]
  BY DEF performItem
<1>5. r.item = i /\ (r.succeeded <=> reported(i))
  OBVIOUS
<1>6. i \in Paths /\ exec.dry = FALSE => (r.succeeded <=> disk[i] = "gone")
  BY <1>5 DEF reported
<1>7. r \in Result
  <2>1. reported(i) \in BOOLEAN
    BY DEF reported
  <2> QED
    BY <1>3, <2>1 DEF Result
<1> HIDE DEF i, r
<1>8. ToSet(Append(exec.results, r)) = ToSet(exec.results) \union {r}
  BY <1>7, ExecFacts, AppendedSet
<1>9. /\ exec'.dry = exec.dry /\ exec'.items = exec.items /\ exec'.phase = "next"
      /\ ToSet(exec'.results) = ToSet(exec.results) \union {r}
  BY <1>1, <1>8, ExecFacts DEF Execs
<1>10. /\ \A p \in Paths : disk'[p] = disk[p]
       /\ \A d \in Directs : d = i \/ disk'[d] = disk[d]
  BY <1>3, <1>4, ExecFacts, ItemsAssumption DEF Disks, Items, Paths
<1>11. ReportedOrKept(ToSet(exec.items), exec.results)'
  BY <1>1, <1>2, <1>5, <1>9, <1>10 DEF SInv, RunIsTrue, ReportedOrKept
<1>12. exec'.dry = FALSE => TrueOfPaths(exec.results)'
  BY <1>2, <1>5, <1>6, <1>9, <1>10 DEF SInv, RunIsTrue, TrueOfPaths
<1>13. RunIsTrue'
  BY <1>9, <1>11, <1>12 DEF RunIsTrue
<1> QED
  BY <1>1, <1>2, <1>4, <1>9, <1>13, RunKeepsTrue

\* The summary that is posted is what the run has collected.
LEMMA EndKeepsTrue ==
  ASSUME IInv, SInv, execEnds
  PROVE  SInv'
<1> DEFINE s == [items |-> ToSet(exec.items), dry |-> exec.dry,
                 cancelled |-> exec.todo # <<>>, results |-> exec.results]
           e == [name |-> "executionFinished", summary |-> s]
<1>1. /\ exec.phase = "next" /\ events' = Append(events, e)
      /\ exec' = [NoExec EXCEPT !.phase = "sent"] /\ UNCHANGED <<page, disk, diskBefore>>
  BY DEF execEnds, execUnchanged, pageVars
<1>2. active /\ exec'.phase = "sent"
  BY <1>1 DEF active, NoExec
<1>3. RunIsTrue' /\ RealIsLast'
  BY <1>2 DEF RunIsTrue, RealIsLast, active
<1>4. /\ exec.dry = FALSE => TrueOfPaths(exec.results)
      /\ ReportedOrKept(ToSet(exec.items), exec.results)
  BY <1>2 DEF SInv, RunIsTrue
<1>5. e.summary.dry = exec.dry /\ e.summary.results = exec.results
      /\ e.summary.items = ToSet(exec.items)
  OBVIOUS
<1> HIDE DEF s, e
<1>6. SummaryIsTrue(e)
  BY <1>4, <1>5 DEF SummaryIsTrue, TrueOfPaths, ReportedOrKept
<1>7. \A n \in DOMAIN events' : (n \in DOMAIN events /\ events'[n] = events[n]) \/ events'[n] = e
  BY <1>1, ExecFacts
<1>8. \A n \in DOMAIN events : SummaryIsTrue(events[n])
  BY DEF SInv, QueueIsTrue
<1>9. ASSUME NEW n \in DOMAIN events' PROVE SummaryIsTrue(events[n])'
  <2>1. CASE events'[n] = e
    BY <1>1, <1>6, <2>1 DEF SummaryIsTrue, TrueOfPaths, ReportedOrKept
  <2>2. CASE n \in DOMAIN events /\ events'[n] = events[n]
    BY <1>1, <1>8, <2>2 DEF SummaryIsTrue, TrueOfPaths, ReportedOrKept
  <2> QED
    BY <1>7, <1>9, <2>1, <2>2
<1> QED
  BY <1>3, <1>9 DEF SInv, QueueIsTrue

LEMMA ScanWorkerKeepsTrue ==
  ASSUME IInv, SInv, ScanWorker
  PROVE  SInv'
<1>1. UNCHANGED <<page, exec, disk, diskBefore>>
  BY DEF ScanWorker, itemFound, scanEnds, scanReturns, scanUnchanged, pageVars, execVars
<1>2. \/ events' = events
      \/ \E e : e.name # "executionFinished" /\ events' = Append(events, e)
  BY DEF ScanWorker, itemFound, scanEnds, scanReturns
<1>3. events \in Seq(Events)
  BY DEF IInv, TypeOK
<1>4. \A n \in DOMAIN events' : \/ \E m \in DOMAIN events : events'[n] = events[m]
                                \/ events'[n].name # "executionFinished"
  BY <1>2, <1>3
<1> QED
  BY <1>1, <1>4, QuietKeepsTrue

LEMMA StepKeepsTrue ==
  ASSUME IInv, SInv, [Next]_vars
  PROVE  SInv'
<1>1. CASE Page
  <2>1. CASE openDialog
    <3>1. events = <<>> /\ events' = events /\ UNCHANGED <<exec, disk, diskBefore>>
      BY <2>1 DEF openDialog, execVars, IInv, ClosedIsBlank
    <3> QED
      BY <3>1, ShorterKeepsTrue
  <2>2. CASE workersEnded
    <3>1. exec.phase = "idle" /\ events' = <<>> /\ UNCHANGED exec
      BY <2>2 DEF workersEnded, workersDone, executing
    <3> QED
      BY <3>1 DEF SInv, RunIsTrue, RealIsLast, QueueIsTrue, active
  <2>3. CASE systemScan
    BY <2>3, ShorterKeepsTrue DEF systemScan, execVars
  <2> QED
    BY <1>1, <2>1, <2>2, <2>3 DEF Page
<1>2. CASE User
  <2>1. CASE clickPrimary
    <3>1. page = "dialog" /\ UNCHANGED <<page, events, disk>>
      BY <2>1 DEF clickPrimary, dialogFree, pageVars
    <3>2. startExecution(checked, TRUE) \/ UNCHANGED <<exec, diskBefore>>
      BY <2>1 DEF clickPrimary, execVars
    <3> QED
      BY <3>1, <3>2, StartKeepsTrue, ShorterKeepsTrue
  <2>2. CASE ~clickPrimary
    <3>1. UNCHANGED <<exec, disk, diskBefore, events>>
          /\ (page' = "dialog" => page = "dialog")
      BY <1>2, <2>2 DEF User, checkItem, checkCategory, check, uncheckItem, uncheckCategory, clickUnchanged, toggleDryRun,
           clickStop, dismiss, leaveDialog, pageVars, execVars
    <3> QED
      BY <3>1, ShorterKeepsTrue
  <2> QED
    BY <2>1, <2>2
<1>3. CASE Answer
  <2>1. page = "dialog" /\ events = <<>> /\ UNCHANGED <<page, events, disk>>
    BY <1>3 DEF Answer, answerRisky, answerConfirm, answered, clickUnchanged, pageVars
  <2>2. \/ \E S : startExecution(S, FALSE)
        \/ UNCHANGED <<exec, diskBefore>>
    BY <1>3 DEF Answer, answerRisky, answerConfirm, clickUnchanged, execVars
  <2> QED
    BY <2>1, <2>2, StartKeepsTrue, ShorterKeepsTrue
<1>4. CASE Deliver
  <2>1. /\ page = "dialog" /\ events # <<>> /\ events' = Tail(events)
        /\ UNCHANGED <<exec, disk, diskBefore>>
    BY <1>4 DEF Deliver, onItemDiscovered, onScanEnded, onExecutionFinished, deliver
  <2> QED
    BY <2>1, ShorterKeepsTrue
<1>5. CASE ScanWorker
  BY <1>5, ScanWorkerKeepsTrue
<1>6. CASE ExecWorker
  <2>1. CASE nextItem
    <3>1. /\ exec.phase = "next" /\ exec' = [exec EXCEPT !.phase = "perform"]
          /\ UNCHANGED <<page, events, disk, diskBefore>>
      BY <2>1 DEF nextItem, execUnchanged, pageVars
    <3>2. /\ exec'.dry = exec.dry /\ exec'.items = exec.items
          /\ exec'.results = exec.results /\ exec'.phase = "perform" /\ active
      BY <3>1, ExecFacts DEF Execs, active
    <3>3. RunIsTrue'
      BY <3>1, <3>2 DEF SInv, RunIsTrue, TrueOfPaths, ReportedOrKept
    <3> QED
      BY <3>1, <3>2, <3>3, RunKeepsTrue
  <2>2. CASE execReturns
    <3>1. exec'.phase = "idle" /\ UNCHANGED <<page, events, disk, diskBefore>>
      BY <2>2 DEF execReturns, NoExec, execUnchanged, pageVars
    <3> QED
      BY <3>1 DEF SInv, RunIsTrue, RealIsLast, QueueIsTrue, SummaryIsTrue, TrueOfPaths,
           ReportedOrKept, active
  <2> QED
    BY <1>6, <2>1, <2>2, BatchKeepsTrue, PerformKeepsTrue, EndKeepsTrue DEF ExecWorker
<1>7. CASE UNCHANGED vars
  BY <1>7, ShorterKeepsTrue DEF vars, pageVars, execVars
<1> QED
  BY <1>1, <1>2, <1>3, <1>4, <1>5, <1>6, <1>7 DEF Next

\* What of a summary can be believed when the dialog reads it: a path is reported
\* as removed if and only if it is gone, and of trash and runtimes, what Stop left
\* out of the report was not touched.  That trash, runtimes or a snap revision
\* are reported as removed says nothing of them.
THEOREM PathsAreReported == Spec => []PathsReportedDirectsKept
<1>1. Init => SInv
  BY DEF Init, SInv, RunIsTrue, RealIsLast, QueueIsTrue, NoExec, active
<1>2. IInv /\ SInv /\ [Next]_vars => SInv'
  BY StepKeepsTrue
<1>3. IInv /\ SInv => PathsReportedDirectsKept
  <2> SUFFICES ASSUME IInv, SInv PROVE PathsReportedDirectsKept
    OBVIOUS
  <2>1. \A n \in DOMAIN events :
          events[n].name = "executionFinished" => events[n].summary.dry \in BOOLEAN
    BY DEF IInv, TypeOK, Events, Summaries
  <2>2. PathResultsAreTrue
    BY <2>1 DEF PathResultsAreTrue, SInv, QueueIsTrue, SummaryIsTrue, TrueOfPaths
  <2>3. StopKeepsItems
    BY DEF StopKeepsItems, StoppedRestIsUntouched, SInv, QueueIsTrue, SummaryIsTrue,
         ReportedOrKept
  <2> QED
    BY <2>2, <2>3 DEF PathsReportedDirectsKept
<1> QED
  BY <1>1, <1>2, <1>3, Invariance, PTL DEF Spec
================================================================================
