--------------------------- MODULE DriveHealth_proofs ---------------------------
(***************************************************************************)
(* Proofs about DriveHealth, for any list of drives and any number of      *)
(* collections and unlocks: whose data an entry of a list holds, and how   *)
(* old it is.                                                              *)
(***************************************************************************)
EXTENDS DriveHealth, FiniteSetTheorems, SequenceTheorems, TLAPS

USE DEF settings

Versions == 0..MaxWear

\* The data of an entry is that of the drive, and not from its future.
OwnEntry(list, d, wornTo) ==
    list[d].data # NoData =>
        list[d].data.of = d /\ list[d].data.version <= wornTo[d]
TrueList(list, wornTo) ==
    list \in Lists => \A d \in Drives : OwnEntry(list, d, wornTo)

\* Every list there is, also those of collections under way.
ListsTrue ==
    /\ TrueList(mDrives, smart) /\ TrueList(table, smart) /\ TrueList(dashboard, smart)
    /\ \A c \in Collectors : TrueList(collect[c].list, smart)

\* What a root shell printed is of the devices it was given, in their order.
BlockTrue(u, i) ==
    unlocks[u].blocks[i] # NoData =>
        /\ i \in DOMAIN unlocks[u].safeDevices
        /\ unlocks[u].blocks[i].of = unlocks[u].safeDevices[i]
        /\ unlocks[u].blocks[i].version <= smart[unlocks[u].safeDevices[i]]
BlocksTrue ==
    \A u \in DOMAIN unlocks : \A i \in DOMAIN unlocks[u].blocks : BlockTrue(u, i)

\* At most one collection is under way, and the flag says so.
FlagTells ==
    /\ \A c \in Collectors : collect[c].pc = "reading" => mDiskHealthRunning = TRUE
    /\ \A b, c \in Collectors :
         collect[b].pc = "reading" /\ collect[c].pc = "reading" => b = c

\* A collection has read nothing that is older than what is on the Dashboard.
NotOlder(list) ==
    dashboard \in Lists =>
        \A d \in Drives : ~Older(dashboard[d], list[d])
CollectsAhead ==
    \A c \in Collectors : collect[c].pc = "reading" => NotOlder(collect[c].list)

\* Nobody clicks on a drive, or asks about one, before the first discovery.
Discovered ==
    table \in Lists \/ dialog # {} \/ unlocks # <<>> => mDrives \in Lists

IInv ==
    TypeOK /\ ListsTrue /\ BlocksTrue /\ FlagTells /\ CollectsAhead /\ Discovered

--------------------------------------------------------------------------------
(* Constants and lists. *)

LEMMA Constants ==
    /\ Len(Listing) \in Nat
    /\ \A i \in 1..Len(Listing) : Listing[i] \in Drives
    /\ IsFiniteSet(Drives)
<1>1. Len(Listing) \in Nat
  BY ConstantsAssumption
<1>2. \A i \in 1..Len(Listing) : Listing[i] \in Drives
  BY DEF Drives
<1>3. Listing \in [1..Len(Listing) -> Drives]
  BY ConstantsAssumption, <1>2
<1>4. Listing \in Surjection(1..Len(Listing), Drives)
  BY <1>3 DEF Surjection, Drives
<1>5. IsFiniteSet(1..Len(Listing))
  BY <1>1, FS_Interval
<1> QED
  BY <1>1, <1>2, <1>4, <1>5, FS_Surjection

LEMMA InOrderTypes ==
  ASSUME NEW D \in SUBSET Drives, NEW s \in InOrder(D)
  PROVE  /\ Cardinality(D) \in Nat
         /\ s \in Seq(Drives)
         /\ DOMAIN s = 1..Cardinality(D)
         /\ \A i \in DOMAIN s : s[i] \in Drives
<1>1. Cardinality(D) \in Nat
  BY Constants, FS_Subset, FS_CardinalityType
<1>2. s \in [1..Cardinality(D) -> D]
  BY DEF InOrder
<1>3. s \in [1..Cardinality(D) -> Drives]
  BY <1>2
<1> QED
  BY <1>1, <1>3, IsASeq

LEMMA NoListIsNoList == NoList \notin Lists /\ NotShown \notin Lists
BY ConstantsAssumption

LEMMA BlankListType == BlankList \in Lists /\ \A d \in Drives : BlankList[d].data = NoData
BY DEF BlankList, Blank, Lists, Entry, Data

LEMMA SmartDataType ==
  ASSUME smart \in [Drives -> Versions], NEW d \in Drives
  PROVE  /\ SmartData(d) \in Data
         /\ SmartData(d) # NoData =>
              SmartData(d).of = d /\ SmartData(d).version = smart[d]
BY DEF SmartData, Data, Versions

\* A list that is true stays so as the drives wear.
LEMMA TrueListWears ==
  ASSUME NEW list, NEW old \in [Drives -> Versions], NEW new \in [Drives -> Versions],
         \A d \in Drives : old[d] <= new[d], TrueList(list, old)
  PROVE  TrueList(list, new)
<1> SUFFICES ASSUME list \in Lists, NEW d \in Drives, list[d].data # NoData
             PROVE  list[d].data.of = d /\ list[d].data.version <= new[d]
  BY DEF TrueList, OwnEntry
<1>1. list[d].data.version \in Versions
  BY DEF Lists, Entry, Data, Versions
<1>2. old[d] \in Nat /\ new[d] \in Nat /\ list[d].data.version \in Nat
  BY <1>1, ConstantsAssumption DEF Versions
<1>3. list[d].data.of = d /\ list[d].data.version <= old[d] /\ old[d] <= new[d]
  BY DEF TrueList, OwnEntry
<1> QED
  BY <1>2, <1>3

--------------------------------------------------------------------------------
(* The initial states, and the steps one by one. *)

LEMMA InitInv == Init => IInv
<1> SUFFICES ASSUME Init PROVE IInv
  OBVIOUS
<1>1. IdleCollection \in Collection /\ IdleCollection.list = BlankList
  BY BlankListType, Constants DEF IdleCollection, Collection
<1>2. TypeOK
  <2>1. smart \in [Drives -> 0..MaxWear]
    BY ConstantsAssumption DEF Init
  <2>2. collect \in [Collectors -> Collection]
    BY <1>1 DEF Init
  <2>3. unlocks \in Seq(UnlockWorker)
    BY DEF Init
  <2> QED
    BY <2>1, <2>2, <2>3 DEF Init, TypeOK
<1>3. ListsTrue
  BY <1>1, BlankListType, NoListIsNoList DEF Init, ListsTrue, TrueList, OwnEntry
<1>4. BlocksTrue /\ FlagTells /\ CollectsAhead /\ Discovered
  BY NoListIsNoList
     DEF Init, BlocksTrue, FlagTells, CollectsAhead, IdleCollection, Discovered
<1> QED
  BY <1>2, <1>3, <1>4 DEF IInv

LEMMA WearInv ==
  ASSUME IInv, NEW e \in Drives, wear(e)
  PROVE  IInv'
<1>1. smart \in [Drives -> Versions] /\ smart' \in [Drives -> Versions]
  BY ConstantsAssumption DEF IInv, TypeOK, wear, Versions
<1>2. \A d \in Drives : smart[d] <= smart'[d]
  BY <1>1, ConstantsAssumption DEF wear, Versions
<1>3. TypeOK'
  BY <1>1 DEF IInv, TypeOK, wear, Versions
<1>4. UNCHANGED <<mDrives, table, dashboard, collect>>
  BY DEF wear
<1>5. ListsTrue'
  <2>1. /\ TrueList(mDrives, smart') /\ TrueList(table, smart')
        /\ TrueList(dashboard, smart')
    BY <1>1, <1>2, TrueListWears DEF IInv, ListsTrue
  <2>2. \A c \in Collectors : TrueList(collect[c].list, smart')
    BY <1>1, <1>2, TrueListWears DEF IInv, ListsTrue
  <2> QED
    BY <1>4, <2>1, <2>2 DEF ListsTrue
<1>6. BlocksTrue'
  <2> SUFFICES ASSUME NEW u \in DOMAIN unlocks, NEW i \in DOMAIN unlocks[u].blocks,
                      unlocks[u].blocks[i] # NoData
               PROVE  BlockTrue(u, i)'
    BY DEF BlocksTrue, BlockTrue, wear
  <2>1. unlocks[u] \in UnlockWorker
    BY DEF IInv, TypeOK
  <2>2. BlockTrue(u, i)
    BY DEF IInv, BlocksTrue
  <2>3. /\ i \in DOMAIN unlocks[u].safeDevices
        /\ unlocks[u].safeDevices[i] \in Drives
        /\ unlocks[u].blocks[i] \in Data
    BY <2>1, <2>2 DEF BlockTrue, UnlockWorker
  <2>4. unlocks[u].blocks[i].version \in Nat
    BY <2>3, ConstantsAssumption DEF Data
  <2>5. smart[unlocks[u].safeDevices[i]] <= smart'[unlocks[u].safeDevices[i]]
    BY <1>2, <2>3
  <2>6. /\ smart[unlocks[u].safeDevices[i]] \in Nat
        /\ smart'[unlocks[u].safeDevices[i]] \in Nat
    BY <1>1, <2>3, ConstantsAssumption DEF Versions
  <2> QED
    BY <2>2, <2>3, <2>4, <2>5, <2>6 DEF BlockTrue, wear
<1>7. FlagTells' /\ CollectsAhead' /\ Discovered'
  BY DEF IInv, FlagTells, CollectsAhead, NotOlder, Older, Discovered, wear
<1> QED
  BY <1>3, <1>5, <1>6, <1>7 DEF IInv

\* Whatever leaves the unlocks and the wear alone, leaves their blocks alone.
LEMMA BlocksFrame ==
  BlocksTrue /\ UNCHANGED <<smart, unlocks>> => BlocksTrue'
BY DEF BlocksTrue, BlockTrue

LEMMA BlankListTrue == TrueList(BlankList, smart)
BY BlankListType DEF TrueList, OwnEntry

LEMMA StartInv ==
  ASSUME IInv, NEW c \in Collectors, startCollection(c)
  PROVE  IInv'
<1> DEFINE fresh == [IdleCollection EXCEPT !.pc = "reading"]
<1>1. fresh \in Collection /\ fresh.list = BlankList /\ fresh.pc = "reading"
  BY BlankListType, Constants DEF IdleCollection, Collection
<1>2. collect' = [collect EXCEPT ![c] = fresh] /\ collect \in [Collectors -> Collection]
  BY DEF startCollection, IInv, TypeOK
<1>3. UNCHANGED <<smart, granted, settings, mDrives, unlocks, dialog, table, dashboard, alertShown>>
  BY DEF startCollection
<1> HIDE DEF fresh
<1>4. TypeOK'
  BY <1>1, <1>2 DEF IInv, TypeOK, startCollection
<1>5. ListsTrue'
  BY <1>1, <1>2, <1>3, BlankListTrue DEF IInv, ListsTrue
<1>6. BlocksTrue'
  BY <1>3, BlocksFrame DEF IInv
<1>7. FlagTells'
  <2>1. \A b \in Collectors : collect[b].pc # "reading"
    BY DEF startCollection, MayCollect, IInv, FlagTells
  <2> QED
    BY <1>2, <2>1 DEF FlagTells, startCollection
<1>8. CollectsAhead'
  <2>1. NotOlder(BlankList)
    BY BlankListType DEF NotOlder, Older
  <2>2. \A b \in Collectors : collect[b].pc # "reading"
    BY DEF startCollection, MayCollect, IInv, FlagTells
  <2> QED
    BY <1>1, <1>2, <1>3, <2>1, <2>2 DEF CollectsAhead, NotOlder, Older
<1> QED
  BY <1>3, <1>4, <1>5, <1>6, <1>7, <1>8 DEF IInv, Discovered

LEMMA PrintedType ==
  ASSUME smart \in [Drives -> Versions], NEW d \in Drives, NEW opened \in BOOLEAN,
         NEW data \in Printed(d, opened)
  PROVE  /\ data \in Data
         /\ data # NoData => data.of = d /\ data.version = smart[d]
<1>1. NoData \in Data
  BY DEF Data
<1>2. data \in {NoData, SmartData(d)}
  BY DEF Printed
<1> QED
  BY <1>1, <1>2, SmartDataType

LEMMA CollectedEntryType ==
  ASSUME TypeOK, NEW d \in Drives, NEW entry \in CollectedEntries(d)
  PROVE  /\ entry \in Entry
         /\ entry.data # NoData => entry.data.of = d /\ entry.data.version = smart[d]
<1>1. /\ smart \in [Drives -> Versions]
      /\ HasSmartctl \in BOOLEAN
  BY ConstantsAssumption DEF TypeOK, Versions
<1>2. CASE ~HasSmartctl
  <2>1. entry = Blank
    BY <1>2 DEF CollectedEntries
  <2> QED
    BY <2>1 DEF Blank, Entry, Data
<1>3. CASE HasSmartctl
  <2> DEFINE opened == granted /\ d \notin Unopened
  <2>0. opened \in BOOLEAN
    BY DEF TypeOK
  <2>1. PICK data \in Printed(d, opened) : entry = [locked |-> ~opened, data |-> data]
    BY <1>3 DEF CollectedEntries
  <2> HIDE DEF opened
  <2>2. data \in Data /\ (data # NoData => data.of = d /\ data.version = smart[d])
    BY <1>1, <2>0, PrintedType
  <2> QED
    BY <2>0, <2>1, <2>2 DEF Entry
<1> QED
  BY <1>1, <1>2, <1>3

LEMMA CollectDriveInv ==
  ASSUME IInv, NEW c \in Collectors, collectDrive(c)
  PROVE  IInv'
<1> DEFINE e == Listing[collect[c].next]
<1>0. PICK entry \in CollectedEntries(e) :
        collect' = [collect EXCEPT
          ![c] = [pc |-> "reading", next |-> collect[c].next + 1,
                  list |-> [collect[c].list EXCEPT ![e] = entry]]]
  BY DEF collectDrive
<1> DEFINE grown == [collect[c].list EXCEPT ![e] = entry]
           now == [pc |-> "reading", next |-> collect[c].next + 1, list |-> grown]
<1>1. collect[c] \in Collection /\ collect[c].pc = "reading"
  BY DEF IInv, TypeOK, collectDrive
<1>2. collect[c].next \in 1..Len(Listing) /\ e \in Drives
  BY <1>1, Constants DEF collectDrive, Collection
<1>3. collect[c].list \in Lists /\ grown \in Lists
  BY <1>1, <1>2, CollectedEntryType DEF IInv, Lists, Collection
<1>4. now \in Collection /\ now.list = grown /\ now.pc = "reading"
  BY <1>2, <1>3, Constants DEF Collection
<1>5. collect' = [collect EXCEPT ![c] = now] /\ collect \in [Collectors -> Collection]
  BY <1>0 DEF IInv, TypeOK
<1>6. UNCHANGED <<smart, granted, settings, mDrives, mDiskHealthRunning, unlocks, dialog, table,
                  dashboard, alertShown>>
  BY DEF collectDrive
<1>7. \A d \in Drives : grown[d] = IF d = e THEN entry ELSE collect[c].list[d]
  BY <1>3 DEF Lists
<1> HIDE DEF grown, now, e
<1>8. smart \in [Drives -> Versions] /\ smart[e] \in Nat
  BY <1>2, ConstantsAssumption DEF IInv, TypeOK, Versions
<1>9. TypeOK'
  BY <1>4, <1>5, <1>6 DEF IInv, TypeOK
<1>10. ListsTrue'
  <2>1. TrueList(grown, smart)
    <3>1. TrueList(collect[c].list, smart)
      BY DEF IInv, ListsTrue
    <3>2. OwnEntry(grown, e, smart)
      BY <1>2, <1>7, <1>8, CollectedEntryType DEF IInv, OwnEntry
    <3> QED
      BY <1>3, <1>7, <3>1, <3>2 DEF TrueList, OwnEntry
  <2> QED
    BY <1>4, <1>5, <1>6, <2>1 DEF IInv, ListsTrue
<1>11. BlocksTrue'
  BY <1>6, BlocksFrame DEF IInv
<1>12. FlagTells'
  BY <1>1, <1>4, <1>5, <1>6 DEF IInv, FlagTells
<1>13. CollectsAhead'
  <2>1. NotOlder(grown)
    <3> SUFFICES ASSUME dashboard \in Lists, NEW d \in Drives, Older(dashboard[d], grown[d])
                 PROVE  FALSE
      BY DEF NotOlder
    <3>1. ~Older(dashboard[d], collect[c].list[d])
      BY <1>1 DEF IInv, CollectsAhead, NotOlder
    <3>2. d = e /\ grown[d] = entry
      BY <1>7, <3>1
    <3>3. dashboard[d].data \in Data /\ OwnEntry(dashboard, d, smart)
      BY DEF IInv, ListsTrue, TrueList, Lists, Entry
    <3>4. dashboard[d].data # NoData /\ dashboard[d].data.version \in Nat
      BY <3>3, ConstantsAssumption DEF Older, Data
    <3> QED
      BY <1>2, <1>8, <3>2, <3>3, <3>4, CollectedEntryType DEF IInv, Older, OwnEntry
  <2> QED
    BY <1>4, <1>5, <1>6, <2>1 DEF IInv, CollectsAhead, NotOlder, Older
<1> QED
  BY <1>6, <1>9, <1>10, <1>11, <1>12, <1>13 DEF IInv, Discovered

LEMMA PublishInv ==
  ASSUME IInv, NEW c \in Collectors, publish(c)
  PROVE  IInv' /\ ~ListGoesBack
<1> DEFINE list == collect[c].list
<1>1. collect[c] \in Collection /\ collect[c].pc = "reading"
  BY DEF IInv, TypeOK, publish
<1>2. list \in Lists /\ TrueList(list, smart) /\ NotOlder(list)
  BY <1>1 DEF IInv, Collection, ListsTrue, CollectsAhead
<1>3. mDrives' = list /\ dashboard' = list /\ mDiskHealthRunning' = FALSE
  BY DEF publish, RunningAfterPublish
<1>4. UNCHANGED <<smart, granted, settings, unlocks, dialog, table>>
  BY DEF publish
<1>5. alertShown' \in BOOLEAN
  BY DEF publish, AnyBad, IInv, TypeOK
<1>6. IdleCollection \in Collection /\ IdleCollection.pc = "idle"
      /\ IdleCollection.list = BlankList
  BY BlankListType, Constants DEF IdleCollection, Collection
<1>7. collect' = [collect EXCEPT ![c] = IdleCollection]
      /\ collect \in [Collectors -> Collection]
  BY DEF publish, IInv, TypeOK
<1> HIDE DEF list
<1>8. TypeOK'
  BY <1>2, <1>3, <1>4, <1>5, <1>6, <1>7 DEF IInv, TypeOK
<1>9. ListsTrue'
  BY <1>2, <1>3, <1>4, <1>6, <1>7, BlankListTrue DEF IInv, ListsTrue
<1>10. BlocksTrue'
  BY <1>4, BlocksFrame DEF IInv
<1>11. \A b \in Collectors : collect'[b].pc # "reading"
  BY <1>1, <1>6, <1>7 DEF IInv, FlagTells
<1>12. FlagTells' /\ CollectsAhead'
  BY <1>11 DEF FlagTells, CollectsAhead
<1>13. ~ListGoesBack
  BY <1>2, <1>3, NoListIsNoList DEF IInv, TypeOK, ListGoesBack, NotOlder
<1> QED
  BY <1>2, <1>3, <1>8, <1>9, <1>10, <1>12, <1>13 DEF IInv, Discovered

\* The steps of the user touch neither the data nor the collections.
LEMMA UserFrame ==
  ASSUME IInv, TypeOK', BlocksTrue', TrueList(table', smart), Discovered',
         UNCHANGED <<smart, mDrives, mDiskHealthRunning, collect, dashboard>>
  PROVE  IInv'
<1>1. ListsTrue'
  BY DEF IInv, ListsTrue
<1>2. FlagTells' /\ CollectsAhead'
  BY DEF IInv, FlagTells, CollectsAhead, NotOlder, Older
<1> QED
  BY <1>1, <1>2 DEF IInv

LEMMA PopulateInv ==
  ASSUME IInv, populateStorage
  PROVE  IInv'
<1>1. UNCHANGED <<smart, granted, settings, mDrives, mDiskHealthRunning, collect, unlocks, dialog,
                  dashboard, alertShown>> /\ table' = mDrives
  BY DEF populateStorage
<1>2. TypeOK'
  BY <1>1 DEF IInv, TypeOK
<1>3. BlocksTrue'
  BY <1>1, BlocksFrame DEF IInv
<1>4. TrueList(table', smart) /\ Discovered'
  BY <1>1 DEF IInv, ListsTrue, Discovered
<1> QED
  BY <1>1, <1>2, <1>3, <1>4, UserFrame

\* An unlock that has just been started has read nothing.
LEMMA StartUnlock ==
  ASSUME IInv, NEW D \in SUBSET Drives, NEW batch \in BOOLEAN, NEW setcap \in BOOLEAN,
         unlocks' = Append(unlocks, Unlock("prompt", D, batch, setcap)), smart' = smart
  PROVE  unlocks' \in Seq(UnlockWorker) /\ BlocksTrue'
<1> DEFINE new == Unlock("prompt", D, batch, setcap)
<1>1. new \in UnlockWorker /\ DOMAIN new.blocks = {}
  BY DEF Unlock, UnlockWorker
<1>2. unlocks \in Seq(UnlockWorker) /\ unlocks' = Append(unlocks, new)
  BY DEF IInv, TypeOK
<1> HIDE DEF new
<1>3. unlocks' \in Seq(UnlockWorker)
  BY <1>1, <1>2
<1>4. \A u \in DOMAIN unlocks' : \/ u \in DOMAIN unlocks /\ unlocks'[u] = unlocks[u]
                                \/ unlocks'[u] = new
  BY <1>1, <1>2
<1>5. BlocksTrue'
  BY <1>1, <1>4 DEF IInv, BlocksTrue, BlockTrue
<1> QED
  BY <1>3, <1>5

LEMMA UnlockOneInv ==
  ASSUME IInv, NEW d \in Drives, onUnlockSmartDrive(d)
  PROVE  IInv'
<1>1. UNCHANGED <<smart, granted, settings, mDrives, mDiskHealthRunning, collect, dialog, table,
                  dashboard, alertShown>>
  BY DEF onUnlockSmartDrive
<1>2. unlocks' \in Seq(UnlockWorker) /\ BlocksTrue'
  BY <1>1, StartUnlock DEF onUnlockSmartDrive
<1>3. TypeOK'
  BY <1>1, <1>2 DEF IInv, TypeOK
<1>4. TrueList(table', smart) /\ Discovered'
  BY <1>1 DEF IInv, ListsTrue, Discovered, onUnlockSmartDrive, MayClick
<1> QED
  BY <1>1, <1>2, <1>3, <1>4, UserFrame

LEMMA DialogInv ==
  ASSUME IInv,
         \/ onUnlockAllDrives
         \/ \E makePermanent \in BOOLEAN : dialogAccepted(makePermanent)
         \/ dialogRejected
  PROVE  IInv'
<1>1. UNCHANGED <<smart, granted, settings, mDrives, mDiskHealthRunning, collect, table,
                  dashboard, alertShown>>
  BY DEF onUnlockAllDrives, dialogAccepted, dialogRejected
<1>2. dialog' \subseteq Drives
  BY DEF onUnlockAllDrives, dialogAccepted, dialogRejected, LockedDevices
<1>3. unlocks' \in Seq(UnlockWorker) /\ BlocksTrue'
  <2>1. CASE onUnlockAllDrives \/ dialogRejected
    BY <2>1, BlocksFrame DEF IInv, TypeOK, onUnlockAllDrives, dialogRejected
  <2>2. CASE \E makePermanent \in BOOLEAN : dialogAccepted(makePermanent)
    BY <2>2, <1>1, StartUnlock DEF IInv, TypeOK, dialogAccepted
  <2> QED
    BY <2>1, <2>2
<1>4. TypeOK'
  BY <1>1, <1>2, <1>3 DEF IInv, TypeOK
<1>5. TrueList(table', smart) /\ Discovered'
  BY <1>1 DEF IInv, ListsTrue, Discovered, onUnlockAllDrives, MayClick, dialogAccepted,
              dialogRejected
<1> QED
  BY <1>1, <1>3, <1>4, <1>5, UserFrame

\* The timer and the alert setting.
LEMMA SettingsInv ==
  ASSUME IInv, slowTimer \/ setDiskHealthAlertEnabled
  PROVE  IInv'
<1>1. /\ UNCHANGED <<smart, granted, mDrives, mDiskHealthRunning, collect, unlocks, dialog,
                     table, dashboard, alertShown>>
      /\ polling' \in BOOLEAN /\ alertsOn' \in BOOLEAN
  BY DEF slowTimer, setDiskHealthAlertEnabled, IInv, TypeOK
<1>2. TypeOK'
  BY <1>1 DEF IInv, TypeOK
<1>3. BlocksTrue' /\ TrueList(table', smart) /\ Discovered'
  BY <1>1, BlocksFrame DEF IInv, ListsTrue, Discovered
<1> QED
  BY <1>1, <1>2, <1>3, UserFrame

\* What the root shell prints is what the devices it was given report now.
LEMMA PkexecInv ==
  ASSUME IInv, NEW u \in DOMAIN unlocks, pkexecReturns(u)
  PROVE  IInv'
<1>1. UNCHANGED <<smart, settings, mDrives, mDiskHealthRunning, collect, dialog,
                  table, dashboard, alertShown>>
  BY DEF pkexecReturns
<1>2. unlocks \in Seq(UnlockWorker) /\ unlocks[u] \in UnlockWorker
      /\ SafeAmong(u) \in SUBSET Drives
  <2>1. unlocks \in Seq(UnlockWorker) /\ unlocks[u] \in UnlockWorker
    BY DEF IInv, TypeOK
  <2>2. unlocks[u].devices \in SUBSET Drives
    BY <2>1 DEF UnlockWorker
  <2> QED
    BY <2>1, <2>2 DEF SafeAmong
<1>3. granted' \in BOOLEAN
  BY DEF IInv, TypeOK, pkexecReturns, GrantedAfter
<1>4. PICK safe \in InOrder(SafeAmong(u)), k \in 0..Cardinality(SafeAmong(u)) :
        \E blocks \in BlocksOf(safe, k) :
          unlocks' = [unlocks EXCEPT
            ![u].pc = IF k = 0 THEN "finished" ELSE "merging",
            ![u].safeDevices = safe,
            ![u].blocks = blocks]
  BY DEF pkexecReturns
<1>41. PICK blocks \in BlocksOf(safe, k) :
         unlocks' = [unlocks EXCEPT
           ![u].pc = IF k = 0 THEN "finished" ELSE "merging",
           ![u].safeDevices = safe,
           ![u].blocks = blocks]
  BY <1>4
<1>42. /\ blocks \in [1..k -> Data]
       /\ \A i \in 1..k :
            blocks[i] \in Printed(safe[i], safe[i] \notin Unopened)
  BY DEF BlocksOf
<1> DEFINE now == [unlocks[u] EXCEPT !.pc = IF k = 0 THEN "finished" ELSE "merging",
                                     !.safeDevices = safe, !.blocks = blocks]
<1>5. /\ Cardinality(SafeAmong(u)) \in Nat /\ k \in Nat
      /\ safe \in Seq(Drives)
      /\ \A i \in 1..k : i \in DOMAIN safe /\ safe[i] \in Drives
  <2>1. /\ Cardinality(SafeAmong(u)) \in Nat
        /\ safe \in Seq(Drives)
        /\ DOMAIN safe = 1..Cardinality(SafeAmong(u))
        /\ \A i \in DOMAIN safe : safe[i] \in Drives
    BY <1>2, InOrderTypes
  <2> QED
    BY <2>1
<1>6. smart \in [Drives -> Versions]
  BY DEF IInv, TypeOK, Versions
<1>7. blocks \in Seq(Data)
  BY <1>5, <1>42, IsASeq
<1>8. now \in UnlockWorker
  BY <1>2, <1>5, <1>7 DEF UnlockWorker
<1>9. /\ now.blocks = blocks /\ now.safeDevices = safe
      /\ unlocks' = [unlocks EXCEPT ![u] = now]
  BY <1>2, <1>41 DEF UnlockWorker
<1>10. \A i \in DOMAIN blocks : blocks[i] # NoData =>
         /\ i \in DOMAIN safe
         /\ blocks[i].of = safe[i] /\ blocks[i].version <= smart[safe[i]]
  <2> SUFFICES ASSUME NEW i \in 1..k, blocks[i] # NoData
               PROVE  /\ blocks[i].of = safe[i]
                      /\ blocks[i].version <= smart[safe[i]]
    BY <1>5, <1>42
  <2>1. smart[safe[i]] \in Nat /\ safe[i] \in Drives
    BY <1>5, <1>6, ConstantsAssumption DEF Versions
  <2>2. /\ (safe[i] \notin Unopened) \in BOOLEAN
        /\ blocks[i] \in Printed(safe[i], safe[i] \notin Unopened)
    BY <1>42
  <2>3. blocks[i].of = safe[i] /\ blocks[i].version = smart[safe[i]]
    BY <1>6, <2>1, <2>2, PrintedType
  <2> QED
    BY <2>1, <2>3
<1> HIDE DEF now
<1>11. TypeOK'
  BY <1>1, <1>2, <1>3, <1>8, <1>9 DEF IInv, TypeOK
<1>12. BlocksTrue'
  BY <1>1, <1>2, <1>9, <1>10 DEF IInv, BlocksTrue, BlockTrue
<1>13. TrueList(table', smart) /\ Discovered'
  BY <1>1, <1>2 DEF IInv, ListsTrue, Discovered
<1> QED
  BY <1>1, <1>11, <1>12, <1>13, UserFrame

\* An unlock goes on without touching what it has read, or is gone.
Moves(now, old) ==
    /\ now \in UnlockWorker
    /\ \/ now.blocks = <<>>
       \/ now.blocks = old.blocks /\ now.safeDevices = old.safeDevices

UnlockMoved ==
    /\ unlocks # <<>>
    /\ unlocks' \in Seq(UnlockWorker)
    /\ DOMAIN unlocks' = DOMAIN unlocks
    /\ \A v \in DOMAIN unlocks : Moves(unlocks'[v], unlocks[v])

LEMMA UnlockMoves ==
  ASSUME IInv, NEW u \in DOMAIN unlocks, NEW now,
         Moves(now, unlocks[u]), unlocks' = [unlocks EXCEPT ![u] = now]
  PROVE  UnlockMoved
<1>1. unlocks \in Seq(UnlockWorker) /\ \A v \in DOMAIN unlocks : unlocks[v] \in UnlockWorker
  BY DEF IInv, TypeOK
<1>2. now \in UnlockWorker
  BY DEF Moves
<1>3. \A v \in DOMAIN unlocks : Moves(unlocks'[v], unlocks[v])
  BY <1>1 DEF Moves
<1> QED
  BY <1>1, <1>2, <1>3 DEF UnlockMoved

\* A block goes to the entry of the device it is of.
LEMMA MergedIsOwn ==
  ASSUME IInv, NEW u \in DOMAIN unlocks, NEW d \in Drives, NEW i \in BlocksFor(u, d)
  PROVE  LET entry == MergedEntry(mDrives[d], unlocks[u].blocks[i])
         IN  /\ entry \in Entry
             /\ entry.data # NoData =>
                  entry.data.of = d /\ entry.data.version <= smart[d]
<1> DEFINE block == unlocks[u].blocks[i]
           old == mDrives[d]
           entry == MergedEntry(old, block)
<1>1. unlocks[u] \in UnlockWorker /\ BlockTrue(u, i)
      /\ i \in DOMAIN unlocks[u].blocks /\ unlocks[u].safeDevices[i] = d
  BY DEF IInv, TypeOK, BlocksTrue, BlocksFor, MergeTargets
<1>2. block \in Data /\ old \in Entry /\ mDrives \in Lists
  BY <1>1 DEF UnlockWorker, Lists, IInv, TypeOK, Discovered
<1>3. old.data # NoData => old.data.of = d /\ old.data.version <= smart[d]
  BY <1>2 DEF IInv, ListsTrue, TrueList, OwnEntry
<1>4. block # NoData => block.of = d /\ block.version <= smart[d]
  BY <1>1 DEF BlockTrue
<1>5. entry \in Entry
  BY <1>2 DEF MergedEntry, Entry
<1>6. entry.data = IF block = NoData THEN old.data ELSE block
  BY DEF MergedEntry
<1> HIDE DEF entry, block, old
<1>7. entry.data # NoData => entry.data.of = d /\ entry.data.version <= smart[d]
  BY <1>3, <1>4, <1>6
<1> QED
  BY <1>5, <1>7 DEF entry, block, old

LEMMA MergeInv ==
  ASSUME IInv, NEW u \in DOMAIN unlocks, mergeUnlocked(u)
  PROVE  IInv'
<1> DEFINE first(d) == CHOOSE i \in BlocksFor(u, d) : TRUE
           merged(d) == IF BlocksFor(u, d) = {} THEN mDrives[d]
                        ELSE MergedEntry(mDrives[d], unlocks[u].blocks[first(d)])
<1>1. UNCHANGED <<smart, granted, settings, mDiskHealthRunning, collect, dialog, table, dashboard,
                  alertShown>> /\ mDrives' = [d \in Drives |-> merged(d)]
  BY DEF mergeUnlocked
<1>2. mDrives \in Lists
  BY DEF IInv, TypeOK, Discovered
<1>3. ASSUME NEW d \in Drives
      PROVE  /\ merged(d) \in Entry
             /\ merged(d).data # NoData =>
                  merged(d).data.of = d /\ merged(d).data.version <= smart[d]
  <2>1. CASE BlocksFor(u, d) = {}
    <3>1. merged(d) = mDrives[d]
      BY <2>1
    <3>2. OwnEntry(mDrives, d, smart) /\ mDrives[d] \in Entry
      BY <1>2 DEF IInv, ListsTrue, TrueList, Lists
    <3> QED
      BY <3>1, <3>2 DEF OwnEntry
  <2>2. CASE BlocksFor(u, d) # {}
    <3>1. first(d) \in BlocksFor(u, d)
      BY <2>2
    <3>2. merged(d) = MergedEntry(mDrives[d], unlocks[u].blocks[first(d)])
      BY <2>2
    <3> HIDE DEF first, merged
    <3> QED
      BY <3>1, <3>2, MergedIsOwn
  <2> QED
    BY <2>1, <2>2
<1> HIDE DEF first, merged
<1>5. mDrives' \in Lists
  BY <1>1, <1>3 DEF Lists
<1>6. TrueList(mDrives', smart)
  BY <1>1, <1>3 DEF TrueList, OwnEntry
<1>7. UnlockMoved
  <2> DEFINE now == [unlocks[u] EXCEPT !.pc = "finished"]
  <2>1. unlocks[u] \in UnlockWorker
    BY DEF IInv, TypeOK
  <2>2. Moves(now, unlocks[u])
    BY <2>1 DEF Moves, UnlockWorker
  <2>3. unlocks' = [unlocks EXCEPT ![u] = now]
    BY DEF mergeUnlocked
  <2> QED
    BY <2>2, <2>3, UnlockMoves
<1>8. TypeOK'
  BY <1>1, <1>5, <1>7 DEF IInv, TypeOK, UnlockMoved
<1>9. ListsTrue'
  BY <1>1, <1>6 DEF IInv, ListsTrue
<1>10. BlocksTrue'
  <2> SUFFICES ASSUME NEW v \in DOMAIN unlocks, NEW i \in DOMAIN unlocks'[v].blocks
               PROVE  BlockTrue(v, i)'
    BY <1>7 DEF BlocksTrue, UnlockMoved
  <2>1. /\ unlocks'[v].blocks = unlocks[v].blocks
        /\ unlocks'[v].safeDevices = unlocks[v].safeDevices
    BY <1>7 DEF UnlockMoved, Moves
  <2>2. BlockTrue(v, i)
    BY <2>1 DEF IInv, BlocksTrue
  <2> QED
    BY <1>1, <2>1, <2>2 DEF BlockTrue
<1>11. FlagTells' /\ CollectsAhead' /\ Discovered'
  BY <1>1, <1>5 DEF IInv, FlagTells, CollectsAhead, NotOlder, Older, Discovered
<1> QED
  BY <1>8, <1>9, <1>10, <1>11 DEF IInv

LEMMA FinishedInv ==
  ASSUME IInv, NEW u \in DOMAIN unlocks, unlockFinished(u)
  PROVE  IInv'
<1>1. UNCHANGED <<smart, granted, settings, mDrives, mDiskHealthRunning, collect, dialog,
                  dashboard, alertShown>> /\ table' \in {mDrives, table}
  BY DEF unlockFinished
<1>2. UnlockMoved
  <2>1. Moves(Ended, unlocks[u])
    BY DEF Moves, Ended, Unlock, UnlockWorker
  <2> QED
    BY <2>1, UnlockMoves DEF unlockFinished
<1>3. TypeOK'
  BY <1>1, <1>2 DEF IInv, TypeOK, UnlockMoved
<1>4. BlocksTrue'
  <2> SUFFICES ASSUME NEW v \in DOMAIN unlocks, NEW i \in DOMAIN unlocks'[v].blocks
               PROVE  BlockTrue(v, i)'
    BY <1>2 DEF BlocksTrue, UnlockMoved
  <2>1. /\ unlocks'[v].blocks = unlocks[v].blocks
        /\ unlocks'[v].safeDevices = unlocks[v].safeDevices
    BY <1>2 DEF UnlockMoved, Moves
  <2>2. BlockTrue(v, i)
    BY <2>1 DEF IInv, BlocksTrue
  <2> QED
    BY <1>1, <2>1, <2>2 DEF BlockTrue
<1>5. TrueList(table', smart) /\ Discovered'
  BY <1>1, <1>2 DEF IInv, ListsTrue, Discovered
<1> QED
  BY <1>1, <1>3, <1>4, <1>5, UserFrame

--------------------------------------------------------------------------------
(* The theorems. *)

LEMMA NextInv ==
  ASSUME IInv, [Next]_vars
  PROVE  IInv' /\ ~ListGoesBack
<1>1. \A u, v \in Versions : ~(u < u)
  BY ConstantsAssumption DEF Versions
<1>2. ASSUME dashboard' = dashboard PROVE ~ListGoesBack
  <2> SUFFICES ASSUME NEW d \in Drives, dashboard \in Lists,
                      Older(dashboard[d], dashboard[d])
               PROVE  FALSE
    BY <1>2 DEF IInv, TypeOK, ListGoesBack
  <2>1. dashboard[d].data \in Data /\ dashboard[d].data # NoData
    BY DEF Older, Lists, Entry
  <2>2. dashboard[d].data.version \in Versions
    BY <2>1 DEF Data, Versions
  <2> QED
    BY <1>1, <2>2 DEF Older
<1>3. CASE UNCHANGED vars
  <2>1. UNCHANGED <<smart, granted, settings, mDrives, mDiskHealthRunning, collect, unlocks,
                    dialog, table, dashboard, alertShown>>
    BY <1>3 DEF vars
  <2>2. TypeOK' /\ BlocksTrue' /\ TrueList(table', smart) /\ Discovered'
    BY <2>1, BlocksFrame DEF IInv, TypeOK, ListsTrue, Discovered
  <2> QED
    BY <1>2, <2>1, <2>2, UserFrame
<1>4. CASE \E d \in Drives : wear(d)
  BY <1>2, <1>4, WearInv DEF wear
<1>5. CASE \E c \in Collectors : CollectStep(c)
  <2>1. PICK c \in Collectors : CollectStep(c)
    BY <1>5
  <2>2. CASE onSlowTick(c) \/ triggerDiskHealthCheck(c)
    BY <1>2, <2>2, StartInv DEF onSlowTick, triggerDiskHealthCheck, startCollection
  <2>3. CASE collectDrive(c)
    BY <1>2, <2>3, CollectDriveInv DEF collectDrive
  <2>4. CASE publish(c)
    BY <2>4, PublishInv
  <2> QED
    BY <2>1, <2>2, <2>3, <2>4 DEF CollectStep
<1>6. CASE UserStep
  <2>1. dashboard' = dashboard
    BY <1>6 DEF UserStep, populateStorage, onUnlockSmartDrive, onUnlockAllDrives,
                dialogAccepted, dialogRejected, slowTimer, setDiskHealthAlertEnabled
  <2> QED
    BY <1>2, <1>6, <2>1, PopulateInv, UnlockOneInv, DialogInv, SettingsInv DEF UserStep
<1>7. CASE \E u \in DOMAIN unlocks : UnlockStep(u)
  <2>1. PICK u \in DOMAIN unlocks : UnlockStep(u)
    BY <1>7
  <2>2. dashboard' = dashboard
    BY <2>1 DEF UnlockStep, pkexecReturns, mergeUnlocked, unlockFinished
  <2> QED
    BY <1>2, <2>1, <2>2, PkexecInv, MergeInv, FinishedInv DEF UnlockStep
<1> QED
  BY <1>3, <1>4, <1>5, <1>6, <1>7 DEF Next

\* The invariant holds of every behaviour.
LEMMA Invariance == Spec => []IInv
<1>1. IInv /\ [Next]_vars => IInv'
  BY NextInv
<1> QED
  BY InitInv, <1>1, PTL DEF Spec

\* Every variable keeps its type, whatever collections and unlocks do to the
\* cache, the page and the Dashboard at the same time.
THEOREM TypeCorrect == Spec => []TypeOK
<1>1. IInv => TypeOK
  BY DEF IInv
<1> QED
  BY Invariance, <1>1, PTL

\* The cache, the Hardware page and the Dashboard have a drive's data for that
\* drive and no other: blocks of a root shell's output are matched with the
\* devices it was given, unsafe names left out, output cut short or not.
THEOREM DataStaysWithItsDrive == Spec => []DataIsItsOwn
<1>1. IInv => DataIsItsOwn
  BY DEF IInv, ListsTrue, TrueList, OwnEntry, DataIsItsOwn, OwnData
<1> QED
  BY Invariance, <1>1, PTL

\* As only one collection is under way, and an unlock does not reach the
\* Dashboard, no drive's data on it is ever replaced by older data.
THEOREM DashboardOnlyMovesOn == Spec => DashboardNeverGoesBack
<1>1. IInv /\ [Next]_vars => [~ListGoesBack]_vars
  BY NextInv
<1> QED
  BY Invariance, <1>1, PTL DEF Spec, DashboardNeverGoesBack
================================================================================
