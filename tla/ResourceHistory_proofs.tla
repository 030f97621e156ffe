------------------------- MODULE ResourceHistory_proofs -------------------------
(***************************************************************************)
(* Proofs about ResourceHistory, for any number of rows: the subscription  *)
(* to DataRefreshService, and what reaches the database across failed      *)
(* writes, prunes, switching off, crashes and restarts.                    *)
(***************************************************************************)
EXTENDS ResourceHistory, TLAPS

\* Rows in order, none later than top, none with ticks of another subscription.
Good(rows, top) ==
    /\ \A i \in 1..Len(rows) : rows[i].ts <= top /\ "old" \notin rows[i].ticks
    /\ \A i, j \in 1..Len(rows) : i < j => rows[i].ts < rows[j].ts
Before(rows, more) ==
    \A i \in 1..Len(rows), j \in 1..Len(more) : rows[i].ts < more[j].ts
RowsGood == Good(db, now) /\ Good(mPendingBuffer, now) /\ Before(db, mPendingBuffer)

\* A process that does not run holds nothing.
StoppedHoldsNothing ==
    ~running => /\ mEnabled = FALSE /\ mPaused = FALSE /\ monitor = FALSE
                /\ cpuSubscribers = 0

LiveFresh == mSubscribedLive => "old" \notin live

IInv == /\ TypeOK /\ SubscribedWhileVisible /\ OffMeansOff /\ StoppedHoldsNothing
        /\ LiveFresh /\ RowsGood

--------------------------------------------------------------------------------
(* Rows. *)

LEMMA ConcatFacts ==
  ASSUME NEW rows \in Seq(Row), NEW more \in Seq(Row)
  PROVE  /\ rows \o more \in Seq(Row)
         /\ \A i \in 1..Len(rows \o more) :
              \/ i \in 1..Len(rows) /\ (rows \o more)[i] = rows[i]
              \/ /\ i > Len(rows) /\ i - Len(rows) \in 1..Len(more)
                 /\ (rows \o more)[i] = more[i - Len(rows)]
OBVIOUS

LEMMA GoodConcat ==
  ASSUME NEW rows \in Seq(Row), NEW more \in Seq(Row), NEW top,
         Good(rows, top), Good(more, top), Before(rows, more)
  PROVE  Good(rows \o more, top)
<1> DEFINE all == rows \o more
<1>1. \A i \in 1..Len(all) :
        \/ i \in 1..Len(rows) /\ all[i] = rows[i]
        \/ /\ i > Len(rows) /\ i - Len(rows) \in 1..Len(more)
           /\ all[i] = more[i - Len(rows)]
  BY ConcatFacts
<1>2. Len(rows) \in Nat /\ Len(all) \in Nat
  BY ConcatFacts
<1> HIDE DEF all
<1>3. ASSUME NEW i \in 1..Len(all)
      PROVE  all[i].ts <= top /\ "old" \notin all[i].ticks
  BY <1>1 DEF Good
<1>4. ASSUME NEW i \in 1..Len(all), NEW j \in 1..Len(all), i < j
      PROVE  all[i].ts < all[j].ts
  <2>1. CASE j \in 1..Len(rows) /\ all[j] = rows[j]
    <3>1. i \in 1..Len(rows) /\ all[i] = rows[i]
      BY <1>1, <1>2, <1>4, <2>1
    <3> QED
      BY <1>4, <2>1, <3>1 DEF Good
  <2>2. CASE j > Len(rows) /\ j - Len(rows) \in 1..Len(more)
             /\ all[j] = more[j - Len(rows)]
    <3>1. CASE i \in 1..Len(rows) /\ all[i] = rows[i]
      BY <2>2, <3>1 DEF Before
    <3>2. CASE i > Len(rows) /\ i - Len(rows) \in 1..Len(more)
               /\ all[i] = more[i - Len(rows)]
      <4>1. i - Len(rows) < j - Len(rows)
        BY <1>2, <1>4
      <4> QED
        BY <2>2, <3>2, <4>1 DEF Good
    <3> QED
      BY <1>1, <3>1, <3>2
  <2> QED
    BY <1>1, <2>1, <2>2
<1> QED
  BY <1>3, <1>4 DEF Good, all

\* A prune leaves a suffix.
LEMMA PrunedGood ==
  ASSUME NEW rows \in Seq(Row), NEW left \in Pruned(rows), NEW top, NEW more \in Seq(Row),
         Good(rows, top), Before(rows, more)
  PROVE  left \in Seq(Row) /\ Good(left, top) /\ Before(left, more)
<1>1. PICK n \in 1..(Len(rows) + 1) : left = SubSeq(rows, n, Len(rows))
  BY DEF Pruned
<1>2. /\ left \in Seq(Row)
      /\ Len(left) = Len(rows) - n + 1
      /\ \A i \in 1..Len(left) : i + n - 1 \in 1..Len(rows) /\ left[i] = rows[i + n - 1]
  BY <1>1
<1>3. \A i, j \in 1..Len(left) : i < j => i + n - 1 < j + n - 1
  BY <1>2
<1> QED
  BY <1>2, <1>3 DEF Good, Before

\* A tick adds a row that is newer than all there are.
LEMMA AppendGood ==
  ASSUME NEW rows \in Seq(Row), NEW older \in Seq(Row), NEW row \in Row, NEW top \in Nat,
         Good(rows, top), Good(older, top), Before(older, rows),
         row.ts = top + 1, "old" \notin row.ticks
  PROVE  /\ Append(rows, row) \in Seq(Row)
         /\ Good(Append(rows, row), top + 1)
         /\ Good(older, top + 1)
         /\ Before(older, Append(rows, row))
<1> DEFINE all == Append(rows, row)
<1>1. /\ all \in Seq(Row) /\ Len(rows) \in Nat /\ Len(all) = Len(rows) + 1
      /\ \A i \in 1..Len(rows) : all[i] = rows[i]
      /\ all[Len(rows) + 1] = row
  OBVIOUS
<1>2. ASSUME NEW some \in Seq(Row), NEW i \in 1..Len(some) PROVE some[i].ts \in Nat
  <2>1. some[i] \in Row
    OBVIOUS
  <2> QED
    BY <2>1 DEF Row
<1> HIDE DEF all
<1>3. ASSUME NEW i \in 1..Len(all)
      PROVE  all[i].ts <= top + 1 /\ "old" \notin all[i].ticks
  <2>1. CASE i \in 1..Len(rows)
    <3>1. rows[i].ts \in Nat /\ rows[i].ts <= top /\ "old" \notin rows[i].ticks
      BY <1>2, <2>1 DEF Good
    <3> QED
      BY <1>1, <2>1, <3>1
  <2>2. CASE i = Len(rows) + 1
    BY <1>1, <2>2
  <2> QED
    BY <1>1, <2>1, <2>2
<1>4. ASSUME NEW i \in 1..Len(all), NEW j \in 1..Len(all), i < j
      PROVE  all[i].ts < all[j].ts
  <2>1. i \in 1..Len(rows) /\ all[i] = rows[i]
    BY <1>1, <1>4
  <2>2. CASE j \in 1..Len(rows)
    BY <1>1, <1>4, <2>1, <2>2 DEF Good
  <2>3. CASE j = Len(rows) + 1
    <3>1. rows[i].ts \in Nat /\ rows[i].ts <= top
      BY <1>2, <2>1 DEF Good
    <3> QED
      BY <1>1, <2>1, <2>3, <3>1
  <2> QED
    BY <1>1, <2>2, <2>3
<1>5. ASSUME NEW i \in 1..Len(older)
      PROVE  older[i].ts \in Nat /\ older[i].ts <= top
  BY <1>2 DEF Good
<1>6. Good(older, top + 1)
  BY <1>5 DEF Good
<1>7. ASSUME NEW i \in 1..Len(older), NEW j \in 1..Len(all)
      PROVE  older[i].ts < all[j].ts
  <2>1. CASE j \in 1..Len(rows)
    BY <1>1, <2>1 DEF Before
  <2>2. CASE j = Len(rows) + 1
    BY <1>1, <1>5, <2>2
  <2> QED
    BY <1>1, <2>1, <2>2
<1> QED
  BY <1>1, <1>3, <1>4, <1>6, <1>7 DEF Good, Before, all

LEMMA EmptyGood ==
  ASSUME NEW rows, NEW top
  PROVE  Good(<<>>, top) /\ Before(<<>>, rows) /\ Before(rows, <<>>)
BY DEF Good, Before

--------------------------------------------------------------------------------
(* Parts of the steps. *)

LEMMA InitInv == Init => IInv
<1> SUFFICES ASSUME Init PROVE IInv
  OBVIOUS
<1>1. TypeOK
  <2>1. mPendingBuffer \in Seq(Row) /\ db \in Seq(Row)
    BY DEF Init
  <2>2. live \subseteq Ticks /\ cpuSubscribers \in Nat /\ now \in Nat /\ clearedAt \in Nat
    BY DEF Init
  <2> QED
    BY <2>1, <2>2 DEF Init, TypeOK
<1>2. SubscribedWhileVisible /\ OffMeansOff /\ StoppedHoldsNothing /\ LiveFresh
  BY DEF Init, SubscribedWhileVisible, OffMeansOff, StoppedHoldsNothing, LiveFresh, One
<1>3. RowsGood
  BY EmptyGood DEF Init, RowsGood
<1> QED
  BY <1>1, <1>2, <1>3 DEF IInv

\* Subscribing and leaving, whatever was the case before.
LEMMA SubscriptionDoes ==
  ASSUME IInv, NEW should \in BOOLEAN, Subscription(should), monitor' = monitor
  PROVE  /\ mSubscribedLive' = should
         /\ cpuSubscribers' \in Nat
         /\ cpuSubscribers' = One(monitor') + One(mSubscribedLive')
<1>1. cpuSubscribers = One(monitor) + One(mSubscribedLive)
      /\ {monitor, mSubscribedLive} \subseteq BOOLEAN
  BY DEF IInv, TypeOK, SubscribedWhileVisible
<1> QED
  BY <1>1 DEF Subscription, One

LEMMA LiveAfterDoes ==
  ASSUME IInv, NEW should \in BOOLEAN
  PROVE  /\ LiveAfter(should) \subseteq Ticks
         /\ should => "old" \notin LiveAfter(should)
<1>1. live \subseteq Ticks /\ mSubscribedLive \in BOOLEAN
      /\ (mSubscribedLive => "old" \notin live)
  BY DEF IInv, TypeOK, LiveFresh
<1>2. CASE should /\ ~mSubscribedLive
  BY <1>2 DEF LiveAfter, ResetAtSubscription
<1>3. CASE ~should /\ mSubscribedLive
  BY <1>3 DEF LiveAfter, Ticks
<1>4. CASE ~(should /\ ~mSubscribedLive) /\ ~(~should /\ mSubscribedLive)
  BY <1>1, <1>4 DEF LiveAfter
<1> QED
  BY <1>2, <1>3, <1>4

LEMMA FlushDoes ==
  ASSUME IInv, NEW written \in BOOLEAN, Flush(written)
  PROVE  /\ mPendingBuffer' = <<>> /\ db' \in Seq(Row)
         /\ Good(db', now) /\ Before(db', mPendingBuffer')
<1>1. /\ db \in Seq(Row) /\ mPendingBuffer \in Seq(Row)
      /\ Good(db, now) /\ Good(db \o mPendingBuffer, now)
  BY GoodConcat DEF IInv, TypeOK, RowsGood
<1>2. db' \in {db \o mPendingBuffer, db} /\ mPendingBuffer' = <<>>
  BY DEF Flush, BufferAfterFlush
<1>3. db \o mPendingBuffer \in Seq(Row)
  BY <1>1, ConcatFacts
<1> QED
  BY <1>1, <1>2, <1>3, EmptyGood

LEMMA StoreOpenedDoes ==
  ASSUME IInv, StoreOpened
  PROVE  /\ storeOpen' \in BOOLEAN /\ db' \in Seq(Row)
         /\ Good(db', now) /\ Before(db', mPendingBuffer)
<1>1. /\ db \in Seq(Row) /\ mPendingBuffer \in Seq(Row)
      /\ Good(db, now) /\ Before(db, mPendingBuffer)
  BY DEF IInv, TypeOK, RowsGood
<1>2. CASE storeOpen' = FALSE /\ db' = db
  BY <1>1, <1>2
<1>3. CASE storeOpen' = TRUE /\ db' \in Pruned(db)
  BY <1>1, <1>3, PrunedGood
<1> QED
  BY <1>2, <1>3 DEF StoreOpened

--------------------------------------------------------------------------------
(* The steps. *)

LEMMA SwitchInv ==
  ASSUME IInv, NEW on \in BOOLEAN, running', running' \in BOOLEAN,
         IF on THEN SwitchOn(mPaused) ELSE \E written \in BOOLEAN : SwitchOff(written),
         saved' \in BOOLEAN, UNCHANGED <<mPaused, kioskMode, monitor, now, clearedAt>>
  PROVE  IInv'
<1>1. mPaused \in BOOLEAN /\ monitor \in BOOLEAN
  BY DEF IInv, TypeOK
<1>2. CASE on
  <2> DEFINE should == ~mPaused
  <2>1. /\ mEnabled' = TRUE /\ mPendingBuffer' = mPendingBuffer
        /\ StoreOpened /\ Subscription(should) /\ live' = LiveAfter(should)
    BY <1>2 DEF SwitchOn
  <2>2. should \in BOOLEAN
    BY <1>1
  <2> HIDE DEF should
  <2>3. /\ mSubscribedLive' = should /\ cpuSubscribers' \in Nat
        /\ cpuSubscribers' = One(monitor') + One(mSubscribedLive')
    BY <2>1, <2>2, SubscriptionDoes
  <2>4. live' \subseteq Ticks /\ (should => "old" \notin live')
    BY <2>1, <2>2, LiveAfterDoes
  <2>5. /\ storeOpen' \in BOOLEAN /\ db' \in Seq(Row)
        /\ Good(db', now) /\ Before(db', mPendingBuffer)
    BY <2>1, StoreOpenedDoes
  <2>6. TypeOK'
    BY <2>1, <2>2, <2>3, <2>4, <2>5 DEF IInv, TypeOK
  <2>7. SubscribedWhileVisible' /\ OffMeansOff' /\ StoppedHoldsNothing' /\ LiveFresh'
    BY <2>1, <2>3, <2>4
       DEF SubscribedWhileVisible, OffMeansOff, StoppedHoldsNothing, LiveFresh, should
  <2>8. RowsGood'
    BY <2>1, <2>5 DEF IInv, RowsGood
  <2> QED
    BY <2>6, <2>7, <2>8 DEF IInv
<1>3. CASE ~on
  <2>1. PICK written \in BOOLEAN : SwitchOff(written)
    BY <1>3
  <2>2. /\ mEnabled' = FALSE /\ storeOpen' = FALSE /\ live' = {}
        /\ Flush(written) /\ Subscription(FALSE)
    BY <2>1 DEF SwitchOff
  <2>3. /\ mSubscribedLive' = FALSE /\ cpuSubscribers' \in Nat
        /\ cpuSubscribers' = One(monitor') + One(mSubscribedLive')
    BY <2>2, SubscriptionDoes
  <2>4. /\ mPendingBuffer' = <<>> /\ db' \in Seq(Row)
        /\ Good(db', now) /\ Before(db', mPendingBuffer')
    BY <2>2, FlushDoes
  <2>5. mPendingBuffer' \in Seq(Row) /\ live' \subseteq Ticks
    BY <2>2, <2>4
  <2>6. TypeOK'
    BY <2>2, <2>3, <2>4, <2>5 DEF IInv, TypeOK
  <2>7. SubscribedWhileVisible' /\ OffMeansOff' /\ StoppedHoldsNothing' /\ LiveFresh'
    BY <2>2, <2>3, <2>4
       DEF SubscribedWhileVisible, OffMeansOff, StoppedHoldsNothing, LiveFresh
  <2>8. RowsGood'
    BY <2>4, EmptyGood DEF IInv, RowsGood
  <2> QED
    BY <2>6, <2>7, <2>8 DEF IInv
<1> QED
  BY <1>2, <1>3

\* With the subscriptions, the switches and the store as they were, the rows and
\* their types are all there is to check.
LEMMA RowsFrame ==
  ASSUME IInv, NEW rows, NEW buffer, NEW ticks,
         db' = rows, mPendingBuffer' = buffer, live' = ticks,
         rows \in Seq(Row), buffer \in Seq(Row), ticks \subseteq Ticks,
         RowsGood', LiveFresh', mEnabled \/ (buffer = <<>> /\ ticks = {}),
         now' \in Nat, clearedAt' \in Nat,
         UNCHANGED <<shellVars, cpuSubscribers, mEnabled, mSubscribedLive, storeOpen>>
  PROVE  IInv'
<1>1. UNCHANGED <<running, saved, mPaused, kioskMode, monitor>>
  BY DEF shellVars
<1>2. TypeOK'
  BY <1>1 DEF IInv, TypeOK
<1> QED
  BY <1>1, <1>2
     DEF IInv, SubscribedWhileVisible, OffMeansOff, StoppedHoldsNothing

LEMMA HistoryTickInv ==
  ASSUME IInv, onHistoryTick
  PROVE  IInv'
<1> DEFINE row == IF mPaused
                  THEN [ts |-> now + 1, source |-> "background", ticks |-> {}]
                  ELSE [ts |-> now + 1, source |-> "live", ticks |-> live]
<1>1. /\ mEnabled /\ now' = now + 1 /\ db' = db /\ clearedAt' = clearedAt
      /\ mPendingBuffer' = Append(mPendingBuffer, row)
      /\ live' \in {live, {}}
  BY DEF onHistoryTick, Sampled
<1>2. /\ now \in Nat /\ clearedAt \in Nat /\ live \subseteq Ticks
      /\ mPendingBuffer \in Seq(Row) /\ db \in Seq(Row)
      /\ Good(db, now) /\ Good(mPendingBuffer, now) /\ Before(db, mPendingBuffer)
  BY DEF IInv, TypeOK, RowsGood
<1>3. row \in Row /\ row.ts = now + 1 /\ "old" \notin row.ticks
  <2>1. "old" \notin live \/ mPaused
    BY <1>1 DEF IInv, SubscribedWhileVisible, LiveFresh
  <2> QED
    BY <1>2, <2>1 DEF Row
<1> HIDE DEF row
<1>4. /\ mPendingBuffer' \in Seq(Row) /\ Good(mPendingBuffer', now')
      /\ Good(db, now') /\ Before(db, mPendingBuffer')
  BY <1>1, <1>2, <1>3, AppendGood
<1>5. now' \in Nat /\ clearedAt' \in Nat
  BY <1>1, <1>2
<1>8. RowsGood' /\ LiveFresh'
  <2>1. mSubscribedLive' = mSubscribedLive
    BY DEF onHistoryTick
  <2> QED
    BY <1>1, <1>4, <2>1 DEF IInv, RowsGood, LiveFresh
<1>9. UNCHANGED <<shellVars, cpuSubscribers, mEnabled, mSubscribedLive, storeOpen>>
  BY DEF onHistoryTick
<1>10. live' \subseteq Ticks
  BY <1>1, <1>2
<1> QED
  BY <1>1, <1>2, <1>4, <1>5, <1>8, <1>9, <1>10, RowsFrame

LEMMA FlushTickInv ==
  ASSUME IInv, onFlushTick
  PROVE  IInv'
<1>1. PICK written \in BOOLEAN : Flush(written)
  BY DEF onFlushTick
<1>2. mEnabled /\ UNCHANGED <<shellVars, cpuSubscribers, mEnabled, mSubscribedLive, live,
                             storeOpen, now, clearedAt>>
  BY DEF onFlushTick
<1>3. /\ mPendingBuffer' = <<>> /\ db' \in Seq(Row)
      /\ Good(db', now) /\ Before(db', mPendingBuffer')
  BY <1>1, FlushDoes
<1>4. RowsGood' /\ LiveFresh'
  BY <1>2, <1>3, EmptyGood DEF IInv, RowsGood, LiveFresh
<1>5. /\ now \in Nat /\ clearedAt \in Nat /\ live \subseteq Ticks
      /\ mPendingBuffer' \in Seq(Row)
  BY <1>3 DEF IInv, TypeOK
<1> QED
  BY <1>2, <1>3, <1>4, <1>5, RowsFrame

LEMMA PruneClearInv ==
  ASSUME IInv, onPruneTick \/ clearAll
  PROVE  IInv'
<1>1. UNCHANGED <<shellVars, serviceVars, now>> /\ clearedAt' \in {clearedAt, now}
  BY DEF onPruneTick, clearAll
<1>2. UNCHANGED <<cpuSubscribers, mEnabled, mSubscribedLive, live, mPendingBuffer, storeOpen>>
  BY <1>1 DEF serviceVars
<1>3. /\ now \in Nat /\ clearedAt \in Nat /\ live \subseteq Ticks
      /\ mPendingBuffer \in Seq(Row) /\ db \in Seq(Row)
      /\ mEnabled \in BOOLEAN
      /\ Good(db, now) /\ Before(db, mPendingBuffer)
  BY DEF IInv, TypeOK, RowsGood
<1>4. db' \in Seq(Row) /\ Good(db', now) /\ Before(db', mPendingBuffer)
  <2>1. CASE onPruneTick
    BY <1>3, <2>1, PrunedGood DEF onPruneTick
  <2>2. CASE clearAll
    BY <2>2, EmptyGood DEF clearAll
  <2> QED
    BY <2>1, <2>2
<1>5. RowsGood' /\ LiveFresh'
  BY <1>1, <1>2, <1>4 DEF IInv, RowsGood, LiveFresh
<1>6. mEnabled \/ (mPendingBuffer = <<>> /\ live = {})
  BY DEF IInv, OffMeansOff
<1> QED
  BY <1>1, <1>2, <1>3, <1>4, <1>5, <1>6, RowsFrame

LEMMA CpuUpdatedInv ==
  ASSUME IInv, onCpuUpdated
  PROVE  IInv'
<1>1. live' = live \union {"new"} /\ mSubscribedLive
  BY DEF onCpuUpdated
<1>2. UNCHANGED <<shellVars, cpuSubscribers, mEnabled, mSubscribedLive, mPendingBuffer,
                  storeOpen, db, now, clearedAt>>
  BY DEF onCpuUpdated
<1>3. mEnabled
  BY <1>1 DEF IInv, SubscribedWhileVisible
<1>4. /\ db \in Seq(Row) /\ mPendingBuffer \in Seq(Row) /\ now \in Nat /\ clearedAt \in Nat
      /\ live' \subseteq Ticks
  BY <1>1 DEF IInv, TypeOK, Ticks
<1>5. RowsGood' /\ LiveFresh'
  BY <1>1, <1>2 DEF IInv, RowsGood, LiveFresh
<1> QED
  BY <1>2, <1>3, <1>4, <1>5, RowsFrame

\* DataRefreshService's slot runs first, so that this one sees what it did.
LEMMA VisibilityInv ==
  ASSUME IInv, NEW visible \in BOOLEAN, visibilityChanged(visible)
  PROVE  IInv'
<1> DEFINE should == ~PausedAfter(visible)
<1>1. /\ running /\ mPaused' = PausedAfter(visible)
      /\ UNCHANGED <<running, saved, kioskMode, monitor, mEnabled, mPendingBuffer,
                     storeOpen, db, now, clearedAt>>
  BY DEF visibilityChanged
<1>2. should \in BOOLEAN /\ mPaused' \in BOOLEAN /\ (should <=> ~mPaused')
  BY <1>1 DEF PausedAfter
<1>3. CASE mEnabled
  <2>1. Subscription(should) /\ live' = LiveAfter(should)
    BY <1>3 DEF visibilityChanged, PausedAsSeen
  <2> HIDE DEF should
  <2>2. /\ mSubscribedLive' = should /\ cpuSubscribers' \in Nat
        /\ cpuSubscribers' = One(monitor') + One(mSubscribedLive')
    BY <1>1, <1>2, <2>1, SubscriptionDoes
  <2>3. live' \subseteq Ticks /\ (should => "old" \notin live')
    BY <1>2, <2>1, LiveAfterDoes
  <2>4. TypeOK'
    BY <1>1, <1>2, <2>2, <2>3 DEF IInv, TypeOK
  <2>5. SubscribedWhileVisible' /\ OffMeansOff' /\ StoppedHoldsNothing' /\ LiveFresh'
    BY <1>1, <1>2, <1>3, <2>2, <2>3
       DEF SubscribedWhileVisible, OffMeansOff, StoppedHoldsNothing, LiveFresh
  <2>6. RowsGood'
    BY <1>1 DEF IInv, RowsGood
  <2> QED
    BY <2>4, <2>5, <2>6 DEF IInv
<1>4. CASE ~mEnabled
  <2>1. UNCHANGED <<cpuSubscribers, mSubscribedLive, live>>
    BY <1>4 DEF visibilityChanged
  <2> HIDE DEF should
  <2>2. TypeOK'
    BY <1>1, <1>2, <2>1 DEF IInv, TypeOK
  <2>3. SubscribedWhileVisible' /\ OffMeansOff' /\ StoppedHoldsNothing' /\ LiveFresh'
    BY <1>1, <1>4, <2>1
       DEF IInv, SubscribedWhileVisible, OffMeansOff, StoppedHoldsNothing, LiveFresh
  <2>4. RowsGood'
    BY <1>1, <2>1 DEF IInv, RowsGood
  <2> QED
    BY <2>2, <2>3, <2>4 DEF IInv
<1> QED
  BY <1>3, <1>4

LEMMA SetEnabledInv ==
  ASSUME IInv, setEnabled
  PROVE  IInv'
<1>1. running' = running /\ running
  BY DEF setEnabled
<1>2. /\ saved' \in BOOLEAN
      /\ IF saved' THEN SwitchOn(mPaused) ELSE \E written \in BOOLEAN : SwitchOff(written)
      /\ UNCHANGED <<mPaused, kioskMode, monitor, now, clearedAt>>
  BY DEF setEnabled
<1>3. running' \in BOOLEAN /\ running'
  BY <1>1 DEF IInv, TypeOK
<1> QED
  BY <1>2, <1>3, SwitchInv

LEMMA LaunchInv ==
  ASSUME IInv, launch
  PROVE  IInv'
<1>1. /\ ~running /\ running' = TRUE
      /\ UNCHANGED <<saved, mPaused, kioskMode, monitor, now, clearedAt>>
  BY DEF launch
<1>2. CASE saved
  <2>1. SwitchOn(mPaused)
    BY <1>2 DEF launch
  <2>2. saved' \in BOOLEAN
    BY <1>1 DEF IInv, TypeOK
  <2> QED
    BY <1>1, <2>1, <2>2, SwitchInv
<1>3. CASE ~saved
  <2>1. UNCHANGED <<serviceVars, db>>
    BY <1>3 DEF launch
  <2>2. UNCHANGED <<cpuSubscribers, mEnabled, mSubscribedLive, live, mPendingBuffer,
                    storeOpen, db>>
    BY <2>1 DEF serviceVars
  <2>3. TypeOK'
    BY <1>1, <2>2 DEF IInv, TypeOK
  <2>4. SubscribedWhileVisible' /\ OffMeansOff' /\ StoppedHoldsNothing' /\ LiveFresh'
    BY <1>1, <2>2
       DEF IInv, SubscribedWhileVisible, OffMeansOff, StoppedHoldsNothing, LiveFresh
  <2>5. RowsGood'
    BY <1>1, <2>2 DEF IInv, RowsGood
  <2> QED
    BY <2>3, <2>4, <2>5 DEF IInv
<1> QED
  BY <1>2, <1>3

\* What a crash leaves is the database; what aboutToQuit leaves is that, or that
\* and the buffer.
LEMMA EndedInv ==
  ASSUME IInv, aboutToQuit \/ crash
  PROVE  IInv'
<1>1. /\ running' = FALSE /\ mPaused' = FALSE /\ monitor' = FALSE /\ cpuSubscribers' = 0
      /\ mEnabled' = FALSE /\ mSubscribedLive' = FALSE /\ live' = {}
      /\ mPendingBuffer' = <<>> /\ storeOpen' = FALSE
      /\ UNCHANGED <<saved, kioskMode, now, clearedAt>>
  BY DEF aboutToQuit, crash, Ended
<1>2. db' \in {db, db \o mPendingBuffer}
  BY DEF aboutToQuit, crash
<1>3. /\ db \in Seq(Row) /\ mPendingBuffer \in Seq(Row)
      /\ Good(db, now) /\ Good(db \o mPendingBuffer, now)
  BY GoodConcat DEF IInv, TypeOK, RowsGood
<1>4. db' \in Seq(Row) /\ Good(db', now) /\ mPendingBuffer' \in Seq(Row)
  <2>1. db \o mPendingBuffer \in Seq(Row)
    BY <1>3, ConcatFacts
  <2>2. db' \in Seq(Row) /\ Good(db', now)
    BY <1>2, <1>3, <2>1
  <2>3. mPendingBuffer' \in Seq(Row)
    BY <1>1
  <2> QED
    BY <2>2, <2>3
<1>5. TypeOK'
  BY <1>1, <1>4 DEF IInv, TypeOK
<1>6. SubscribedWhileVisible' /\ OffMeansOff' /\ StoppedHoldsNothing' /\ LiveFresh'
  BY <1>1 DEF SubscribedWhileVisible, OffMeansOff, StoppedHoldsNothing, LiveFresh, One
<1>7. RowsGood'
  BY <1>1, <1>4, EmptyGood DEF RowsGood
<1> QED
  BY <1>5, <1>6, <1>7 DEF IInv

LEMMA ShellInv ==
  ASSUME IInv, toggleKioskMode \/ monitorToggled
  PROVE  IInv'
<1>1. /\ running /\ running' = running
      /\ UNCHANGED <<saved, mPaused, mEnabled, mSubscribedLive, live, mPendingBuffer,
                     storeOpen, db, now, clearedAt>>
  BY DEF toggleKioskMode, monitorToggled, serviceVars
<1>2. /\ kioskMode' \in BOOLEAN /\ monitor' \in BOOLEAN /\ cpuSubscribers' \in Nat
      /\ cpuSubscribers' = One(monitor') + One(mSubscribedLive)
  <2>1. /\ {kioskMode, monitor, mSubscribedLive} \subseteq BOOLEAN
        /\ cpuSubscribers = One(monitor) + One(mSubscribedLive)
    BY DEF IInv, TypeOK, SubscribedWhileVisible
  <2>2. CASE toggleKioskMode
    BY <2>1, <2>2 DEF toggleKioskMode, serviceVars, One
  <2>3. CASE monitorToggled
    BY <2>1, <2>3 DEF monitorToggled, One
  <2> QED
    BY <2>2, <2>3
<1>3. TypeOK'
  BY <1>1, <1>2 DEF IInv, TypeOK
<1>4. SubscribedWhileVisible' /\ OffMeansOff' /\ StoppedHoldsNothing' /\ LiveFresh'
  BY <1>1, <1>2
     DEF IInv, SubscribedWhileVisible, OffMeansOff, StoppedHoldsNothing, LiveFresh
<1>5. RowsGood'
  BY <1>1 DEF IInv, RowsGood
<1> QED
  BY <1>3, <1>4, <1>5 DEF IInv

--------------------------------------------------------------------------------
(* The theorems. *)

LEMMA NextInv == IInv /\ [Next]_vars => IInv'
<1> SUFFICES ASSUME IInv, [Next]_vars PROVE IInv'
  OBVIOUS
<1>1. CASE UNCHANGED vars
  <2>1. UNCHANGED <<running, saved, mPaused, kioskMode, monitor, cpuSubscribers, mEnabled,
                    mSubscribedLive, live, mPendingBuffer, storeOpen, db, now, clearedAt>>
    BY <1>1 DEF vars, shellVars, serviceVars
  <2> QED
    BY <2>1 DEF IInv, TypeOK, SubscribedWhileVisible, OffMeansOff, StoppedHoldsNothing,
                LiveFresh, RowsGood
<1>2. CASE \E visible \in BOOLEAN : visibilityChanged(visible)
  BY <1>2, VisibilityInv
<1> QED
  BY <1>1, <1>2, LaunchInv, SetEnabledInv, CpuUpdatedInv, HistoryTickInv, FlushTickInv,
     PruneClearInv, ShellInv, EndedInv DEF Next

LEMMA Invariance == Spec => []IInv
BY InitInv, NextInv, PTL DEF Spec

\* Every variable keeps its type; the database holds whole rows only.
THEOREM TypeCorrect == Spec => []TypeOK
<1>1. IInv => TypeOK
  BY DEF IInv
<1> QED
  BY Invariance, <1>1, PTL

\* The service has exactly one subscription while it is on and Nexis polls, and
\* none otherwise, in whatever order window, switch and monitors change.
THEOREM SubscriptionIsExact == Spec => []SubscribedWhileVisible
<1>1. IInv => SubscribedWhileVisible
  BY DEF IInv
<1> QED
  BY Invariance, <1>1, PTL

\* Switched off, the service has no subscription, no open store and nothing left
\* to write.
THEOREM OffIsOff == Spec => []OffMeansOff
<1>1. IInv => OffMeansOff
  BY DEF IInv
<1> QED
  BY Invariance, <1>1, PTL

LEMMA AllRowsGood == IInv => Good(Rows, now)
BY GoodConcat DEF IInv, TypeOK, RowsGood, Rows

\* No row is stored twice or out of order, across failed writes, prunes, switching
\* off, crashes and restarts.
THEOREM RowsStayInOrder == Spec => []StoredOnceInOrder
<1>1. IInv => StoredOnceInOrder
  BY AllRowsGood DEF Good, StoredOnceInOrder
<1> QED
  BY Invariance, <1>1, PTL

\* No live row has ticks from before the window was hidden or history was off.
THEOREM LiveRowsStayFresh == Spec => []LiveRowsAreFresh
<1>1. IInv => LiveRowsAreFresh
  BY AllRowsGood DEF Good, LiveRowsAreFresh
<1> QED
  BY Invariance, <1>1, PTL
================================================================================
