---------------------------- MODULE ResourceHistory ----------------------------
(***************************************************************************)
(* ResourceHistoryService: CPU, load and memory rows every 10 s, across    *)
(* sessions.  While DataRefreshService polls, the rows aggregate its       *)
(* cpuUpdated signals; while it is paused the service samples by itself.   *)
(* Rows wait in a buffer for the flush timer; the database survives a      *)
(* crash, the buffer does not.  Of DataRefreshService the module keeps the *)
(* pause flag and the subscriber count of the Cpu signal (Memory's is      *)
(* handled in the same places).                                            *)
(***************************************************************************)
EXTENDS Integers, Sequences

CONSTANT MaxRows    \* bound: rows sampled

ASSUME MaxRowsAssumption == MaxRows \in Nat

VARIABLES
    running,           \* the application runs, App::init is behind it
    saved,             \* getResourceHistoryEnabled() in settings.ini
    mPaused,           \* DataRefreshService::isPaused()
    kioskMode,
    monitor,           \* another subscriber of Cpu, such as the tray monitor
    cpuSubscribers,    \* DataRefreshService's count for Cpu
    mEnabled, mSubscribedLive,
    live,              \* kinds of ticks in the accumulators
    mPendingBuffer,
    storeOpen,         \* mStore.isOpen()
    db,                \* rows in resource_history.db
    now,               \* time stamp of the last row
    clearedAt          \* history: time of the last successful clearAll()

shellVars   == <<running, saved, mPaused, kioskMode, monitor>>
serviceVars == <<cpuSubscribers, mEnabled, mSubscribedLive, live, mPendingBuffer,
                 storeOpen>>
vars == <<shellVars, serviceVars, db, now, clearedAt>>

\* An accumulated tick is "old" once the subscription it came with has ended.
Ticks == {"new", "old"}
Row == [ts : Nat, source : {"live", "background"}, ticks : SUBSET Ticks]

One(b) == IF b THEN 1 ELSE 0

--------------------------------------------------------------------------------
(* updateLiveSubscription(). *)

\* Seeded fault: a new subscription finds the accumulators of the last one.
KeptAtSubscription(ticks) == ticks

\* resetLiveAccumulators() of a new subscription.
ResetAtSubscription(ticks) == {}

LiveAfter(should) ==
    CASE should /\ ~mSubscribedLive -> ResetAtSubscription(live)
      [] ~should /\ mSubscribedLive -> {"old" : t \in live}
      [] OTHER                      -> live

\* Seeded fault: no look at mSubscribedLive before subscribing or leaving.
SubscriptionUnguarded(should) ==
    /\ mSubscribedLive' = should
    /\ cpuSubscribers' = cpuSubscribers + One(should) - One(~should)

Subscription(should) ==
    /\ mSubscribedLive' = should
    /\ cpuSubscribers' = cpuSubscribers + One(should /\ ~mSubscribedLive)
                            - One(~should /\ mSubscribedLive /\ cpuSubscribers > 0)

--------------------------------------------------------------------------------
(* Storage. *)

\* Seeded fault: a batch that was written stays in the buffer.
BufferAfterFlushKept == mPendingBuffer

\* flush() drops the buffer whether or not the batch could be written.
BufferAfterFlush == <<>>

\* The batch is one transaction.
Flush(written) ==
    /\ mPendingBuffer' = BufferAfterFlush
    /\ db' = IF storeOpen /\ written THEN db \o mPendingBuffer ELSE db

\* What a prune, now and then, leaves of the database: its newest rows.
Pruned(rows) == {SubSeq(rows, n, Len(rows)) : n \in 1..(Len(rows) + 1)}

\* open() fails, or succeeds, on an empty file if the old one is corrupt; a
\* store that is open is pruned at once.
StoreOpened ==
    \/ storeOpen' = FALSE /\ db' = db
    \/ storeOpen' = TRUE  /\ db' \in Pruned(db)

--------------------------------------------------------------------------------
(* Switching history on and off. *)

SwitchOn(paused) ==
    /\ mEnabled' = TRUE
    /\ StoreOpened
    /\ Subscription(~paused)
    /\ live' = LiveAfter(~paused)
    /\ UNCHANGED mPendingBuffer

\* Seeded fault: switching off does not write the buffer, nor drop it.
SwitchOffUnflushed(written) ==
    /\ mEnabled' = FALSE
    /\ storeOpen' = FALSE
    /\ Subscription(FALSE)
    /\ live' = {}
    /\ UNCHANGED <<mPendingBuffer, db>>

SwitchOff(written) ==
    /\ mEnabled' = FALSE
    /\ Flush(written)
    /\ storeOpen' = FALSE
    /\ Subscription(FALSE)
    /\ live' = {}

\* The Settings checkbox: the setting, then sigResourceHistoryToggled.
setEnabled ==
    /\ running
    /\ saved' = ~saved
    /\ IF saved' THEN SwitchOn(mPaused)
                 ELSE \E written \in BOOLEAN : SwitchOff(written)
    /\ UNCHANGED <<running, mPaused, kioskMode, monitor, now, clearedAt>>

--------------------------------------------------------------------------------
(* Timers and signals. *)

\* sigAppVisibilityChanged: DataRefreshService's slot runs first.
PausedAfter(visible) == ~visible /\ (mPaused \/ ~kioskMode)

\* Seeded fault: DataRefreshService was connected after this service.
PausedAsSeenEarly(visible) == mPaused

\* isPaused() as onVisibilityChanged() finds it.
PausedAsSeen(visible) == PausedAfter(visible)

visibilityChanged(visible) ==
    /\ running
    /\ mPaused' = PausedAfter(visible)
    /\ IF mEnabled
       THEN /\ Subscription(~PausedAsSeen(visible))
            /\ live' = LiveAfter(~PausedAsSeen(visible))
       ELSE UNCHANGED <<cpuSubscribers, mSubscribedLive, live>>
    /\ UNCHANGED <<running, saved, kioskMode, monitor, mEnabled, mPendingBuffer,
                   storeOpen, db, now, clearedAt>>

\* DataRefreshService's fast tick: cpuUpdated, unless the sample came out empty.
onCpuUpdated ==
    /\ running
    /\ ~mPaused
    /\ mSubscribedLive
    /\ cpuSubscribers > 0
    /\ live' = live \union {"new"}
    /\ UNCHANGED <<shellVars, cpuSubscribers, mEnabled, mSubscribedLive,
                   mPendingBuffer, storeOpen, db, now, clearedAt>>

Sampled(row) == mPendingBuffer' = Append(mPendingBuffer, row)

\* The history timer runs while the service is enabled.
onHistoryTick ==
    /\ running
    /\ mEnabled
    /\ now < MaxRows
    /\ now' = now + 1
    /\ IF mPaused
       THEN /\ Sampled([ts |-> now', source |-> "background", ticks |-> {}])
            /\ UNCHANGED live
       ELSE /\ Sampled([ts |-> now', source |-> "live", ticks |-> live])
            /\ live' = {}
    /\ UNCHANGED <<shellVars, cpuSubscribers, mEnabled, mSubscribedLive, storeOpen,
                   db, clearedAt>>

onFlushTick ==
    /\ running
    /\ mEnabled
    /\ mPendingBuffer # <<>>
    /\ \E written \in BOOLEAN : Flush(written)
    /\ UNCHANGED <<shellVars, cpuSubscribers, mEnabled, mSubscribedLive, live,
                   storeOpen, now, clearedAt>>

onPruneTick ==
    /\ running
    /\ mEnabled
    /\ storeOpen
    /\ db' \in Pruned(db)
    /\ UNCHANGED <<shellVars, serviceVars, now, clearedAt>>

\* The Settings button; a closed store is opened for the occasion.
clearAll ==
    /\ running
    /\ db' = <<>>
    /\ clearedAt' = now
    /\ UNCHANGED <<shellVars, serviceVars, now>>

--------------------------------------------------------------------------------
(* The application. *)

\* Start-up: DataRefreshService runs, and the saved setting is applied.
launch ==
    /\ ~running
    /\ running' = TRUE
    /\ IF saved THEN SwitchOn(mPaused)
                ELSE UNCHANGED <<serviceVars, db>>
    /\ UNCHANGED <<saved, mPaused, kioskMode, monitor, now, clearedAt>>

\* What a process that ends takes with it.
Ended ==
    /\ running
    /\ running' = FALSE
    /\ mPaused' = FALSE
    /\ monitor' = FALSE
    /\ cpuSubscribers' = 0
    /\ mEnabled' = FALSE
    /\ mSubscribedLive' = FALSE
    /\ live' = {}
    /\ mPendingBuffer' = <<>>
    /\ storeOpen' = FALSE
    /\ UNCHANGED <<saved, kioskMode, now, clearedAt>>

\* aboutToQuit flushes the buffer.
aboutToQuit ==
    /\ Ended
    /\ \/ db' = db \o mPendingBuffer /\ storeOpen
       \/ db' = db

crash == Ended /\ UNCHANGED db

toggleKioskMode ==
    /\ running
    /\ kioskMode' = ~kioskMode
    /\ UNCHANGED <<running, saved, mPaused, monitor, serviceVars, db, now, clearedAt>>

\* The tray or the mini monitor comes or goes.
monitorToggled ==
    /\ running
    /\ monitor' = ~monitor
    /\ cpuSubscribers' = cpuSubscribers + One(monitor')
                            - One(monitor /\ cpuSubscribers > 0)
    /\ UNCHANGED <<running, saved, mPaused, kioskMode, mEnabled, mSubscribedLive,
                   live, mPendingBuffer, storeOpen, db, now, clearedAt>>

--------------------------------------------------------------------------------

Init ==
    /\ running = FALSE
    /\ saved \in BOOLEAN
    /\ mPaused = FALSE
    /\ kioskMode = FALSE
    /\ monitor = FALSE
    /\ cpuSubscribers = 0
    /\ mEnabled = FALSE
    /\ mSubscribedLive = FALSE
    /\ live = {}
    /\ mPendingBuffer = <<>>
    /\ storeOpen = FALSE
    /\ db = <<>>
    /\ now = 0
    /\ clearedAt = 0

Next ==
    \/ launch
    \/ setEnabled
    \/ \E visible \in BOOLEAN : visibilityChanged(visible)
    \/ onCpuUpdated
    \/ onHistoryTick
    \/ onFlushTick
    \/ onPruneTick
    \/ clearAll
    \/ toggleKioskMode
    \/ monitorToggled
    \/ aboutToQuit
    \/ crash

Spec == Init /\ [][Next]_vars

--------------------------------------------------------------------------------
(* Properties. *)

\* Every variable keeps its type.
TypeOK ==
    /\ running \in BOOLEAN
    /\ saved \in BOOLEAN
    /\ mPaused \in BOOLEAN
    /\ kioskMode \in BOOLEAN
    /\ monitor \in BOOLEAN
    /\ cpuSubscribers \in Nat
    /\ mEnabled \in BOOLEAN
    /\ mSubscribedLive \in BOOLEAN
    /\ live \subseteq Ticks
    /\ mPendingBuffer \in Seq(Row)
    /\ storeOpen \in BOOLEAN
    /\ db \in Seq(Row)
    /\ now \in Nat
    /\ clearedAt \in Nat

\* The service is subscribed exactly while it is enabled and the window is
\* visible, and holds exactly one subscription then: never two samplers of the
\* CPU at once, never none, and no count that stays behind.
SubscribedWhileVisible ==
    /\ mSubscribedLive <=> mEnabled /\ ~mPaused
    /\ cpuSubscribers = One(monitor) + One(mSubscribedLive)

\* "OFF means no timer, no subscriptions, no DB open", and nothing half-sampled
\* that a later session could pick up.
OffMeansOff ==
    ~mEnabled => /\ ~mSubscribedLive
                 /\ ~storeOpen
                 /\ live = {}
                 /\ mPendingBuffer = <<>>

Rows == db \o mPendingBuffer

\* No sample is stored twice or out of order, whatever fails, crashes or is
\* switched off between sampling and flushing.
StoredOnceInOrder ==
    \A i, j \in 1..Len(Rows) : i < j => Rows[i].ts < Rows[j].ts

\* A live row averages ticks of its own subscription only, never those from
\* before the window was hidden or history was off.
LiveRowsAreFresh == \A i \in 1..Len(Rows) : "old" \notin Rows[i].ticks

\* Documented: clearing deletes all that was recorded until then, for good.
ClearedStaysCleared == \A i \in 1..Len(db) : db[i].ts > clearedAt
================================================================================
