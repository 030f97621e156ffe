------------------------------ MODULE DataRefresh ------------------------------
(***************************************************************************)
(* DataRefreshService: the one polling engine of Nexis.  Five QTimers on   *)
(* the UI thread sample the machine, cheap samples inline and expensive    *)
(* ones on QtConcurrent workers that post their result back to the UI      *)
(* thread.  Pages subscribe to the signals they render; the window's       *)
(* visibility pauses everything; focus and battery choose the cadence.     *)
(*                                                                         *)
(* A slot runs to completion on the UI thread, so it is one action, with   *)
(* every handler it reaches through a direct signal connection: a fast     *)
(* tick may read the battery, which emits batteryUpdated, which recomputes *)
(* the power mode, which restarts the timers, all before it returns.       *)
(***************************************************************************)
EXTENDS Naturals

CONSTANTS
    Signals,           \* the DataRefreshService::Signal values in play
    Workers,           \* the background jobs in play
    HasBattery,        \* im->hasBattery()
    HasUpdateSources,  \* im->hasUpdateSources()
    SliderIntervals,   \* bound: intervals the Processes page's slider may set
    MaxSubscribers     \* bound: subscriptions one signal may collect

TickTimers == {"fast", "medium", "slow"}
Timers     == TickTimers \union {"process", "update"}
PowerModes == {"Normal", "Battery", "Unfocused"}

ASSUME ConstantsAssumption ==
    /\ Signals \subseteq {"Cpu", "DiskUsage", "Oomd", "Battery"}
    /\ Workers \subseteq {"diskUsage", "oomd", "diskHealth",
                          "process", "update", "repoHealth"}
    /\ HasBattery \in BOOLEAN
    /\ HasUpdateSources \in BOOLEAN
    /\ SliderIntervals \subseteq Nat \ {0}
    /\ MaxSubscribers \in Nat

\* The intervals of setPowerMode(), in milliseconds.
Cadence ==
    [Normal    |-> [fast |-> 1000, medium |->  5000, slow |-> 30000],
     Battery   |-> [fast |-> 2000, medium |-> 10000, slow |-> 60000],
     Unfocused |-> [fast |-> 5000, medium |-> 30000, slow |-> 60000]]

Hour == 3600000     \* mUpdateTimer's interval

VARIABLES
    phase,              \* "constructed", "started" by App::init, "stopped" by ~App
    timers,             \* QTimer: is it active, and what interval is it set to
    mPaused, mProcessPaused,
    mPowerMode, mFocused, mOnBattery,
    mSubscriberCounts,
    kioskMode,          \* SettingManager::getKioskMode()
    pluggedIn,          \* the power supply, as im->updateBatteryInfo() reads it
    running,            \* the m<Job>Running flags
    collecting,         \* jobs of a kind in the thread pool
    posted,             \* results of a kind queued for the UI thread
    oomdReady           \* mOomdElapsedTimer: invalid, or expired 30 s ago

modeVars   == <<mPowerMode, mFocused, mOnBattery>>
workerVars == <<running, collecting, posted, oomdReady>>
envVars    == <<kioskMode, pluggedIn>>
vars == <<phase, timers, mPaused, mProcessPaused, modeVars, mSubscriberCounts,
          envVars, workerVars>>

hasSubscribers(s) == s \in Signals /\ mSubscriberCounts[s] > 0

--------------------------------------------------------------------------------
(* Power mode. *)

TargetMode(focused, onBattery) ==
    CASE ~focused              -> "Unfocused"
      [] focused /\ onBattery  -> "Battery"
      [] focused /\ ~onBattery -> "Normal"

\* Seeded fault: only the fast timer follows a change of mode.
RetimedFastOnly(tms, mode) ==
    [t \in Timers |-> IF mode # mPowerMode /\ t = "fast" /\ tms[t].active
                      THEN [active |-> TRUE, interval |-> Cadence[mode][t]]
                      ELSE tms[t]]

\* setPowerMode() returns early on an unchanged mode, and otherwise restarts
\* the tick timers that are active; the others keep the interval they had.
Retimed(tms, mode) ==
    [t \in Timers |-> IF mode # mPowerMode /\ t \in TickTimers /\ tms[t].active
                      THEN [active |-> TRUE, interval |-> Cadence[mode][t]]
                      ELSE tms[t]]

\* What the battery block of onFastTick() leaves in mOnBattery and mPowerMode.
OnBatteryAfterFastTick ==
    IF hasSubscribers("Battery") /\ HasBattery THEN ~pluggedIn ELSE mOnBattery

\* Seeded fault: batteryUpdated is not connected to recomputePowerMode().
ModeAfterFastTickDeaf == mPowerMode

ModeAfterFastTick ==
    IF OnBatteryAfterFastTick # mOnBattery
    THEN TargetMode(mFocused, OnBatteryAfterFastTick)
    ELSE mPowerMode

FastTick == /\ mOnBattery' = OnBatteryAfterFastTick
            /\ mPowerMode' = ModeAfterFastTick
            /\ UNCHANGED mFocused

--------------------------------------------------------------------------------
(* Background jobs. *)

Idle(k) == k \in Workers /\ ~running[k]

MediumJobs ==
    {k \in {"diskUsage"} : hasSubscribers("DiskUsage") /\ Idle(k)} \union
    {k \in {"oomd"}      : hasSubscribers("Oomd") /\ Idle(k) /\ oomdReady}

\* Seeded fault: onSlowTick() does not look at mDiskHealthRunning.
SlowJobsUnguarded == {"diskHealth"} \intersect Workers

SlowJobs    == {k \in {"diskHealth"} : Idle(k)}
ProcessJobs == {k \in {"process"} : Idle(k)}
UpdateJobs  == {k \in {"update"} : Idle(k) /\ HasUpdateSources}
RepoJobs    == {k \in {"repoHealth"} : Idle(k)}

Launch(jobs) ==
    /\ running' = [k \in Workers |-> running[k] \/ k \in jobs]
    /\ collecting' = [k \in Workers |->
                        collecting[k] + IF k \in jobs THEN 1 ELSE 0]
    /\ oomdReady' = (oomdReady /\ "oomd" \notin jobs)
    /\ UNCHANGED posted

\* The worker ends and invokes its completion with a queued connection.
CollectDone(k) ==
    /\ collecting[k] > 0
    /\ collecting' = [collecting EXCEPT ![k] = @ - 1]
    /\ posted' = [posted EXCEPT ![k] = @ + 1]
    /\ UNCHANGED <<phase, timers, mPaused, mProcessPaused, modeVars,
                   mSubscriberCounts, envVars, running, oomdReady>>

\* The completion: publish the result, clear the flag, emit the signal.
Publish(k) ==
    /\ posted[k] > 0
    /\ posted' = [posted EXCEPT ![k] = @ - 1]
    /\ running' = [running EXCEPT ![k] = FALSE]
    /\ UNCHANGED <<phase, timers, mPaused, mProcessPaused, modeVars,
                   mSubscriberCounts, envVars, collecting, oomdReady>>

OomdThrottleExpires ==
    /\ ~oomdReady
    /\ oomdReady' = TRUE
    /\ UNCHANGED <<phase, timers, mPaused, mProcessPaused, modeVars,
                   mSubscriberCounts, envVars, running, collecting, posted>>

--------------------------------------------------------------------------------
(* Timers' timeouts.  When they fire is the event loop's choice. *)

onFastTick ==
    /\ timers["fast"].active
    /\ FastTick
    /\ timers' = Retimed(timers, ModeAfterFastTick)
    /\ UNCHANGED <<phase, mPaused, mProcessPaused, mSubscriberCounts, envVars,
                   workerVars>>

TimerJobs(t) == CASE t = "medium"  -> MediumJobs
                  [] t = "slow"    -> SlowJobs
                  [] t = "process" -> ProcessJobs
                  [] t = "update"  -> UpdateJobs

JobTick(t) ==
    /\ timers[t].active
    /\ Launch(TimerJobs(t))
    /\ UNCHANGED <<phase, timers, mPaused, mProcessPaused, modeVars,
                   mSubscriberCounts, envVars>>

--------------------------------------------------------------------------------
(* Life cycle. *)

\* Ticks first, so pages have data before the first paint; timers after.
start ==
    /\ phase = "constructed"
    /\ phase' = "started"
    /\ FastTick
    /\ Launch(MediumJobs \union SlowJobs \union UpdateJobs)
    /\ timers' = [t \in Timers |->
         CASE t \in TickTimers -> [active |-> TRUE, interval |-> Cadence["Normal"][t]]
           [] t = "update" /\ HasUpdateSources ->
                [active |-> TRUE, interval |-> Hour]
           [] OTHER -> timers[t]]
    /\ UNCHANGED <<mPaused, mProcessPaused, mSubscriberCounts, envVars>>

AllStopped == [t \in Timers |-> [timers[t] EXCEPT !.active = FALSE]]

stop ==
    /\ phase = "started"
    /\ phase' = "stopped"
    /\ timers' = AllStopped
    /\ mPaused' = TRUE
    /\ UNCHANGED <<mProcessPaused, modeVars, mSubscriberCounts, envVars, workerVars>>

\* sigAppVisibilityChanged(false): close or minimize to the tray.
pause ==
    /\ phase = "started"
    /\ ~mPaused
    /\ ~kioskMode
    /\ mPaused' = TRUE
    /\ timers' = AllStopped
    /\ UNCHANGED <<phase, mProcessPaused, modeVars, mSubscriberCounts, envVars,
                   workerVars>>

\* Seeded fault: resume() starts the process timer whatever its own pause says.
ResumedTimersProcessToo ==
    TickTimers \union {"process"} \union {t \in {"update"} : HasUpdateSources}

\* Seeded fault: resume() forgets the slow timer.
ResumedTimersNotSlow ==
    {"fast", "medium"} \union {t \in {"process"} : ~mProcessPaused}
                       \union {t \in {"update"} : HasUpdateSources}

\* The timers resume() starts, at whatever interval each of them holds.
ResumedTimers ==
    TickTimers \union {t \in {"process"} : ~mProcessPaused}
               \union {t \in {"update"} : HasUpdateSources}

\* sigAppVisibilityChanged(true): the window is shown again.
resume ==
    /\ phase = "started"
    /\ mPaused
    /\ mPaused' = FALSE
    /\ FastTick
    /\ Launch(MediumJobs)
    /\ timers' = [t \in Timers |->
         IF t \in ResumedTimers
         THEN [Retimed(timers, ModeAfterFastTick)[t] EXCEPT !.active = TRUE]
         ELSE Retimed(timers, ModeAfterFastTick)[t]]
    /\ UNCHANGED <<phase, mProcessPaused, mSubscriberCounts, envVars>>

--------------------------------------------------------------------------------
(* Requests of pages and of the window. *)

sigAppFocusChanged(focused) ==
    /\ phase = "started"
    /\ mFocused' = focused
    /\ mPowerMode' = TargetMode(focused, mOnBattery)
    /\ timers' = Retimed(timers, mPowerMode')
    /\ UNCHANGED <<phase, mPaused, mProcessPaused, mOnBattery, mSubscriberCounts,
                   envVars, workerVars>>

subscribe(s) ==
    /\ phase # "stopped"
    /\ mSubscriberCounts[s] < MaxSubscribers
    /\ mSubscriberCounts' = [mSubscriberCounts EXCEPT ![s] = @ + 1]
    /\ UNCHANGED <<phase, timers, mPaused, mProcessPaused, modeVars, envVars,
                   workerVars>>

\* Seeded fault: no floor under the count.
unsubscribeUnfloored(s) ==
    /\ mSubscriberCounts' = [mSubscriberCounts EXCEPT ![s] = @ - 1]
    /\ UNCHANGED <<phase, timers, mPaused, mProcessPaused, modeVars, envVars,
                   workerVars>>

unsubscribe(s) ==
    /\ mSubscriberCounts[s] > 0
    /\ mSubscriberCounts' = [mSubscriberCounts EXCEPT ![s] = @ - 1]
    /\ UNCHANGED <<phase, timers, mPaused, mProcessPaused, modeVars, envVars,
                   workerVars>>

setProcessRefreshInterval(ms) ==
    /\ phase # "stopped"
    /\ timers' = [timers EXCEPT !["process"].interval = ms]
    /\ UNCHANGED <<phase, mPaused, mProcessPaused, modeVars, mSubscriberCounts,
                   envVars, workerVars>>

pauseProcessTimer ==
    /\ phase # "stopped"
    /\ ~mProcessPaused
    /\ mProcessPaused' = TRUE
    /\ timers' = [timers EXCEPT !["process"].active = FALSE]
    /\ UNCHANGED <<phase, mPaused, modeVars, mSubscriberCounts, envVars, workerVars>>

resumeProcessTimer ==
    /\ phase # "stopped"
    /\ mProcessPaused
    /\ mProcessPaused' = FALSE
    /\ IF mPaused
       THEN UNCHANGED <<timers, workerVars>>
       ELSE /\ Launch(ProcessJobs)
            /\ timers' = [timers EXCEPT !["process"] =
                 [active |-> TRUE,
                  interval |-> IF @.interval > 0 THEN @.interval ELSE 1000]]
    /\ UNCHANGED <<phase, mPaused, modeVars, mSubscriberCounts, envVars>>

\* triggerDiskHealthCheck, triggerProcessRefresh, triggerUpdateCheck and
\* triggerRepoHealthCheck: a request is dropped while its job is running.
trigger(jobs) ==
    /\ phase = "started"
    /\ Launch(jobs)
    /\ UNCHANGED <<phase, timers, mPaused, mProcessPaused, modeVars,
                   mSubscriberCounts, envVars>>

--------------------------------------------------------------------------------
(* What the service only observes. *)

kioskToggled ==
    /\ phase = "started"
    /\ kioskMode' = ~kioskMode
    /\ UNCHANGED <<phase, timers, mPaused, mProcessPaused, modeVars,
                   mSubscriberCounts, pluggedIn, workerVars>>

powerSupplyChanged ==
    /\ HasBattery
    /\ pluggedIn' = ~pluggedIn
    /\ UNCHANGED <<phase, timers, mPaused, mProcessPaused, modeVars,
                   mSubscriberCounts, kioskMode, workerVars>>

--------------------------------------------------------------------------------

Init ==
    /\ phase = "constructed"
    /\ timers = [t \in Timers |-> [active |-> FALSE, interval |-> 0]]
    /\ mPaused = FALSE
    /\ mProcessPaused = TRUE
    /\ mPowerMode = "Normal"
    /\ mFocused = TRUE
    /\ mOnBattery = FALSE
    /\ mSubscriberCounts = [s \in Signals |-> 0]
    /\ kioskMode \in BOOLEAN
    /\ pluggedIn \in (IF HasBattery THEN BOOLEAN ELSE {TRUE})
    /\ running = [k \in Workers |-> FALSE]
    /\ collecting = [k \in Workers |-> 0]
    /\ posted = [k \in Workers |-> 0]
    /\ oomdReady = TRUE

PageRequest ==
    \/ \E s \in Signals : subscribe(s) \/ unsubscribe(s)
    \/ \E ms \in SliderIntervals : setProcessRefreshInterval(ms)
    \/ pauseProcessTimer
    \/ resumeProcessTimer
    \/ \E jobs \in {SlowJobs, ProcessJobs, UpdateJobs, RepoJobs} : trigger(jobs)

WindowEvent ==
    \/ start
    \/ stop
    \/ pause
    \/ resume
    \/ \E focused \in BOOLEAN : sigAppFocusChanged(focused)

Next ==
    \/ PageRequest
    \/ WindowEvent
    \/ onFastTick
    \/ \E t \in Timers \ {"fast"} : JobTick(t)
    \/ \E k \in Workers : CollectDone(k) \/ Publish(k)
    \/ OomdThrottleExpires
    \/ kioskToggled
    \/ powerSupplyChanged

Spec == Init /\ [][Next]_vars

\* setPowerMode() restarts the tick timers again and again: each change of mode sets
\* their intervals anew, and the wait begins from nothing.
Restarted == []<><<mPowerMode' # mPowerMode>>_vars

\* An active tick timer fires unless it is restarted for ever.
\* smartctl has a time-out, so a collection of drive health ends; the event loop
\* serves its queued result, and App::init() calls start().  Nothing is assumed
\* of the other workers.
Fairness ==
    /\ WF_vars(start)
    /\ WF_vars(onFastTick) \/ Restarted
    /\ WF_vars(JobTick("slow")) \/ Restarted
    /\ \A k \in Workers \intersect {"diskHealth"} :
           WF_vars(CollectDone(k)) /\ WF_vars(Publish(k))

FairSpec == Spec /\ Fairness

--------------------------------------------------------------------------------
(* Properties. *)

\* Every variable keeps its type.
TypeOK ==
    /\ phase \in {"constructed", "started", "stopped"}
    /\ timers \in [Timers -> [active : BOOLEAN, interval : Nat]]
    /\ mPaused \in BOOLEAN
    /\ mProcessPaused \in BOOLEAN
    /\ mPowerMode \in PowerModes
    /\ mFocused \in BOOLEAN
    /\ mOnBattery \in BOOLEAN
    /\ mSubscriberCounts \in [Signals -> Nat]
    /\ kioskMode \in BOOLEAN
    /\ pluggedIn \in BOOLEAN
    /\ running \in [Workers -> BOOLEAN]
    /\ collecting \in [Workers -> Nat]
    /\ posted \in [Workers -> Nat]
    /\ oomdReady \in BOOLEAN

\* The m<Job>Running flags tell the truth: a set flag stands for exactly one
\* job, in the pool or on its way back, and a clear flag for none.  Timer,
\* trigger and resume can all start the same job, and none may double it.
SingleFlight ==
    \A k \in Workers : collecting[k] + posted[k] = IF running[k] THEN 1 ELSE 0

\* pause(), resume(), pauseProcessTimer() and resumeProcessTimer() may come in
\* any order; the timers that are active are always the ones the two pause
\* flags call for.
TimersFollowPause ==
    /\ mPaused => \A t \in Timers : ~timers[t].active
    /\ ~mPaused =>
         /\ \A t \in TickTimers : timers[t].active <=> phase = "started"
         /\ timers["process"].active <=> ~mProcessPaused
         /\ timers["update"].active <=> (phase = "started" /\ HasUpdateSources)

\* The fast, medium and slow timers are never left on intervals of different
\* power modes by a switch that reached only some of them.
OneTier ==
    phase # "constructed" =>
        \E mode \in PowerModes :
            \A t \in TickTimers : timers[t].interval = Cadence[mode][t]

\* The power mode is the one the last known focus and battery state call for,
\* also after ticks that ran inside start() and resume().
ModeFollowsInputs == mPowerMode = TargetMode(mFocused, mOnBattery)

\* Both: whatever interrupts a switch of modes, one mode is in force.
OneMode == OneTier /\ ModeFollowsInputs

\* The documented cadence: an active tick timer runs at the interval of the
\* current power mode.
CadenceFollowsMode ==
    \A t \in TickTimers :
        timers[t].active => timers[t].interval = Cadence[mPowerMode][t]

\* While the window stays visible in one power mode, drive health keeps being
\* collected, however often the window was hidden and the mode changed before,
\* and its flag is not left set, which would silence its signal for the rest of
\* the session.  (Modes that change for ever, each within the interval of the
\* slow timer, can keep it from firing.)
DiskHealthKeepsRefreshing ==
    "diskHealth" \in Workers =>
        \A mode \in PowerModes :
            <>[](phase = "started" /\ ~mPaused /\ mPowerMode = mode) =>
                []<>running["diskHealth"] /\ []<>~running["diskHealth"]

\* A focused, visible window with a battery subscriber that stays unplugged
\* ends up in Battery mode.
BatteryEventuallySeen ==
    <>[](/\ phase = "started" /\ ~mPaused /\ mFocused
         /\ HasBattery /\ hasSubscribers("Battery") /\ ~pluggedIn)
        => <>[](mPowerMode = "Battery")
================================================================================
