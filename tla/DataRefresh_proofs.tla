--------------------------- MODULE DataRefresh_proofs ---------------------------
(***************************************************************************)
(* Theorems about DataRefresh for every set of signals and of jobs, with   *)
(* or without a battery and update sources, and with no bound on the       *)
(* subscriptions.  The inductive invariant falls in two independent parts: *)
(* the job flags against the pool, and the timers against the pause flags  *)
(* and the power mode.                                                     *)
(***************************************************************************)
EXTENDS DataRefresh, AptSources, TLAPS

JobVars == <<running, collecting, posted, oomdReady>>
TimerVars == <<phase, timers, mPaused, mProcessPaused, mPowerMode, mFocused, mOnBattery>>

JobTypes ==
    /\ running \in [Workers -> BOOLEAN]
    /\ collecting \in [Workers -> Nat]
    /\ posted \in [Workers -> Nat]
    /\ oomdReady \in BOOLEAN

TimerTypes ==
    /\ phase \in {"constructed", "started", "stopped"}
    /\ timers \in [Timers -> [active : BOOLEAN, interval : Nat]]
    /\ mPaused \in BOOLEAN
    /\ mProcessPaused \in BOOLEAN
    /\ mPowerMode \in PowerModes
    /\ mFocused \in BOOLEAN
    /\ mOnBattery \in BOOLEAN

OtherTypes ==
    /\ mSubscriberCounts \in [Signals -> Nat]
    /\ kioskMode \in BOOLEAN
    /\ pluggedIn \in BOOLEAN

JobsInv  == JobTypes /\ SingleFlight

\* The strengthening start() needs: nothing pauses a service that has not started.
RunsFromStart == phase = "constructed" => ~mPaused

TimersInv ==
    TimerTypes /\ TimersFollowPause /\ OneTier /\ ModeFollowsInputs /\ RunsFromStart

\* The inductive invariant.
IInv == JobsInv /\ TimersInv /\ OtherTypes

--------------------------------------------------------------------------------
(* Jobs. *)

\* Every set of jobs the code starts consists of known jobs whose flag is clear.
LEMMA JobSetsIdle ==
    \A jobs \in {MediumJobs, SlowJobs, ProcessJobs, UpdateJobs, RepoJobs,
                 MediumJobs \union SlowJobs \union UpdateJobs} :
        \A k \in jobs : k \in Workers /\ ~running[k]
BY DEF MediumJobs, SlowJobs, ProcessJobs, UpdateJobs, RepoJobs, Idle

\* Starting jobs whose flag is clear keeps flags and pool in step.
LEMMA LaunchKeepsJobs ==
    ASSUME JobsInv, NEW jobs, \A k \in jobs : k \in Workers /\ ~running[k],
           Launch(jobs)
    PROVE  JobsInv'
<1>1. JobTypes'
  BY DEF JobsInv, JobTypes, Launch
<1>2. SingleFlight'
  <2> SUFFICES ASSUME NEW k \in Workers
               PROVE  collecting'[k] + posted'[k] = IF running'[k] THEN 1 ELSE 0
    BY DEF SingleFlight
  <2>1. collecting[k] + posted[k] = IF running[k] THEN 1 ELSE 0
    BY DEF JobsInv, SingleFlight
  <2>2. /\ running'[k] = (running[k] \/ k \in jobs)
        /\ collecting'[k] = collecting[k] + IF k \in jobs THEN 1 ELSE 0
        /\ posted'[k] = posted[k]
    BY DEF Launch
  <2>3. collecting[k] \in Nat /\ posted[k] \in Nat /\ running[k] \in BOOLEAN
    BY DEF JobsInv, JobTypes
  <2>4. CASE k \in jobs
    <3>1. ~running[k] /\ running'[k]
      BY <2>2, <2>3, <2>4
    <3>2. collecting[k] + posted[k] = 0 /\ collecting'[k] = collecting[k] + 1
      BY <2>1, <2>2, <2>4, <3>1
    <3> QED
      BY <2>2, <2>3, <3>1, <3>2
  <2>5. CASE k \notin jobs
    BY <2>1, <2>2, <2>3, <2>5
  <2> QED
    BY <2>4, <2>5
<1> QED
  BY <1>1, <1>2 DEF JobsInv

\* A step that leaves the jobs alone.
LEMMA SameJobs == ASSUME JobsInv, UNCHANGED workerVars PROVE JobsInv'
BY DEF JobsInv, JobTypes, SingleFlight, workerVars

\* A job that ends moves from the pool to the queue.
LEMMA CollectDoneKeepsJobs ==
    ASSUME JobsInv, NEW k \in Workers, CollectDone(k) PROVE JobsInv'
<1>1. JobTypes'
  BY DEF JobsInv, JobTypes, CollectDone
<1>2. SingleFlight'
  BY DEF JobsInv, JobTypes, SingleFlight, CollectDone
<1> QED
  BY <1>1, <1>2 DEF JobsInv

\* A completion takes the one job of its kind off the queue and clears its flag.
LEMMA PublishKeepsJobs ==
    ASSUME JobsInv, NEW k \in Workers, Publish(k) PROVE JobsInv'
<1>1. JobTypes'
  BY DEF JobsInv, JobTypes, Publish
<1>2. SingleFlight'
  BY DEF JobsInv, JobTypes, SingleFlight, Publish
<1> QED
  BY <1>1, <1>2 DEF JobsInv

--------------------------------------------------------------------------------
(* Timers. *)

LEMMA CadenceType ==
    \A mode \in PowerModes : \A t \in TickTimers : Cadence[mode][t] \in Nat
BY DEF PowerModes, TickTimers, Cadence

LEMMA HourType == Hour \in Nat
BY SMT DEF Hour

LEMMA TargetModeType ==
    ASSUME NEW focused \in BOOLEAN, NEW onBattery \in BOOLEAN
    PROVE  TargetMode(focused, onBattery) \in PowerModes
BY DEF TargetMode, PowerModes

\* setPowerMode() starts and stops nothing.
LEMMA RetimedType ==
    ASSUME TimerTypes, NEW mode \in PowerModes
    PROVE  /\ Retimed(timers, mode) \in [Timers -> [active : BOOLEAN, interval : Nat]]
           /\ \A t \in Timers : Retimed(timers, mode)[t].active = timers[t].active
BY CadenceType DEF TimerTypes, Retimed

\* The tick timers are all active or all inactive, hence retimed together.
LEMMA RetimedTier ==
    ASSUME TimersInv, phase # "constructed", NEW mode \in PowerModes
    PROVE  \E m \in PowerModes : \A t \in TickTimers :
               Retimed(timers, mode)[t].interval = Cadence[m][t]
<1>1. TickTimers \subseteq Timers
  BY DEF Timers
<1>2. CASE mode = mPowerMode
  <2>1. \A t \in TickTimers : Retimed(timers, mode)[t].interval = timers[t].interval
    BY <1>1, <1>2 DEF Retimed
  <2> QED
    BY <2>1 DEF TimersInv, OneTier
<1>3. CASE mode # mPowerMode /\ ~mPaused /\ phase = "started"
  <2>1. \A t \in TickTimers : timers[t].active
    BY <1>3 DEF TimersInv, TimersFollowPause
  <2>2. \A t \in TickTimers : Retimed(timers, mode)[t].interval = Cadence[mode][t]
    BY <1>1, <1>3, <2>1 DEF Retimed
  <2> QED
    BY <2>2
<1>4. CASE mPaused \/ phase # "started"
  <2>1. \A t \in TickTimers : ~timers[t].active
    BY <1>1, <1>4 DEF TimersInv, TimerTypes, TimersFollowPause
  <2>2. \A t \in TickTimers : Retimed(timers, mode)[t].interval = timers[t].interval
    BY <1>1, <2>1 DEF Retimed
  <2> QED
    BY <2>2 DEF TimersInv, OneTier
<1> QED
  BY <1>2, <1>3, <1>4

\* What a fast tick leaves of mode, focus and battery belongs together.
LEMMA FastTickModes ==
    ASSUME TimersInv, OtherTypes, FastTick
    PROVE  /\ mPowerMode' \in PowerModes /\ mFocused' \in BOOLEAN
           /\ mOnBattery' \in BOOLEAN
           /\ ModeFollowsInputs'
           /\ ModeAfterFastTick = mPowerMode'
<1>1. OnBatteryAfterFastTick \in BOOLEAN
  BY DEF TimersInv, TimerTypes, OtherTypes, OnBatteryAfterFastTick
<1>2. mFocused \in BOOLEAN /\ mOnBattery \in BOOLEAN /\ mPowerMode \in PowerModes
  BY DEF TimersInv, TimerTypes
<1>3. TargetMode(mFocused, OnBatteryAfterFastTick) \in PowerModes
  BY <1>1, <1>2, TargetModeType
<1>4. mPowerMode = TargetMode(mFocused, mOnBattery)
  BY DEF TimersInv, ModeFollowsInputs
<1>5. ModeAfterFastTick = TargetMode(mFocused, OnBatteryAfterFastTick)
  BY <1>4 DEF ModeAfterFastTick
<1> QED
  BY <1>1, <1>2, <1>3, <1>5 DEF FastTick, ModeFollowsInputs

\* A step that leaves the timers and what they depend on alone.
LEMMA SameTimers == ASSUME TimersInv, UNCHANGED TimerVars PROVE TimersInv'
BY DEF TimersInv, TimerTypes, TimersFollowPause, OneTier, ModeFollowsInputs, TimerVars,
       RunsFromStart

LEMMA FastTickKeepsTimers ==
    ASSUME TimersInv, OtherTypes, onFastTick PROVE TimersInv'
<1>1. /\ phase = "started" /\ phase' = phase
      /\ mPaused' = mPaused /\ mProcessPaused' = mProcessPaused
      /\ timers' = Retimed(timers, mPowerMode')
      /\ mPowerMode' \in PowerModes /\ mFocused' \in BOOLEAN /\ mOnBattery' \in BOOLEAN
      /\ ModeFollowsInputs'
  BY FastTickModes
     DEF onFastTick, TimersInv, TimerTypes, TimersFollowPause, Timers, TickTimers
<1>2. TimerTypes'
  BY <1>1, RetimedType DEF TimersInv, TimerTypes
<1>3. TimersFollowPause'
  BY <1>1, RetimedType DEF TimersInv, TimersFollowPause, Timers, TickTimers
<1>4. OneTier'
  BY <1>1, RetimedTier DEF OneTier
<1> QED
  BY <1>1, <1>2, <1>3, <1>4 DEF TimersInv, RunsFromStart

LEMMA FocusKeepsTimers ==
    ASSUME TimersInv, NEW focused \in BOOLEAN, sigAppFocusChanged(focused)
    PROVE  TimersInv'
<1>1. /\ phase = "started" /\ phase' = phase
      /\ mPaused' = mPaused /\ mProcessPaused' = mProcessPaused
      /\ mFocused' = focused /\ mOnBattery' = mOnBattery /\ mOnBattery \in BOOLEAN
      /\ mPowerMode' = TargetMode(focused, mOnBattery)
      /\ timers' = Retimed(timers, mPowerMode')
  BY DEF sigAppFocusChanged, TimersInv, TimerTypes
<1>2. mPowerMode' \in PowerModes
  BY <1>1, TargetModeType
<1>3. TimerTypes'
  BY <1>1, <1>2, RetimedType DEF TimersInv, TimerTypes
<1>4. TimersFollowPause'
  BY <1>1, <1>2, RetimedType DEF TimersInv, TimersFollowPause, Timers, TickTimers
<1>5. OneTier'
  BY <1>1, <1>2, RetimedTier DEF OneTier
<1>6. ModeFollowsInputs'
  BY <1>1 DEF ModeFollowsInputs
<1> QED
  BY <1>1, <1>3, <1>4, <1>5, <1>6 DEF TimersInv, RunsFromStart

LEMMA StartKeepsTimers ==
    ASSUME TimersInv, OtherTypes, start PROVE TimersInv'
<1>1. /\ phase = "constructed" /\ phase' = "started" /\ FastTick
      /\ mPaused' = mPaused /\ mProcessPaused' = mProcessPaused
      /\ timers' = [t \in Timers |->
           CASE t \in TickTimers -> [active |-> TRUE, interval |-> Cadence["Normal"][t]]
             [] t = "update" /\ HasUpdateSources ->
                  [active |-> TRUE, interval |-> Hour]
             [] OTHER -> timers[t]]
  BY DEF start
<1>2. /\ mPowerMode' \in PowerModes /\ mFocused' \in BOOLEAN /\ mOnBattery' \in BOOLEAN
      /\ ModeFollowsInputs'
  BY <1>1, FastTickModes
<1>3. \A t \in TickTimers :
         /\ timers'[t].active
         /\ timers'[t].interval = Cadence["Normal"][t]
         /\ timers'[t] \in [active : BOOLEAN, interval : Nat]
  BY <1>1, CadenceType DEF Timers, TickTimers, PowerModes
<1>4. /\ timers'["process"] = timers["process"]
      /\ timers'["update"] = IF HasUpdateSources
                             THEN [active |-> TRUE, interval |-> Hour]
                             ELSE timers["update"]
  BY <1>1 DEF Timers, TickTimers
<1>5. TimerTypes'
  <2>1. \A t \in {"process", "update"} : timers'[t] \in [active : BOOLEAN, interval : Nat]
    <3>1. [active |-> TRUE, interval |-> Hour] \in [active : BOOLEAN, interval : Nat]
      BY HourType
    <3>2. \A t \in {"process", "update"} : timers[t] \in [active : BOOLEAN, interval : Nat]
      BY DEF TimersInv, TimerTypes, Timers
    <3> QED
      BY <1>4, <3>1, <3>2
  <2>2. timers' \in [Timers -> [active : BOOLEAN, interval : Nat]]
    BY <1>1, <1>3, <2>1 DEF Timers
  <2> QED
    BY <1>1, <1>2, <2>2 DEF TimersInv, TimerTypes
<1>6. TimersFollowPause'
  <2>1. ~mPaused /\ ~mPaused'
    BY <1>1 DEF TimersInv, RunsFromStart
  <2>2. timers'["process"].active <=> ~mProcessPaused'
    BY <1>1, <1>4, <2>1 DEF TimersInv, TimersFollowPause
  <2>3. timers'["update"].active <=> HasUpdateSources
    BY <1>1, <1>4, <2>1 DEF TimersInv, TimersFollowPause
  <2> QED
    BY <1>1, <1>3, <2>1, <2>2, <2>3 DEF TimersFollowPause
<1>7. OneTier'
  BY <1>3 DEF OneTier, PowerModes
<1> QED
  BY <1>1, <1>2, <1>5, <1>6, <1>7 DEF TimersInv, RunsFromStart

LEMMA StopKeepsTimers == ASSUME TimersInv, stop \/ pause PROVE TimersInv'
<1>1. /\ phase = "started" /\ phase' \in {"started", "stopped"}
      /\ mPaused' = TRUE /\ timers' = AllStopped
      /\ UNCHANGED <<mProcessPaused, mPowerMode, mFocused, mOnBattery>>
  BY DEF stop, pause, modeVars
<1>2. \A t \in Timers : /\ AllStopped[t] \in [active : BOOLEAN, interval : Nat]
                        /\ ~AllStopped[t].active
                        /\ AllStopped[t].interval = timers[t].interval
  BY DEF AllStopped, TimersInv, TimerTypes
<1>3. TimerTypes'
  BY <1>1, <1>2 DEF TimersInv, TimerTypes, AllStopped
<1>4. TimersFollowPause' /\ OneTier' /\ ModeFollowsInputs'
  BY <1>1, <1>2
     DEF TimersInv, TimersFollowPause, OneTier, ModeFollowsInputs, Timers, TickTimers
<1> QED
  BY <1>1, <1>3, <1>4 DEF TimersInv, RunsFromStart

LEMMA ResumeKeepsTimers ==
    ASSUME TimersInv, OtherTypes, resume PROVE TimersInv'
<1> DEFINE R == Retimed(timers, mPowerMode')
<1>1. /\ phase = "started" /\ phase' = phase /\ FastTick
      /\ mPaused /\ mPaused' = FALSE /\ mProcessPaused' = mProcessPaused
  BY DEF resume
<1>2. /\ mPowerMode' \in PowerModes /\ mFocused' \in BOOLEAN /\ mOnBattery' \in BOOLEAN
      /\ ModeFollowsInputs' /\ ModeAfterFastTick = mPowerMode'
  BY <1>1, FastTickModes
<1>3. timers' = [t \in Timers |-> IF t \in ResumedTimers
                                  THEN [R[t] EXCEPT !.active = TRUE] ELSE R[t]]
  BY <1>2 DEF resume
<1>4. /\ R \in [Timers -> [active : BOOLEAN, interval : Nat]]
      /\ \A t \in Timers : ~R[t].active
  BY <1>1, <1>2, RetimedType DEF TimersInv, TimersFollowPause
<1>5. \A t \in Timers : /\ timers'[t] \in [active : BOOLEAN, interval : Nat]
                        /\ timers'[t].active = (t \in ResumedTimers)
                        /\ timers'[t].interval = R[t].interval
  <2> SUFFICES ASSUME NEW t \in Timers
               PROVE  /\ timers'[t] \in [active : BOOLEAN, interval : Nat]
                      /\ timers'[t].active = (t \in ResumedTimers)
                      /\ timers'[t].interval = R[t].interval
    OBVIOUS
  <2>1. R[t] \in [active : BOOLEAN, interval : Nat] /\ R[t].active = FALSE
    BY <1>4
  <2>2. CASE t \in ResumedTimers
    <3>1. timers'[t] = [R[t] EXCEPT !.active = TRUE]
      BY <1>3, <2>2
    <3> HIDE DEF R
    <3> QED
      BY <2>1, <2>2, <3>1
  <2>3. CASE t \notin ResumedTimers
    <3>1. timers'[t] = R[t]
      BY <1>3, <2>3
    <3> HIDE DEF R
    <3> QED
      BY <2>1, <2>3, <3>1
  <2> QED
    BY <2>2, <2>3
<1>6. TimerTypes'
  <2>1. timers' \in [Timers -> [active : BOOLEAN, interval : Nat]]
    <3> HIDE DEF R
    <3> QED
      BY <1>3, <1>5
  <2> QED
    BY <1>1, <1>2, <2>1 DEF TimersInv, TimerTypes
<1>7. TimersFollowPause'
  BY <1>1, <1>5 DEF TimersFollowPause, ResumedTimers, Timers, TickTimers
<1>8. OneTier'
  BY <1>1, <1>2, <1>5, RetimedTier DEF OneTier, Timers
<1> QED
  BY <1>1, <1>2, <1>6, <1>7, <1>8 DEF TimersInv, RunsFromStart

\* The Processes page's timer: its interval, its pause and its resumption.
LEMMA ProcessTimerKeepsTimers ==
    ASSUME TimersInv,
           \/ \E ms \in SliderIntervals : setProcessRefreshInterval(ms)
           \/ pauseProcessTimer
           \/ resumeProcessTimer
    PROVE  TimersInv'
<1>1. /\ phase' = phase /\ phase # "stopped" /\ mPaused' = mPaused
      /\ UNCHANGED <<mPowerMode, mFocused, mOnBattery>>
  BY DEF setProcessRefreshInterval, pauseProcessTimer, resumeProcessTimer, modeVars
<1>2. /\ timers \in [Timers -> [active : BOOLEAN, interval : Nat]]
      /\ "process" \in Timers
  BY DEF TimersInv, TimerTypes, Timers
<1>3. /\ mProcessPaused' \in BOOLEAN
      /\ timers' \in [Timers -> [active : BOOLEAN, interval : Nat]]
      /\ \A t \in Timers \ {"process"} : timers'[t] = timers[t]
      /\ ~mPaused => (timers'["process"].active <=> ~mProcessPaused')
      /\ mPaused => ~timers'["process"].active
  <2>1. CASE \E ms \in SliderIntervals : setProcessRefreshInterval(ms)
    <3>1. PICK ms \in SliderIntervals : setProcessRefreshInterval(ms)
      BY <2>1
    <3>2. ms \in Nat
      BY ConstantsAssumption DEF ConstantsAssumption
    <3>3. /\ mProcessPaused' = mProcessPaused
          /\ timers' = [timers EXCEPT !["process"].interval = ms]
      BY <3>1 DEF setProcessRefreshInterval
    <3>4. timers'["process"].active = timers["process"].active
      BY <1>2, <3>3
    <3> QED
      BY <1>2, <3>2, <3>3, <3>4 DEF TimersInv, TimerTypes, TimersFollowPause
  <2>2. CASE pauseProcessTimer
    <3>1. mProcessPaused' = TRUE /\ timers' = [timers EXCEPT !["process"].active = FALSE]
      BY <2>2 DEF pauseProcessTimer
    <3>2. ~timers'["process"].active
      BY <1>2, <3>1
    <3> QED
      BY <1>2, <3>1, <3>2
  <2>3. CASE resumeProcessTimer
    <3>1. CASE mPaused
      BY <1>2, <2>3, <3>1 DEF resumeProcessTimer, TimersInv, TimersFollowPause
    <3>2. CASE ~mPaused
      <4> DEFINE old == timers["process"].interval
                 new == [active |-> TRUE, interval |-> IF old > 0 THEN old ELSE 1000]
      <4>1. timers' = [timers EXCEPT !["process"] = new]
        BY <1>2, <2>3, <3>2 DEF resumeProcessTimer
      <4>3. new \in [active : BOOLEAN, interval : Nat] /\ new.active = TRUE
        BY <1>2
      <4>2. mProcessPaused' = FALSE
        BY <2>3 DEF resumeProcessTimer
      <4> HIDE DEF new
      <4> QED
        BY <1>2, <3>2, <4>1, <4>2, <4>3
    <3> QED
      BY <3>1, <3>2
  <2> QED
    BY <2>1, <2>2, <2>3
<1>4. TimerTypes'
  BY <1>1, <1>3 DEF TimersInv, TimerTypes
<1>5. TimersFollowPause' /\ OneTier' /\ ModeFollowsInputs'
  BY <1>1, <1>3
     DEF TimersInv, TimerTypes, TimersFollowPause, OneTier, ModeFollowsInputs, Timers, TickTimers
<1> QED
  BY <1>1, <1>4, <1>5 DEF TimersInv, RunsFromStart

--------------------------------------------------------------------------------
(* The theorems. *)

LEMMA InitInv == Init => IInv
<1> SUFFICES ASSUME Init PROVE IInv
  OBVIOUS
<1>1. JobsInv
  BY DEF Init, JobsInv, JobTypes, SingleFlight
<1>2. TimerTypes
  BY DEF Init, TimerTypes, PowerModes
<1>3. TimersFollowPause
  BY DEF Init, TimersFollowPause, Timers, TickTimers
<1>4. OneTier /\ ModeFollowsInputs /\ RunsFromStart
  BY DEF Init, OneTier, ModeFollowsInputs, TargetMode, RunsFromStart
<1>5. OtherTypes
  BY ConstantsAssumption DEF Init, OtherTypes, ConstantsAssumption
<1> QED
  BY <1>1, <1>2, <1>3, <1>4, <1>5 DEF IInv, TimersInv

LEMMA PageRequestInv == ASSUME IInv, PageRequest PROVE IInv'
<1> USE DEF IInv
<1>1. ASSUME NEW s \in Signals, subscribe(s) \/ unsubscribe(s)
      PROVE  IInv'
  <2>1. OtherTypes'
    BY <1>1 DEF OtherTypes, subscribe, unsubscribe, envVars
  <2>2. UNCHANGED TimerVars /\ UNCHANGED workerVars
    BY <1>1 DEF subscribe, unsubscribe, TimerVars, modeVars
  <2> QED
    BY <2>1, <2>2, SameJobs, SameTimers
<1>2. ASSUME NEW ms \in SliderIntervals, setProcessRefreshInterval(ms)
      PROVE  IInv'
  <2>1. OtherTypes' /\ UNCHANGED workerVars
    BY <1>2 DEF OtherTypes, setProcessRefreshInterval, envVars
  <2> QED
    BY <1>2, <2>1, SameJobs, ProcessTimerKeepsTimers
<1>3. CASE pauseProcessTimer
  <2>1. OtherTypes' /\ UNCHANGED workerVars
    BY <1>3 DEF OtherTypes, pauseProcessTimer, envVars
  <2> QED
    BY <1>3, <2>1, SameJobs, ProcessTimerKeepsTimers
<1>4. CASE resumeProcessTimer
  <2>1. OtherTypes' /\ (UNCHANGED workerVars \/ Launch(ProcessJobs))
    BY <1>4 DEF OtherTypes, resumeProcessTimer, envVars
  <2> QED
    BY <1>4, <2>1, SameJobs, LaunchKeepsJobs, JobSetsIdle, ProcessTimerKeepsTimers
<1>5. ASSUME NEW jobs \in {SlowJobs, ProcessJobs, UpdateJobs, RepoJobs}, trigger(jobs)
      PROVE  IInv'
  <2>1. OtherTypes' /\ UNCHANGED TimerVars /\ Launch(jobs)
    BY <1>5 DEF OtherTypes, trigger, envVars, TimerVars, modeVars
  <2> QED
    BY <2>1, LaunchKeepsJobs, JobSetsIdle, SameTimers
<1> QED
  BY <1>1, <1>2, <1>3, <1>4, <1>5 DEF PageRequest

LEMMA WindowEventInv == ASSUME IInv, WindowEvent PROVE IInv'
<1> USE DEF IInv
<1>1. CASE start
  <2>1. OtherTypes' /\ Launch(MediumJobs \union SlowJobs \union UpdateJobs)
    BY <1>1 DEF OtherTypes, start, envVars
  <2> QED
    BY <1>1, <2>1, LaunchKeepsJobs, JobSetsIdle, StartKeepsTimers
<1>2. CASE stop \/ pause
  <2>1. OtherTypes' /\ UNCHANGED workerVars
    BY <1>2 DEF OtherTypes, stop, pause, envVars
  <2> QED
    BY <1>2, <2>1, SameJobs, StopKeepsTimers
<1>3. CASE resume
  <2>1. OtherTypes' /\ Launch(MediumJobs)
    BY <1>3 DEF OtherTypes, resume, envVars
  <2> QED
    BY <1>3, <2>1, LaunchKeepsJobs, JobSetsIdle, ResumeKeepsTimers
<1>4. ASSUME NEW focused \in BOOLEAN, sigAppFocusChanged(focused)
      PROVE  IInv'
  <2>1. OtherTypes' /\ UNCHANGED workerVars
    BY <1>4 DEF OtherTypes, sigAppFocusChanged, envVars
  <2> QED
    BY <1>4, <2>1, SameJobs, FocusKeepsTimers
<1> QED
  BY <1>1, <1>2, <1>3, <1>4 DEF WindowEvent

LEMMA TimeoutInv ==
    ASSUME IInv, onFastTick \/ \E t \in Timers \ {"fast"} : JobTick(t)
    PROVE  IInv'
<1> USE DEF IInv
<1>1. CASE onFastTick
  <2>1. OtherTypes' /\ UNCHANGED workerVars
    BY <1>1 DEF OtherTypes, onFastTick, envVars
  <2> QED
    BY <1>1, <2>1, SameJobs, FastTickKeepsTimers
<1>2. ASSUME NEW t \in Timers \ {"fast"}, JobTick(t)
      PROVE  IInv'
  <2>1. OtherTypes' /\ UNCHANGED TimerVars /\ Launch(TimerJobs(t))
    BY <1>2 DEF OtherTypes, JobTick, envVars, TimerVars, modeVars
  <2>2. TimerJobs(t) \in {MediumJobs, SlowJobs, ProcessJobs, UpdateJobs}
    BY DEF TimerJobs, Timers, TickTimers
  <2> QED
    BY <2>1, <2>2, LaunchKeepsJobs, JobSetsIdle, SameTimers
<1> QED
  BY <1>1, <1>2

LEMMA CompletionInv ==
    ASSUME IInv, NEW k \in Workers, CollectDone(k) \/ Publish(k) PROVE IInv'
<1>1. OtherTypes' /\ UNCHANGED TimerVars
  BY DEF IInv, OtherTypes, CollectDone, Publish, envVars, TimerVars, modeVars
<1> QED
  BY <1>1, CollectDoneKeepsJobs, PublishKeepsJobs, SameTimers DEF IInv

LEMMA EnvironmentInv ==
    ASSUME IInv, OomdThrottleExpires \/ kioskToggled \/ powerSupplyChanged
    PROVE  IInv'
<1>1. OtherTypes' /\ UNCHANGED TimerVars
  BY DEF IInv, OtherTypes, OomdThrottleExpires, kioskToggled, powerSupplyChanged,
         envVars, TimerVars, modeVars
<1>2. JobsInv'
  BY DEF IInv, JobsInv, JobTypes, SingleFlight, OomdThrottleExpires, kioskToggled,
         powerSupplyChanged, workerVars
<1> QED
  BY <1>1, <1>2, SameTimers DEF IInv

LEMMA StutterInv == ASSUME IInv, UNCHANGED vars PROVE IInv'
<1>1. OtherTypes' /\ UNCHANGED TimerVars /\ UNCHANGED workerVars
  BY DEF IInv, OtherTypes, vars, TimerVars, modeVars, envVars
<1> QED
  BY <1>1, SameJobs, SameTimers DEF IInv

\* Whatever the constants, every reachable state satisfies the inductive invariant.
THEOREM Inductive == Spec => []IInv
<1>1. ASSUME IInv, [Next]_vars PROVE IInv'
  BY <1>1, PageRequestInv, WindowEventInv, TimeoutInv, CompletionInv, EnvironmentInv,
     StutterInv DEF Next
<1> QED
  BY InitInv, <1>1, PTL DEF Spec

\* Every variable of the service keeps its type.
THEOREM TypeCorrect == Spec => []TypeOK
<1>1. IInv => TypeOK
  BY DEF IInv, JobsInv, JobTypes, TimersInv, TimerTypes, OtherTypes, TypeOK
<1> QED
  BY <1>1, Inductive, PTL

\* For any set of jobs, no order of ticks, requests, resumes and completions
\* starts a job twice, or leaves a flag set with no job behind it.
THEOREM JobsFlySingly == Spec => []SingleFlight
<1>1. IInv => SingleFlight
  BY DEF IInv, JobsInv
<1> QED
  BY <1>1, Inductive, PTL

\* For any interleaving of the service's pause with the process timer's, the
\* active timers are the ones the two pause flags call for.
THEOREM TimersObeyPause == Spec => []TimersFollowPause
<1>1. IInv => TimersFollowPause
  BY DEF IInv, TimersInv
<1> QED
  BY <1>1, Inductive, PTL

\* The tick timers are on the intervals of one power mode, and the power mode is
\* the one that focus and battery call for.
THEOREM OneModeAtATime == Spec => []OneMode
<1>1. IInv => OneMode
  BY DEF IInv, TimersInv, OneMode
<1> QED
  BY <1>1, Inductive, PTL

--------------------------------------------------------------------------------
(* The page that drives two of the engine's checks (AptSources), for any    *)
(* number of changes of the sources and of the packages: one check of a     *)
(* kind at a time, so that results come out in the order in which they were *)
(* read.                                                                    *)

\* The flags tell whether a check is on its way.
FlagsTell ==
    /\ mUpdateCheckRunning = FALSE => updateChecks = {}
    /\ mRepoHealthRunning = FALSE => repoChecks = {}

\* What is published was read before what is still to come, that before now.
ReadInOrder ==
    /\ \A k \in Keys : cards[k] <= lastHealth
    /\ lastHealth <= sources
    /\ \A saw \in repoChecks : saw # Unread => lastHealth <= saw /\ saw <= sources

AptInv == AptTypeOK /\ FlagsTell /\ ReadInOrder /\ TableIsLastResult

\* One step of HealthNeverGoesBack.
HealthMovesOn ==
    /\ lastHealth' >= lastHealth
    /\ \A k \in Keys : cards[k] # Unread /\ cards'[k] # Unread => cards'[k] >= cards[k]

--------------------------------------------------------------------------------
(* Parts of the steps. *)

LEMMA Numbers ==
    /\ 0 \in Versions /\ 0 \in Installs
    /\ Unread \in Saw /\ NoResult \in UpdateResult
    /\ \A v \in Versions : v \in Saw /\ v \in Nat /\ v # Unread
    /\ \A v \in Saw : v \in Int /\ v >= Unread /\ (v # Unread => v \in Versions)
BY VersionsAssumption DEF Versions, Installs, Unread, Saw, NoResult, UpdateResult

LEMMA AtMostOneFacts ==
  ASSUME NEW S, NEW T \in AtMostOne(S)
  PROVE  /\ T \subseteq S
         /\ {} \in AtMostOne(S)
         /\ \A x \in S : {x} \in AtMostOne(S)
         /\ \A x \in T : T = {x} /\ T \ {x} = {}
         /\ T # {} => \E x \in S : T = {x}
BY DEF AtMostOne

LEMMA UpdateTriggered ==
  ASSUME AptInv, triggerUpdateCheck
  PROVE  mUpdateCheckRunning' = TRUE /\ updateChecks' \in AtMostOne(UpdateResult)
<1>1. updateChecks \in AtMostOne(UpdateResult) /\ mUpdateCheckRunning \in BOOLEAN
  BY DEF AptInv, AptTypeOK
<1>2. CASE mUpdateCheckRunning
  BY <1>1, <1>2 DEF triggerUpdateCheck
<1>3. CASE ~mUpdateCheckRunning
  <2>1. updateChecks' = {NoResult}
    BY <1>1, <1>3 DEF triggerUpdateCheck, AptInv, FlagsTell
  <2> QED
    BY <1>1, <2>1, Numbers, AtMostOneFacts DEF triggerUpdateCheck
<1> QED
  BY <1>2, <1>3

LEMMA HealthTriggered ==
  ASSUME AptInv, triggerRepoHealthCheck
  PROVE  /\ mRepoHealthRunning' = TRUE /\ repoChecks' \in AtMostOne(Saw)
         /\ \A saw \in repoChecks' : saw # Unread => saw \in repoChecks
<1>1. repoChecks \in AtMostOne(Saw) /\ mRepoHealthRunning \in BOOLEAN
  BY DEF AptInv, AptTypeOK
<1>2. CASE mRepoHealthRunning
  BY <1>1, <1>2 DEF triggerRepoHealthCheck
<1>3. CASE ~mRepoHealthRunning
  <2>1. repoChecks' = {Unread}
    BY <1>1, <1>3 DEF triggerRepoHealthCheck, AptInv, FlagsTell
  <2> QED
    BY <1>1, <2>1, Numbers, AtMostOneFacts DEF triggerRepoHealthCheck
<1> QED
  BY <1>2, <1>3

LEMMA AptInitInv == AptInit => AptInv
<1> SUFFICES ASSUME AptInit PROVE AptInv
  OBVIOUS
<1>1. 0 \in Versions /\ 0 \in Installs
  BY Numbers
<1>2. updateChecks \in AtMostOne(UpdateResult) /\ repoChecks \in AtMostOne(Saw)
  BY DEF AptInit, AtMostOne
<1>3. AptTypeOK
  BY <1>1, <1>2, Numbers DEF AptInit, AptTypeOK
<1> QED
  BY <1>3 DEF AptInit, AptInv, FlagsTell, ReadInOrder, TableIsLastResult, Unread

\* Steps that leave the results and the sources' checks alone.
LEMMA UpdateSideInv ==
  ASSUME AptInv, UNCHANGED <<sources, content, healthVars, built, listed>>,
         lastUpdates' = lastUpdates, shownUpdates' = shownUpdates,
         updateChecks' \in AtMostOne(UpdateResult), mUpdateCheckRunning' \in BOOLEAN,
         mUpdateCheckRunning' = FALSE => updateChecks' = {},
         checkNow' \in BOOLEAN, packages' \in Installs, reconciled' \in Installs,
         polling' \in BOOLEAN,
         upgrade' \in {"no", "running", "ended"}
  PROVE  AptInv' /\ HealthMovesOn
<1>1. UNCHANGED <<mRepoHealthRunning, repoChecks, lastHealth, cards, refreshHealth>>
  BY DEF healthVars
<1>2. AptTypeOK'
  BY <1>1 DEF AptInv, AptTypeOK
<1>3. lastHealth \in Int /\ \A k \in Keys : cards[k] \in Int
  BY Numbers DEF AptInv, AptTypeOK
<1> QED
  BY <1>1, <1>2, <1>3
     DEF AptInv, FlagsTell, ReadInOrder, TableIsLastResult, HealthMovesOn

--------------------------------------------------------------------------------
(* The steps. *)

LEMMA UpdateStepsInv ==
  ASSUME AptInv,
         \/ checkNowClicked \/ onUpdateSelectedClicked \/ upgradeEnds \/ upgradeFinished
         \/ onUpdateTick \/ visibilityChanged \/ readUpdates
  PROVE  AptInv' /\ HealthMovesOn
<1>1. /\ packages \in Installs /\ reconciled \in Installs /\ checkNow \in BOOLEAN
      /\ upgrade \in {"no", "running", "ended"} /\ polling \in BOOLEAN
      /\ updateChecks \in AtMostOne(UpdateResult) /\ mUpdateCheckRunning \in BOOLEAN
      /\ (mUpdateCheckRunning = FALSE => updateChecks = {})
  BY DEF AptInv, AptTypeOK, FlagsTell
<1>2. CASE checkNowClicked
  BY <1>1, <1>2, UpdateTriggered, UpdateSideInv DEF checkNowClicked, worldVars
<1>3. CASE onUpdateSelectedClicked
  BY <1>1, <1>3, UpdateSideInv DEF onUpdateSelectedClicked, worldVars
<1>4. CASE upgradeEnds
  <2>1. UNCHANGED <<mUpdateCheckRunning, updateChecks, lastUpdates, shownUpdates, checkNow>>
    BY <1>4 DEF upgradeEnds, updateVars
  <2>2. packages' \in Installs /\ upgrade' = "ended"
    BY <1>4 DEF upgradeEnds
  <2> QED
    BY <1>1, <1>4, <2>1, <2>2, UpdateSideInv DEF upgradeEnds, worldVars
<1>5. CASE upgradeFinished
  BY <1>1, <1>5, UpdateTriggered, UpdateSideInv DEF upgradeFinished, worldVars
<1>6. CASE onUpdateTick
  BY <1>1, <1>6, UpdateTriggered, UpdateSideInv DEF onUpdateTick, worldVars
<1>7. CASE readUpdates
  <2>1. PICK some \in BOOLEAN :
          updateChecks' = (updateChecks \ {NoResult})
                             \union {[saw |-> packages, some |-> some]}
    BY <1>7 DEF readUpdates
  <2>2. NoResult \in updateChecks /\ updateChecks \ {NoResult} = {}
    BY <1>1, <1>7, AtMostOneFacts DEF readUpdates
  <2>3. [saw |-> packages, some |-> some] \in UpdateResult
    BY <1>1, Numbers DEF UpdateResult
  <2>4. updateChecks' \in AtMostOne(UpdateResult)
    BY <1>1, <2>1, <2>2, <2>3, AtMostOneFacts
  <2>5. mUpdateCheckRunning' = TRUE
    BY <1>1, <1>7, <2>2 DEF readUpdates
  <2> QED
    BY <1>1, <1>7, <2>4, <2>5, UpdateSideInv DEF readUpdates, worldVars
<1>8. CASE visibilityChanged
  <2>1. /\ UNCHANGED <<mUpdateCheckRunning, updateChecks, lastUpdates, shownUpdates, checkNow>>
        /\ polling' \in BOOLEAN
    BY <1>1, <1>8 DEF visibilityChanged, updateVars
  <2> QED
    BY <1>1, <1>8, <2>1, UpdateSideInv DEF visibilityChanged
<1> QED
  BY <1>2, <1>3, <1>4, <1>5, <1>6, <1>7, <1>8

\* Loading the list again empties the cards and asks for a check.
LEMMA ReloadInv ==
  ASSUME AptInv, NEW version \in Versions, loadAptSources(version), sources' \in Versions,
         sources <= sources', built' \in BOOLEAN, shownUpdates' \in UpdateResult,
         built' => shownUpdates' = lastUpdates',
         UNCHANGED <<packages, content, polling, mUpdateCheckRunning, updateChecks,
                     lastUpdates, checkNow, lastHealth, refreshHealth, upgrade, reconciled>>
  PROVE  AptInv' /\ HealthMovesOn
<1>1. /\ cards' = [k \in Keys |-> Unread] /\ listed' = version
      /\ mRepoHealthRunning' = TRUE /\ repoChecks' \in AtMostOne(Saw)
      /\ \A saw \in repoChecks' : saw # Unread => saw \in repoChecks
  BY HealthTriggered DEF loadAptSources
<1>2. /\ sources \in Int /\ sources' \in Int /\ lastHealth \in Int /\ lastHealth >= Unread
      /\ repoChecks \subseteq Saw
  BY Numbers, AtMostOneFacts DEF AptInv, AptTypeOK
<1>3. AptTypeOK'
  BY <1>1, Numbers DEF AptInv, AptTypeOK
<1>4. FlagsTell'
  BY <1>1 DEF AptInv, FlagsTell
<1>5. ReadInOrder'
  <2>1. ASSUME NEW saw \in repoChecks', saw # Unread
        PROVE  lastHealth' <= saw /\ saw <= sources'
    <3>1. saw \in repoChecks /\ saw \in Int
      BY <1>1, <1>2, <2>1, Numbers
    <3> QED
      BY <1>2, <2>1, <3>1 DEF AptInv, ReadInOrder
  <2>2. lastHealth' <= sources' /\ \A k \in Keys : cards'[k] <= lastHealth'
    BY <1>1, <1>2 DEF AptInv, ReadInOrder, Unread
  <2> QED
    BY <2>1, <2>2 DEF ReadInOrder
<1>6. HealthMovesOn /\ TableIsLastResult'
  BY <1>1, <1>2 DEF HealthMovesOn, TableIsLastResult
<1> QED
  BY <1>3, <1>4, <1>5, <1>6 DEF AptInv

LEMMA ReloadStepsInv ==
  ASSUME AptInv, buildPage \/ changeSource \/ changeSourceQuietly
  PROVE  AptInv' /\ HealthMovesOn
<1>1. /\ sources \in Versions /\ sources \in Nat /\ lastUpdates \in UpdateResult
      /\ shownUpdates \in UpdateResult /\ TableIsLastResult
  BY Numbers DEF AptInv, AptTypeOK
<1>2. CASE buildPage
  <2>1. /\ loadAptSources(sources) /\ built' = TRUE /\ sources' = sources
        /\ shownUpdates' = lastUpdates /\ lastUpdates' = lastUpdates
    BY <1>2 DEF buildPage, Backfill
  <2>2. UNCHANGED <<packages, content, polling, mUpdateCheckRunning, updateChecks,
                    lastUpdates, checkNow, lastHealth, refreshHealth, upgrade, reconciled>>
    BY <1>2 DEF buildPage, worldVars
  <2> QED
    BY <1>1, <2>1, <2>2, ReloadInv
<1>3. CASE changeSource
  <2>1. /\ loadAptSources(sources') /\ sources' \in Versions /\ sources <= sources'
        /\ built /\ built' = built
    BY <1>1, <1>3, Numbers DEF changeSource, Edited
  <2>2. UNCHANGED <<mUpdateCheckRunning, updateChecks, lastUpdates, shownUpdates, checkNow>>
    BY <1>3 DEF changeSource, updateVars
  <2>3. UNCHANGED <<packages, content, polling, lastHealth, refreshHealth, upgrade,
                    reconciled>>
    BY <1>3 DEF changeSource, worldVars
  <2>4. built' \in BOOLEAN /\ (built' => shownUpdates' = lastUpdates')
        /\ shownUpdates' \in UpdateResult
    BY <1>1, <2>1, <2>2 DEF TableIsLastResult, AptInv, AptTypeOK
  <2> QED
    BY <2>1, <2>2, <2>3, <2>4, ReloadInv
<1>4. CASE changeSourceQuietly
  <2>1. sources' \in Versions /\ sources' \in Nat /\ sources <= sources'
    BY <1>1, <1>4, Numbers DEF changeSourceQuietly, Edited
  <2>2. /\ UNCHANGED <<packages, content, polling, built, upgrade, listed, reconciled>>
        /\ UNCHANGED <<mUpdateCheckRunning, updateChecks, lastUpdates, shownUpdates, checkNow>>
        /\ UNCHANGED <<mRepoHealthRunning, repoChecks, lastHealth, cards, refreshHealth>>
    BY <1>4 DEF changeSourceQuietly, worldVars, updateVars, healthVars
  <2>3. /\ lastHealth \in Int /\ \A k \in Keys : cards[k] \in Int
        /\ \A saw \in repoChecks : saw \in Int
    BY Numbers, AtMostOneFacts DEF AptInv, AptTypeOK
  <2>4. AptTypeOK'
    BY <2>1, <2>2 DEF AptInv, AptTypeOK
  <2>5. ReadInOrder'
    BY <1>1, <2>1, <2>2, <2>3 DEF AptInv, ReadInOrder
  <2>6. FlagsTell' /\ TableIsLastResult' /\ HealthMovesOn
    BY <2>2, <2>3 DEF AptInv, FlagsTell, TableIsLastResult, HealthMovesOn
  <2> QED
    BY <2>4, <2>5, <2>6 DEF AptInv
<1> QED
  BY <1>2, <1>3, <1>4

\* A check that is asked for, has read, or is published.
LEMMA HealthStepsInv ==
  ASSUME AptInv,
         refreshHealthClicked \/ readSources \/ \E saw \in repoChecks : repoHealthChecked(saw)
  PROVE  AptInv' /\ HealthMovesOn
<1>1. /\ repoChecks \in AtMostOne(Saw) /\ sources \in Versions /\ sources \in Nat
      /\ lastHealth \in Saw /\ lastHealth \in Int /\ lastHealth <= sources
      /\ cards \in [Keys -> Saw]
      /\ (\A k \in Keys : cards[k] \in Int /\ cards[k] <= lastHealth)
      /\ refreshHealth \in BOOLEAN /\ mRepoHealthRunning \in BOOLEAN
      /\ (mRepoHealthRunning = FALSE => repoChecks = {})
      /\ (\A saw \in repoChecks : saw # Unread => lastHealth <= saw /\ saw <= sources)
  BY Numbers DEF AptInv, AptTypeOK, ReadInOrder, FlagsTell
<1>2. UNCHANGED <<sources, packages, worldVars, updateVars, built, upgrade, listed,
                  reconciled>>
  BY DEF refreshHealthClicked, readSources, repoHealthChecked
<1>3. UNCHANGED <<content, polling, mUpdateCheckRunning, updateChecks, lastUpdates,
                  shownUpdates, checkNow>>
  BY <1>2 DEF updateVars, worldVars
<1>4. ASSUME repoChecks' \in AtMostOne(Saw), lastHealth' \in Saw, cards' \in [Keys -> Saw],
             mRepoHealthRunning' \in BOOLEAN, refreshHealth' \in BOOLEAN,
             mRepoHealthRunning' = FALSE => repoChecks' = {}, ReadInOrder'
      PROVE  AptInv'
  <2>1. AptTypeOK'
    BY <1>2, <1>3, <1>4 DEF AptInv, AptTypeOK
  <2> QED
    BY <1>2, <1>3, <1>4, <2>1 DEF AptInv, FlagsTell, TableIsLastResult
<1>5. CASE refreshHealthClicked
  <2>1. /\ UNCHANGED <<lastHealth, cards>> /\ refreshHealth' = FALSE
        /\ mRepoHealthRunning' = TRUE /\ repoChecks' \in AtMostOne(Saw)
        /\ \A saw \in repoChecks' : saw # Unread => saw \in repoChecks
    BY <1>5, HealthTriggered DEF refreshHealthClicked
  <2>2. ReadInOrder'
    BY <1>1, <1>2, <2>1 DEF ReadInOrder
  <2>3. HealthMovesOn
    BY <1>1, <2>1 DEF HealthMovesOn
  <2>4. lastHealth' \in Saw /\ cards' \in [Keys -> Saw] /\ refreshHealth' \in BOOLEAN
    BY <1>1, <2>1
  <2> QED
    BY <1>4, <2>1, <2>2, <2>3, <2>4
<1>6. CASE readSources
  <2>1. /\ Unread \in repoChecks
        /\ repoChecks' = (repoChecks \ {Unread}) \union {sources}
        /\ UNCHANGED <<mRepoHealthRunning, lastHealth, cards, refreshHealth>>
    BY <1>6 DEF readSources
  <2>2. repoChecks' = {sources} /\ sources \in Saw
    BY <1>1, <2>1, AtMostOneFacts, Numbers
  <2>3. repoChecks' \in AtMostOne(Saw)
    BY <1>1, <2>2, AtMostOneFacts
  <2>4. ReadInOrder'
    BY <1>1, <1>2, <2>1, <2>2 DEF ReadInOrder
  <2>5. mRepoHealthRunning = TRUE
    BY <1>1, <2>1
  <2>6. HealthMovesOn
    BY <1>1, <2>1 DEF HealthMovesOn
  <2>7. /\ lastHealth' \in Saw /\ cards' \in [Keys -> Saw] /\ mRepoHealthRunning' = TRUE
        /\ refreshHealth' \in BOOLEAN
    BY <1>1, <2>1, <2>5
  <2> QED
    BY <1>4, <2>3, <2>4, <2>6, <2>7
<1>7. CASE \E saw \in repoChecks : repoHealthChecked(saw)
  <2>1. PICK saw \in repoChecks : repoHealthChecked(saw)
    BY <1>7
  <2>2. /\ saw # Unread /\ repoChecks' = repoChecks \ {saw} /\ mRepoHealthRunning' = FALSE
        /\ lastHealth' = saw /\ refreshHealth' = TRUE
        /\ cards' = [k \in Keys |-> IF k \in Carded \intersect content[saw]
                                    THEN saw ELSE cards[k]]
    BY <2>1 DEF repoHealthChecked, Signalled
  <2>3. repoChecks' = {} /\ saw \in Saw /\ saw \in Int /\ repoChecks' \in AtMostOne(Saw)
    <3>1. saw \in Saw /\ repoChecks \ {saw} = {} /\ {} \in AtMostOne(Saw)
      BY <1>1, AtMostOneFacts
    <3> QED
      BY <2>2, <3>1, Numbers
  <2>4. lastHealth <= saw /\ saw <= sources
    BY <1>1, <2>2
  <2>5. \A k \in Keys : cards'[k] \in {saw, cards[k]} /\ cards'[k] <= saw
    BY <1>1, <2>2, <2>3, <2>4
  <2>6. ReadInOrder'
    BY <1>2, <2>2, <2>3, <2>4, <2>5 DEF ReadInOrder
  <2>7. HealthMovesOn
    BY <1>1, <2>2, <2>3, <2>4, <2>5 DEF HealthMovesOn
  <2>8. cards' \in [Keys -> Saw]
    BY <1>1, <2>2, <2>3
  <2> QED
    BY <1>4, <2>2, <2>3, <2>6, <2>7, <2>8
<1> QED
  BY <1>5, <1>6, <1>7

\* The result of an update check; the page asks for the health of the sources.
LEMMA UpdatesCheckedInv ==
  ASSUME AptInv, NEW result \in updateChecks, systemUpdatesChecked(result)
  PROVE  AptInv' /\ HealthMovesOn
<1>1. /\ updateChecks \in AtMostOne(UpdateResult) /\ repoChecks \in AtMostOne(Saw)
      /\ lastHealth \in Int /\ (\A k \in Keys : cards[k] \in Int)
  BY Numbers DEF AptInv, AptTypeOK
<1>2. updateChecks' = {} /\ result \in UpdateResult
      /\ updateChecks' \in AtMostOne(UpdateResult)
  <2>1. /\ result \in UpdateResult /\ updateChecks \ {result} = {}
        /\ {} \in AtMostOne(UpdateResult)
    BY <1>1, AtMostOneFacts
  <2> QED
    BY <2>1 DEF systemUpdatesChecked
<1>3. /\ mUpdateCheckRunning' = FALSE /\ lastUpdates' = result
      /\ UNCHANGED <<sources, packages, content, polling, lastHealth, cards, refreshHealth,
                     built, upgrade, listed, reconciled>>
  BY DEF systemUpdatesChecked, worldVars
<1>4. CASE built
  <2>1. shownUpdates' = result /\ checkNow' = TRUE /\ triggerRepoHealthCheck
    BY <1>4 DEF systemUpdatesChecked, CheckNowAfter, HealthAfterUpdates
  <2>2. /\ mRepoHealthRunning' = TRUE /\ repoChecks' \in AtMostOne(Saw)
        /\ \A saw \in repoChecks' : saw # Unread => saw \in repoChecks
    BY <2>1, HealthTriggered
  <2>3. AptTypeOK'
    BY <1>2, <1>3, <2>1, <2>2 DEF AptInv, AptTypeOK
  <2>4. FlagsTell' /\ ReadInOrder' /\ TableIsLastResult'
    BY <1>2, <1>3, <2>1, <2>2 DEF AptInv, FlagsTell, ReadInOrder, TableIsLastResult
  <2> QED
    BY <1>1, <1>3, <2>3, <2>4 DEF AptInv, HealthMovesOn
<1>5. CASE ~built
  <2>1. UNCHANGED <<shownUpdates, checkNow, mRepoHealthRunning, repoChecks>>
    BY <1>5 DEF systemUpdatesChecked
  <2>2. AptTypeOK'
    BY <1>2, <1>3, <2>1 DEF AptInv, AptTypeOK
  <2>3. FlagsTell' /\ ReadInOrder' /\ TableIsLastResult'
    BY <1>2, <1>3, <1>5, <2>1 DEF AptInv, FlagsTell, ReadInOrder, TableIsLastResult
  <2> QED
    BY <1>1, <1>3, <2>2, <2>3 DEF AptInv, HealthMovesOn
<1> QED
  BY <1>4, <1>5

--------------------------------------------------------------------------------
(* The theorems. *)

LEMMA AptNextInv ==
  ASSUME AptInv, [AptNext]_aptVars
  PROVE  AptInv' /\ [HealthMovesOn]_aptVars
<1>1. CASE UNCHANGED aptVars
  <2>1. UNCHANGED <<sources, packages, content, polling, mUpdateCheckRunning, updateChecks,
                    lastUpdates, shownUpdates, checkNow, mRepoHealthRunning, repoChecks,
                    lastHealth, cards, refreshHealth, built, upgrade, listed, reconciled>>
    BY <1>1 DEF aptVars, worldVars, updateVars, healthVars
  <2>2. AptInv'
    BY <2>1 DEF AptInv, AptTypeOK, FlagsTell, ReadInOrder, TableIsLastResult
  <2> QED
    BY <1>1, <2>2
<1> QED
  BY <1>1, UpdateStepsInv, ReloadStepsInv, HealthStepsInv, UpdatesCheckedInv DEF AptNext

LEMMA AptInvariance == AptSpec => []AptInv
<1>1. AptInv /\ [AptNext]_aptVars => AptInv'
  BY AptNextInv
<1> QED
  BY AptInitInv, <1>1, PTL DEF AptSpec

\* A page that is built has the service's last result in its table, whenever it
\* was built.
THEOREM TableShowsLastResult == AptSpec => []TableIsLastResult
<1>1. AptInv => TableIsLastResult
  BY DEF AptInv
<1> QED
  BY AptInvariance, <1>1, PTL

\* As one check runs at a time, an older result never replaces a newer one, in
\* the service or on the cards.
THEOREM HealthOnlyMovesOn == AptSpec => HealthNeverGoesBack
<1>1. AptInv /\ [AptNext]_aptVars =>
        [ /\ lastHealth' >= lastHealth
          /\ \A k \in Keys :
                cards[k] # Unread /\ cards'[k] # Unread => cards'[k] >= cards[k] ]_aptVars
  BY AptNextInv DEF HealthMovesOn
<1> QED
  BY AptInvariance, <1>1, PTL DEF AptSpec, HealthNeverGoesBack

--------------------------------------------------------------------------------
(* Whoever waits is waiting for something. *)

\* A flag that is set has a check behind it; a button that is off has a check or an
\* upgrade to wait for.  So has a card without health, unless the last check has read
\* a list without its source: nothing is then under way for that card.
AnswersComing ==
    /\ mUpdateCheckRunning => updateChecks # {}
    /\ mRepoHealthRunning => repoChecks # {}
    /\ ~checkNow => mUpdateCheckRunning \/ upgrade # "no"
    /\ ~refreshHealth => mRepoHealthRunning
    /\ \A k \in Keys \intersect Carded :
          cards[k] = Unread => \/ mRepoHealthRunning
                               \/ lastHealth # Unread /\ k \notin content[lastHealth]

\* The buttons are on the page.
ButtonsOnPage == ~built => checkNow /\ refreshHealth

LEMMA TriggeredComes ==
  ASSUME AnswersComing
  PROVE  /\ triggerUpdateCheck => mUpdateCheckRunning' /\ updateChecks' # {}
         /\ triggerRepoHealthCheck => mRepoHealthRunning' /\ repoChecks' # {}
BY DEF AnswersComing, triggerUpdateCheck, triggerRepoHealthCheck

LEMMA AnswersStep ==
  ASSUME AptInv, AnswersComing, ButtonsOnPage, [AptNext]_aptVars
  PROVE  AnswersComing' /\ ButtonsOnPage'
<1> USE DEF AnswersComing, ButtonsOnPage, worldVars, updateVars, healthVars, SectionShown,
            Carded
<1> cards \in [Keys -> Saw]
  BY DEF AptInv, AptTypeOK
<1>1. CASE buildPage
  BY <1>1, TriggeredComes DEF buildPage, loadAptSources
<1>2. CASE changeSource
  BY <1>2, TriggeredComes DEF changeSource, loadAptSources
<1>3. CASE refreshHealthClicked
  BY <1>3, TriggeredComes DEF refreshHealthClicked
<1>4. CASE checkNowClicked
  BY <1>4, TriggeredComes DEF checkNowClicked
<1>5. CASE onUpdateSelectedClicked
  BY <1>5 DEF onUpdateSelectedClicked
<1>6. CASE upgradeEnds
  BY <1>6 DEF upgradeEnds
<1>7. CASE upgradeFinished
  BY <1>7, TriggeredComes DEF upgradeFinished
<1>8. CASE onUpdateTick
  BY <1>8, TriggeredComes DEF onUpdateTick
<1>9. CASE readUpdates
  BY <1>9 DEF readUpdates
<1>10. CASE readSources
  BY <1>10 DEF readSources
<1>11. CASE \E result \in updateChecks : systemUpdatesChecked(result)
  <2>1. CASE built
    BY <1>11, <2>1, TriggeredComes DEF systemUpdatesChecked, CheckNowAfter, HealthAfterUpdates
  <2>2. CASE ~built
    BY <1>11, <2>2 DEF systemUpdatesChecked
  <2> QED
    BY <2>1, <2>2
<1>12. CASE \E saw \in repoChecks : repoHealthChecked(saw)
  <2>1. PICK saw \in repoChecks : repoHealthChecked(saw)
    BY <1>12
  <2>2. /\ saw # Unread /\ repoChecks' = repoChecks \ {saw} /\ mRepoHealthRunning' = FALSE
        /\ lastHealth' = saw /\ refreshHealth' = TRUE
        /\ cards' = [k \in Keys |-> IF k \in Carded \intersect content[saw]
                                    THEN saw ELSE cards[k]]
        /\ UNCHANGED <<content, built, listed, upgrade, checkNow, mUpdateCheckRunning,
                       updateChecks>>
    BY <2>1 DEF repoHealthChecked, Signalled
  <2>3. ASSUME NEW k \in Keys \intersect Carded', cards'[k] = Unread
        PROVE  lastHealth' # Unread /\ k \notin content'[lastHealth']
    BY <2>2, <2>3
  <2> QED
    BY <2>2, <2>3
<1>13. CASE UNCHANGED aptVars
  BY <1>13 DEF aptVars
<1>14. CASE changeSourceQuietly
  BY <1>14 DEF changeSourceQuietly
<1>15. CASE visibilityChanged
  BY <1>15 DEF visibilityChanged
<1> QED
  BY <1>1, <1>2, <1>3, <1>4, <1>5, <1>6, <1>7, <1>8, <1>9, <1>10, <1>11, <1>12, <1>13,
     <1>14, <1>15 DEF AptNext

\* A button that is off has an answer on its way, although the check it asked for may
\* have been refused.  A card without health waits for a running check, or its source
\* was not in the list that the last check has read: that is the only way in which a
\* card is left alone until the next check (CardsGetHealth, HealthFollowsSources).
THEOREM AnswersAreComing == AptSpec => []AnswersComing
<1>1. AptInit => AnswersComing /\ ButtonsOnPage
  BY DEF AptInit, AnswersComing, ButtonsOnPage, Carded
<1>2. AptInv /\ AnswersComing /\ ButtonsOnPage /\ [AptNext]_aptVars
        => AnswersComing' /\ ButtonsOnPage'
  BY AnswersStep
<1> QED
  BY <1>1, <1>2, AptInvariance, PTL DEF AptSpec
================================================================================
