----------------------------- MODULE AppShell_proofs ----------------------------
(***************************************************************************)
(* Proofs about AppShell, for any of its pages, any number of clicks and   *)
(* any number of page constructions waiting: the hooks of the pages pair,  *)
(* and the window shows what was asked for.                                *)
(***************************************************************************)
EXTENDS AppShell, TLAPS

One(b) == IF b THEN 1 ELSE 0

\* The clients of a signal: those a page has, and the two monitors.
Monitors(s) == One(trayMonitor /\ s \in MonitorSignals) +
               One(miniMonitor /\ s \in MonitorSignals)
PageCounted(u, s) == One(s \in PageSignals(Shown(u)))

Fed ==
    \A s \in Signals :
        ui.counts[s] >= Monitors(s) + IF launched THEN PageCounted(ui, s) ELSE 0

\* From the start, before the first hook has run.
TimerFollows == ui.mProcessPaused = FALSE <=> Shown(ui) = "processes"

BeforeLaunch ==
    ~launched => trayMonitor = FALSE /\ miniMonitor = FALSE

LoadsAfterLaunch == loads # <<>> => launched

IInv == /\ TypeOK /\ Fed /\ TimerFollows /\ BeforeLaunch /\ LoadsAfterLaunch
        /\ ShownPageIsRequested

--------------------------------------------------------------------------------
(* The hooks. *)

LEMMA WidgetFacts ==
    /\ None \notin Widgets
    /\ "dashboard" \in Pages
    /\ \A p \in Pages : p \in Widgets /\ p # Loading
    /\ Loading \in Widgets /\ Loading # "processes" /\ PageSignals(Loading) = {}
BY PagesAssumption DEF Widgets, None, Loading, PageSignals

LEMMA CountsTypes ==
  ASSUME NEW counts \in [Signals -> Nat], NEW sigs
  PROVE  /\ Subscribed(counts, sigs) \in [Signals -> Nat]
         /\ Unsubscribed(counts, sigs) \in [Signals -> Nat]
         /\ \A s \in Signals :
              /\ Subscribed(counts, sigs)[s] = counts[s] + One(s \in sigs)
              /\ Unsubscribed(counts, sigs)[s] >= counts[s] - One(s \in sigs)
BY DEF Subscribed, Unsubscribed, One

LEMMA SettledUi ==
  ASSUME NEW u \in Ui
  PROVE  /\ Shown(u) \in Widgets
         /\ finishAnimation(u) \in Ui
         /\ finishAnimation(u).current = Shown(u)
         /\ finishAnimation(u).slideTo = None
         /\ finishAnimation(u).counts = u.counts
         /\ finishAnimation(u).mProcessPaused = u.mProcessPaused
         /\ Shown(finishAnimation(u)) = Shown(u)
BY WidgetFacts DEF Ui, finishAnimation, Shown

\* Leaving the current page takes no more than one subscription of a signal,
\* and the process timer off if it was that page's.
LEMMA LeaveDoes ==
  ASSUME NEW u \in Ui, NEW p \in Widgets
  PROVE  LET v == Leave(u, p)
         IN  /\ v \in Ui /\ v.current = u.current /\ v.slideTo = u.slideTo
             /\ u.current = p => v = u
             /\ \A s \in Signals :
                  v.counts[s] >= u.counts[s] - One(s \in PageSignals(u.current))
             /\ u.current # p =>
                  (v.mProcessPaused = FALSE <=>
                     u.mProcessPaused = FALSE /\ u.current # "processes")
<1>1. u.counts \in [Signals -> Nat] /\ u.mProcessPaused \in BOOLEAN
  BY DEF Ui
<1>2. CASE u.current = p
  BY <1>1, <1>2 DEF Leave, One
<1>3. CASE u.current # p
  <2> DEFINE counts == Unsubscribed(u.counts, PageSignals(u.current))
             paused == u.mProcessPaused \/ u.current = "processes"
             v == [u EXCEPT !.counts = counts, !.mProcessPaused = paused]
  <2>1. Leave(u, p) = v
    BY <1>3 DEF Leave, onPageDeactivated
  <2>2. counts \in [Signals -> Nat] /\ paused \in BOOLEAN
        /\ \A s \in Signals : counts[s] >= u.counts[s] - One(s \in PageSignals(u.current))
    BY <1>1, CountsTypes
  <2>3. paused = FALSE <=> u.mProcessPaused = FALSE /\ u.current # "processes"
    BY <1>1
  <2> HIDE DEF counts, paused
  <2>4. v \in Ui /\ v.counts = counts /\ v.mProcessPaused = paused
        /\ v.current = u.current /\ v.slideTo = u.slideTo
    BY <2>2 DEF Ui
  <2> QED
    BY <1>3, <2>1, <2>2, <2>3, <2>4
<1> QED
  BY <1>2, <1>3

LEMMA EnterDoes ==
  ASSUME NEW u \in Ui, NEW p \in Widgets, NEW slide \in BOOLEAN, u.slideTo = None
  PROVE  /\ Enter(u, p, slide) \in Ui /\ Shown(Enter(u, p, slide)) = p
         /\ Enter(u, p, slide).counts = u.counts
         /\ Enter(u, p, slide).mProcessPaused = u.mProcessPaused
BY WidgetFacts DEF Ui, Enter, Shown

LEMMA ActivateDoes ==
  ASSUME NEW u \in Ui, NEW p \in Widgets
  PROVE  LET v == onPageActivated(u, p)
         IN  /\ v \in Ui /\ Shown(v) = Shown(u)
             /\ \A s \in Signals : v.counts[s] = u.counts[s] + One(s \in PageSignals(p))
             /\ v.mProcessPaused = FALSE <=>
                  u.mProcessPaused = FALSE \/ p = "processes"
<1> DEFINE counts == Subscribed(u.counts, PageSignals(p))
           paused == u.mProcessPaused /\ p # "processes"
           v == [u EXCEPT !.counts = counts, !.mProcessPaused = paused]
<1>1. u.counts \in [Signals -> Nat] /\ u.mProcessPaused \in BOOLEAN
  BY DEF Ui
<1>2. onPageActivated(u, p) = v
  BY DEF onPageActivated
<1>3. counts \in [Signals -> Nat] /\ paused \in BOOLEAN
      /\ \A s \in Signals : counts[s] = u.counts[s] + One(s \in PageSignals(p))
  BY <1>1, CountsTypes
<1>4. paused = FALSE <=> u.mProcessPaused = FALSE \/ p = "processes"
  BY <1>1
<1> HIDE DEF counts, paused
<1>5. v \in Ui /\ v.counts = counts /\ v.mProcessPaused = paused
      /\ v.current = u.current /\ v.slideTo = u.slideTo
  BY <1>3 DEF Ui
<1> QED
  BY <1>2, <1>3, <1>4, <1>5 DEF Shown

\* A click, whatever animation it interrupts: the page is shown and counted, at
\* most the page that was shown is no longer, and the process timer follows.
LEMMA PageClickDoes ==
  ASSUME NEW u \in Ui, NEW p \in Widgets, NEW slide \in BOOLEAN,
         u.mProcessPaused = FALSE <=> Shown(u) = "processes"
  PROVE  LET v == pageClick(u, p, slide)
         IN  /\ v \in Ui /\ Shown(v) = p
             /\ v.mProcessPaused = FALSE <=> p = "processes"
             /\ \A s \in Signals :
                  /\ v.counts[s] >= One(s \in PageSignals(p))
                  /\ v.counts[s] >= u.counts[s] - PageCounted(u, s)
                                      + One(s \in PageSignals(p))
<1> DEFINE f == finishAnimation(u)
           l == Leave(f, p)
           e == Enter(l, p, slide)
           v == onPageActivated(e, p)
<1>1. f \in Ui /\ f.current = Shown(u) /\ f.slideTo = None /\ f.counts = u.counts
      /\ f.mProcessPaused = u.mProcessPaused
  BY SettledUi
<1>2. /\ l \in Ui /\ l.slideTo = None
      /\ f.current = p => l = f
      /\ \A s \in Signals : l.counts[s] >= u.counts[s] - PageCounted(u, s)
      /\ f.current # p =>
           (l.mProcessPaused = FALSE <=>
              u.mProcessPaused = FALSE /\ Shown(u) # "processes")
  BY <1>1, LeaveDoes DEF PageCounted
<1>3. e \in Ui /\ Shown(e) = p /\ e.counts = l.counts
      /\ e.mProcessPaused = l.mProcessPaused
  <2> HIDE DEF l
  <2> QED
    BY <1>2, EnterDoes
<1>4. /\ v \in Ui /\ Shown(v) = p
      /\ \A s \in Signals : v.counts[s] = e.counts[s] + One(s \in PageSignals(p))
      /\ v.mProcessPaused = FALSE <=> e.mProcessPaused = FALSE \/ p = "processes"
  <2> HIDE DEF e
  <2> QED
    BY <1>3, ActivateDoes
<1>5. v = pageClick(u, p, slide)
  BY DEF pageClick
<1>6. \A s \in Signals : e.counts[s] \in Nat /\ u.counts[s] \in Nat
                         /\ PageCounted(u, s) \in {0, 1}
                         /\ One(s \in PageSignals(p)) \in {0, 1}
  BY <1>3 DEF Ui, PageCounted, One
<1> HIDE DEF f, l, e, v
<1>7. v.mProcessPaused = FALSE <=> p = "processes"
  BY <1>1, <1>2, <1>3, <1>4
<1>8. \A s \in Signals :
        /\ v.counts[s] >= One(s \in PageSignals(p))
        /\ v.counts[s] >= u.counts[s] - PageCounted(u, s) + One(s \in PageSignals(p))
  BY <1>2, <1>3, <1>4, <1>6
<1> QED
  BY <1>4, <1>5, <1>7, <1>8

--------------------------------------------------------------------------------
(* The steps. *)

LEMMA InitInv == Init => IInv
<1> SUFFICES ASSUME Init PROVE IInv
  OBVIOUS
<1>1. "dashboard" \in Widgets /\ "dashboard" # Loading /\ None \notin Widgets
  BY WidgetFacts
<1>2. ui \in Ui
  BY <1>1 DEF Init, Ui
<1>3. TypeOK
  <2>1. built \subseteq Pages /\ mPendingNavId \in Pages /\ loads \in Seq(Pages)
    BY WidgetFacts DEF Init
  <2>2. {isVisible, mPaused, mKioskMode, trayMonitor, miniMonitor, launched} \subseteq BOOLEAN
    BY DEF Init
  <2> QED
    BY <1>2, <2>1, <2>2 DEF TypeOK
<1>4. Fed
  BY DEF Init, Fed, Monitors, One
<1>5. TimerFollows /\ BeforeLaunch /\ LoadsAfterLaunch /\ ShownPageIsRequested
  BY DEF Init, TimerFollows, BeforeLaunch, LoadsAfterLaunch, ShownPageIsRequested, Shown
<1> QED
  BY <1>3, <1>4, <1>5 DEF IInv

LEMMA MonitorsType == \A s \in Signals : Monitors(s) \in Nat
BY DEF Monitors, One

\* A click keeps every client fed, in a window that has been launched.
LEMMA ClickFeeds ==
  ASSUME IInv, launched, NEW p \in Widgets, NEW slide \in BOOLEAN,
         ui' = pageClick(ui, p, slide), UNCHANGED <<trayMonitor, miniMonitor, launched>>
  PROVE  ui' \in Ui /\ Shown(ui') = p /\ Fed' /\ TimerFollows'
<1>1. ui \in Ui /\ (ui.mProcessPaused = FALSE <=> Shown(ui) = "processes")
  BY DEF IInv, TypeOK, TimerFollows
<1>2. /\ ui' \in Ui /\ Shown(ui') = p
      /\ ui'.mProcessPaused = FALSE <=> p = "processes"
      /\ \A s \in Signals :
           ui'.counts[s] >= ui.counts[s] - PageCounted(ui, s) + One(s \in PageSignals(p))
  BY <1>1, PageClickDoes
<1>3. Fed'
  <2> SUFFICES ASSUME NEW s \in Signals
               PROVE  ui'.counts[s] >= Monitors(s) + PageCounted(ui', s)
    BY DEF Fed, Monitors
  <2>1. ui.counts[s] >= Monitors(s) + PageCounted(ui, s)
    BY DEF IInv, Fed
  <2>2. PageCounted(ui', s) = One(s \in PageSignals(p))
    BY <1>2 DEF PageCounted
  <2>3. /\ ui.counts[s] \in Nat /\ ui'.counts[s] \in Nat
        /\ Monitors(s) \in Nat
        /\ PageCounted(ui, s) \in {0, 1} /\ One(s \in PageSignals(p)) \in {0, 1}
    BY <1>1, <1>2, MonitorsType DEF Ui, PageCounted, One
  <2> QED
    BY <1>2, <2>1, <2>2, <2>3
<1> QED
  BY <1>2, <1>3 DEF TimerFollows

LEMMA NavigatedFacts ==
  ASSUME IInv, NEW p \in Pages
  PROVE  /\ (IF p \in built THEN p ELSE Loading) \in Widgets
         /\ NavigatedLoads(p) \in Seq(Pages)
         /\ p \notin built => \E i \in 1..Len(NavigatedLoads(p)) : NavigatedLoads(p)[i] = p
<1>1. loads \in Seq(Pages)
  BY DEF IInv, TypeOK
<1>2. Append(loads, p) \in Seq(Pages) /\ Len(Append(loads, p)) = Len(loads) + 1
      /\ Append(loads, p)[Len(loads) + 1] = p
  BY <1>1
<1> QED
  BY <1>1, <1>2, WidgetFacts DEF NavigatedLoads

LEMMA NavigateInv ==
  ASSUME IInv, NEW p \in Pages, navigateTo(p)
  PROVE  IInv'
<1> DEFINE w == IF p \in built THEN p ELSE Loading
           slide == isVisible /\ p \in built
<1>1. /\ w \in Widgets /\ slide \in BOOLEAN
      /\ w # p => w = Loading /\ p \notin built
  BY NavigatedFacts
<1>2. launched /\ ui' = pageClick(ui, w, slide)
  BY DEF navigateTo, MayClick, NavigatedUi
<1>3. /\ mPendingNavId' = p /\ loads' = NavigatedLoads(p)
      /\ isVisible' = TRUE /\ mPaused' = FALSE
  BY DEF navigateTo
<1>4. UNCHANGED <<built, mKioskMode, trayMonitor, miniMonitor, launched>>
  BY DEF navigateTo
<1>5. w # p => \E i \in 1..Len(loads') : loads'[i] = p
  BY <1>1, <1>3, NavigatedFacts
<1> HIDE DEF w, slide
<1>6. ui' \in Ui /\ Shown(ui') = w /\ Fed' /\ TimerFollows'
  BY <1>1, <1>2, <1>4, ClickFeeds
<1>7. TypeOK'
  BY <1>3, <1>4, <1>6, NavigatedFacts DEF IInv, TypeOK
<1>8. BeforeLaunch' /\ LoadsAfterLaunch' /\ ShownPageIsRequested'
  BY <1>1, <1>2, <1>3, <1>4, <1>5, <1>6
     DEF BeforeLaunch, LoadsAfterLaunch, ShownPageIsRequested
<1> QED
  BY <1>6, <1>7, <1>8 DEF IInv

LEMMA LoadInv ==
  ASSUME IInv, loadTimeout
  PROVE  IInv'
<1> DEFINE p == Head(loads)
<1>1. loads \in Seq(Pages) /\ loads # <<>>
  BY DEF IInv, TypeOK, loadTimeout
<1>2. /\ p \in Pages /\ p = loads[1] /\ Tail(loads) \in Seq(Pages)
      /\ Len(Tail(loads)) = Len(loads) - 1
      /\ \A i \in 1..Len(Tail(loads)) : Tail(loads)[i] = loads[i + 1]
  BY <1>1
<1>3. loads' = Tail(loads) /\ built' = built \union {p}
  BY DEF loadTimeout
<1>4. ui' = IF mPendingNavId = p THEN pageClick(ui, p, FALSE) ELSE ui
  BY DEF loadTimeout, StillWanted
<1>5. UNCHANGED <<mPendingNavId, isVisible, mPaused, mKioskMode, trayMonitor, miniMonitor,
                  launched>>
  BY DEF loadTimeout
<1>6. launched
  BY <1>1 DEF IInv, LoadsAfterLaunch
<1>7. p \in Widgets /\ p # Loading
  BY <1>2, WidgetFacts
<1>8. ASSUME ui' \in Ui, Fed', TimerFollows', ShownPageIsRequested'
      PROVE  IInv'
  <2>1. TypeOK'
    BY <1>2, <1>3, <1>5, <1>8 DEF IInv, TypeOK
  <2> QED
    BY <1>5, <1>6, <1>8, <2>1 DEF IInv, BeforeLaunch, LoadsAfterLaunch
<1> HIDE DEF p
<1>9. CASE mPendingNavId = p
  <2>1. ui' \in Ui /\ Shown(ui') = p /\ Fed' /\ TimerFollows'
    BY <1>4, <1>5, <1>6, <1>7, <1>9, ClickFeeds
  <2>2. ShownPageIsRequested'
    BY <1>5, <1>9, <2>1 DEF ShownPageIsRequested
  <2> QED
    BY <1>8, <2>1, <2>2
<1>10. CASE mPendingNavId # p
  <2>1. ui' = ui
    BY <1>4, <1>10
  <2>2. ui' \in Ui /\ Fed' /\ TimerFollows'
    BY <1>5, <2>1 DEF IInv, TypeOK, Fed, Monitors, TimerFollows
  <2>3. ASSUME NEW i \in 1..Len(loads), loads[i] = mPendingNavId
        PROVE  i - 1 \in 1..Len(Tail(loads)) /\ Tail(loads)[i - 1] = mPendingNavId
    <3>1. i # 1
      BY <1>2, <1>10, <2>3
    <3> QED
      BY <1>1, <1>2, <2>3, <3>1
  <2>4. ShownPageIsRequested'
    BY <1>3, <1>5, <1>6, <2>1, <2>3 DEF IInv, ShownPageIsRequested
  <2> QED
    BY <1>8, <2>2, <2>4
<1> QED
  BY <1>9, <1>10

LEMMA AnimationInv ==
  ASSUME IInv, animationDone
  PROVE  IInv'
<1>1. ui' = finishAnimation(ui)
  BY DEF animationDone
<1>2. UNCHANGED <<built, mPendingNavId, loads, isVisible, mPaused, mKioskMode, trayMonitor,
                  miniMonitor, launched>>
  BY DEF animationDone
<1>3. /\ ui' \in Ui /\ Shown(ui') = Shown(ui) /\ ui'.counts = ui.counts
      /\ ui'.mProcessPaused = ui.mProcessPaused
  BY <1>1, SettledUi DEF IInv, TypeOK
<1>4. TypeOK'
  BY <1>2, <1>3 DEF IInv, TypeOK
<1>5. Fed' /\ TimerFollows'
  BY <1>2, <1>3 DEF IInv, Fed, Monitors, PageCounted, TimerFollows
<1> QED
  BY <1>2, <1>3, <1>4, <1>5
     DEF IInv, BeforeLaunch, LoadsAfterLaunch, ShownPageIsRequested

LEMMA WindowInv ==
  ASSUME IInv, hideToTray \/ showAndRaise
  PROVE  IInv'
<1>1. UNCHANGED <<ui, built, mPendingNavId, loads, mKioskMode, trayMonitor, miniMonitor,
                  launched>>
  BY DEF hideToTray, showAndRaise
<1>2. {isVisible', mPaused'} \subseteq BOOLEAN
  BY DEF hideToTray, showAndRaise
<1>3. TypeOK'
  BY <1>1, <1>2 DEF IInv, TypeOK
<1> QED
  BY <1>1, <1>3 DEF IInv, Fed, Monitors, TimerFollows, BeforeLaunch, LoadsAfterLaunch,
                    ShownPageIsRequested

LEMMA KioskInv ==
  ASSUME IInv, toggleKioskMode
  PROVE  IInv'
<1>1. launched /\ mKioskMode' \in BOOLEAN /\ isVisible' \in BOOLEAN
      /\ UNCHANGED <<built, loads, mPaused, trayMonitor, miniMonitor, launched>>
  BY DEF toggleKioskMode, MayClick, IInv, TypeOK
<1>2. CASE mKioskMode'
  <2>1. mPendingNavId' = "dashboard" /\ ui' = pageClick(ui, "dashboard", FALSE)
    BY <1>2 DEF toggleKioskMode
  <2>2. ui' \in Ui /\ Shown(ui') = "dashboard" /\ Fed' /\ TimerFollows'
    BY <1>1, <2>1, WidgetFacts, ClickFeeds
  <2>3. TypeOK'
    BY <1>1, <2>1, <2>2, WidgetFacts DEF IInv, TypeOK
  <2> QED
    BY <1>1, <2>1, <2>2, <2>3
       DEF IInv, BeforeLaunch, LoadsAfterLaunch, ShownPageIsRequested
<1>3. CASE ~mKioskMode'
  <2>1. UNCHANGED <<mPendingNavId, ui>>
    BY <1>3 DEF toggleKioskMode
  <2>2. TypeOK'
    BY <1>1, <2>1 DEF IInv, TypeOK
  <2> QED
    BY <1>1, <2>1, <2>2 DEF IInv, Fed, Monitors, TimerFollows, BeforeLaunch,
                            LoadsAfterLaunch, ShownPageIsRequested
<1> QED
  BY <1>2, <1>3

\* A monitor that is switched takes or gives one subscription of its signals.
LEMMA MonitorInv ==
  ASSUME IInv, setTrayMonitor \/ setMiniMonitor
  PROVE  IInv'
<1> DEFINE plus == Subscribed(ui.counts, MonitorSignals)
           minus == Unsubscribed(ui.counts, MonitorSignals)
<1>1. /\ ui \in Ui /\ ui.counts \in [Signals -> Nat]
      /\ {trayMonitor, miniMonitor} \subseteq BOOLEAN
  BY DEF IInv, TypeOK, Ui
<1>2. /\ launched
      /\ UNCHANGED <<built, mPendingNavId, loads, isVisible, mPaused, mKioskMode, launched>>
  BY DEF setTrayMonitor, setMiniMonitor
<1>3. /\ plus \in [Signals -> Nat] /\ minus \in [Signals -> Nat]
      /\ \A s \in Signals : /\ plus[s] = ui.counts[s] + One(s \in MonitorSignals)
                            /\ minus[s] >= ui.counts[s] - One(s \in MonitorSignals)
  BY <1>1, CountsTypes
<1>4. PICK on \in BOOLEAN :
        /\ ui' = [ui EXCEPT !.counts = IF on THEN plus ELSE minus]
        /\ \/ trayMonitor' = on /\ trayMonitor = ~on /\ miniMonitor' = miniMonitor
           \/ miniMonitor' = on /\ miniMonitor = ~on /\ trayMonitor' = trayMonitor
  <2>1. CASE setTrayMonitor
    BY <1>1, <2>1 DEF setTrayMonitor, MonitorToggled
  <2>2. CASE setMiniMonitor
    BY <1>1, <2>2 DEF setMiniMonitor, MonitorToggled
  <2> QED
    BY <2>1, <2>2
<1> DEFINE counts == IF on THEN plus ELSE minus
<1>5. \A s \in Signals : counts[s] - Monitors(s)' >= ui.counts[s] - Monitors(s)
  <2> SUFFICES ASSUME NEW s \in Signals
               PROVE  counts[s] - Monitors(s)' >= ui.counts[s] - Monitors(s)
    OBVIOUS
  <2>1. /\ plus[s] = ui.counts[s] + One(s \in MonitorSignals)
        /\ minus[s] >= ui.counts[s] - One(s \in MonitorSignals)
        /\ plus[s] \in Nat /\ minus[s] \in Nat /\ ui.counts[s] \in Nat
    BY <1>1, <1>3
  <2> HIDE DEF plus, minus
  <2>2. CASE s \in MonitorSignals
    BY <1>1, <1>4, <2>1, <2>2 DEF Monitors, One
  <2>3. CASE s \notin MonitorSignals
    BY <1>1, <1>4, <2>1, <2>3 DEF Monitors, One
  <2> QED
    BY <2>2, <2>3
<1>6. counts \in [Signals -> Nat] /\ ui' = [ui EXCEPT !.counts = counts]
  BY <1>3, <1>4
<1> HIDE DEF counts, plus, minus
<1>7. /\ ui' \in Ui /\ ui'.counts = counts /\ Shown(ui') = Shown(ui)
      /\ ui'.mProcessPaused = ui.mProcessPaused
  BY <1>1, <1>6 DEF Ui, Shown
<1>8. TypeOK'
  BY <1>1, <1>2, <1>4, <1>7 DEF IInv, TypeOK
<1>9. Fed'
  <2> SUFFICES ASSUME NEW s \in Signals
               PROVE  ui'.counts[s] >= Monitors(s)' + PageCounted(ui', s)
    BY <1>2 DEF Fed
  <2>1. ui.counts[s] >= Monitors(s) + PageCounted(ui, s)
    BY <1>2 DEF IInv, Fed
  <2>2. Monitors(s) \in Nat /\ Monitors(s)' \in Nat /\ PageCounted(ui, s) \in Nat
        /\ counts[s] \in Nat /\ ui.counts[s] \in Nat
    BY <1>1, <1>6 DEF Monitors, PageCounted, One
  <2>3. PageCounted(ui', s) = PageCounted(ui, s)
    BY <1>7 DEF PageCounted
  <2> QED
    BY <1>5, <1>7, <2>1, <2>2, <2>3
<1> QED
  BY <1>2, <1>7, <1>8, <1>9
     DEF IInv, TimerFollows, BeforeLaunch, LoadsAfterLaunch, ShownPageIsRequested

\* The first hooks run when the start page is entered, twice in kiosk mode.
LEMMA LaunchInv ==
  ASSUME IInv, NEW p \in Pages, NEW kiosk \in BOOLEAN, NEW show \in BOOLEAN,
         launch(p, kiosk, show)
  PROVE  IInv'
<1> DEFINE w == IF p \in built THEN p ELSE Loading
           first == pageClick(ui, w, FALSE)
           second == pageClick(first, "dashboard", FALSE)
<1>1. /\ w \in Widgets /\ loads' \in Seq(Pages)
      /\ w # p => w = Loading /\ \E i \in 1..Len(loads') : loads'[i] = p
  BY NavigatedFacts DEF launch
<1>2. /\ ~launched /\ launched' = TRUE /\ mKioskMode' = kiosk
      /\ mPendingNavId' = (IF kiosk THEN "dashboard" ELSE p)
      /\ isVisible' = (show \/ kiosk)
      /\ UNCHANGED <<built, mPaused, trayMonitor, miniMonitor>>
  BY DEF launch
<1>3. ui' = IF kiosk THEN second ELSE first
  <2>1. (FALSE /\ p \in built) = FALSE
    OBVIOUS
  <2> QED
    BY <2>1 DEF launch, NavigatedUi
<1> HIDE DEF w, first, second
<1>4. /\ first \in Ui /\ Shown(first) = w
      /\ first.mProcessPaused = FALSE <=> w = "processes"
      /\ \A s \in Signals : first.counts[s] >= One(s \in PageSignals(w))
  BY <1>1, PageClickDoes DEF IInv, TypeOK, TimerFollows, first
<1>5. /\ second \in Ui /\ Shown(second) = "dashboard"
      /\ second.mProcessPaused = FALSE <=> "dashboard" = "processes"
      /\ \A s \in Signals : second.counts[s] >= One(s \in PageSignals("dashboard"))
  BY <1>4, WidgetFacts, PageClickDoes DEF second
<1>6. /\ ui' \in Ui /\ TimerFollows'
      /\ \A s \in Signals : ui'.counts[s] >= PageCounted(ui', s)
  BY <1>3, <1>4, <1>5 DEF TimerFollows, PageCounted
<1>7. Fed'
  <2> SUFFICES ASSUME NEW s \in Signals
               PROVE  ui'.counts[s] >= Monitors(s)' + PageCounted(ui', s)
    BY <1>2 DEF Fed
  <2>1. Monitors(s)' = 0
    BY <1>2 DEF IInv, BeforeLaunch, Monitors, One
  <2>2. PageCounted(ui', s) \in Nat
    BY DEF PageCounted, One
  <2> QED
    BY <1>6, <2>1, <2>2
<1>8. TypeOK'
  <2>1. mPendingNavId' \in Pages /\ isVisible' \in BOOLEAN
    BY <1>2, WidgetFacts
  <2> QED
    BY <1>1, <1>2, <1>6, <2>1 DEF IInv, TypeOK
<1>9. ShownPageIsRequested'
  BY <1>1, <1>2, <1>3, <1>4, <1>5 DEF ShownPageIsRequested
<1> QED
  BY <1>2, <1>6, <1>7, <1>8, <1>9 DEF IInv, BeforeLaunch, LoadsAfterLaunch

--------------------------------------------------------------------------------
(* The theorems. *)

LEMMA NextInv == IInv /\ [Next]_vars => IInv'
<1> SUFFICES ASSUME IInv, [Next]_vars PROVE IInv'
  OBVIOUS
<1>1. CASE UNCHANGED vars
  BY <1>1 DEF vars, IInv, TypeOK, Fed, Monitors, TimerFollows, BeforeLaunch,
              LoadsAfterLaunch, ShownPageIsRequested
<1>2. CASE \E p \in Pages, kiosk, show \in BOOLEAN : launch(p, kiosk, show)
  BY <1>2, LaunchInv
<1>3. CASE \E p \in Pages : navigateTo(p)
  BY <1>3, NavigateInv
<1>4. CASE setTrayMonitor \/ setMiniMonitor
  BY <1>4, MonitorInv
<1>5. CASE hideToTray \/ showAndRaise
  BY <1>5, WindowInv
<1> QED
  BY <1>1, <1>2, <1>3, <1>4, <1>5, LoadInv, AnimationInv, KioskInv DEF Next

LEMMA Invariance == Spec => []IInv
BY InitInv, NextInv, PTL DEF Spec

\* Every variable of the shell keeps its type; no count ever goes below zero.
THEOREM TypeCorrect == Spec => []TypeOK
<1>1. IInv => TypeOK
  BY DEF IInv
<1> QED
  BY Invariance, <1>1, PTL

\* Whatever clicks, animations, pending constructions and monitors do to each
\* other, a client on screen is counted and the process timer is its page's.
THEOREM HooksAlwaysPair == Spec => []HooksPair
<1>1. IInv => HooksPair
  <2> SUFFICES ASSUME IInv PROVE NeverStarved /\ ProcessTimerOnlyOnItsPage
    BY DEF HooksPair
  <2>1. ui.mProcessPaused \in BOOLEAN
    BY DEF IInv, TypeOK, Ui
  <2>2. ProcessTimerOnlyOnItsPage
    BY <2>1 DEF IInv, TimerFollows, ProcessTimerOnlyOnItsPage
  <2>3. ASSUME NEW s \in Signals PROVE ui.counts[s] >= Renderers(s)
    BY DEF IInv, TypeOK, Ui, Fed, Monitors, PageCounted, Renderers, One
  <2> QED
    BY <2>2, <2>3 DEF NeverStarved
<1> QED
  BY Invariance, <1>1, PTL

\* The window shows the page that was asked for last, or the placeholder while
\* that page's construction is pending.
THEOREM ShownIsWhatWasAsked == Spec => []ShownPageIsRequested
<1>1. IInv => ShownPageIsRequested
  BY DEF IInv
<1> QED
  BY Invariance, <1>1, PTL
================================================================================
