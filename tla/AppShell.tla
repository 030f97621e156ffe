-------------------------------- MODULE AppShell -------------------------------
(***************************************************************************)
(* The main window (App) as DataRefreshService's client: page navigation   *)
(* through the sliding stack, lazy page construction, the pages' activation*)
(* hooks, the tray and kiosk modes, and the two background monitors that   *)
(* subscribe beside the pages.  Of DataRefreshService it keeps what these  *)
(* touch, the subscriber counts and the two pause flags; DataRefresh is    *)
(* the service itself, against every order of these calls.                 *)
(*                                                                         *)
(* Everything here runs on the UI thread: one event is one action.         *)
(***************************************************************************)
EXTENDS Naturals, Sequences

CONSTANTS
    Pages,            \* ids of the pages, "dashboard" among them
    MaxSubscribers,   \* bound: the user stops clicking when a count passes it
    MaxLoads          \* bound: page constructions waiting at a time

ASSUME PagesAssumption ==
    /\ "dashboard" \in Pages
    /\ Pages \subseteq {"dashboard", "resources", "processes", "settings"}
    /\ MaxSubscribers \in Nat
    /\ MaxLoads \in Nat

Signals == {"Cpu", "DiskUsage", "DiskIO"}
Loading == "pageLoading"      \* the placeholder shown while a page is built
None    == "none"
Widgets == Pages \union {Loading}

\* The signals a page's onPageActivated() subscribes to.
PageSignals(p) == CASE p = "dashboard" -> {"Cpu", "DiskUsage"}
                    [] p = "resources" -> {"Cpu", "DiskIO"}
                    [] OTHER           -> {}

\* What TrayHealthMonitor and MiniMonitorWindow subscribe to.
MonitorSignals == {"Cpu", "DiskUsage"}

VARIABLES
    ui,             \* the stack, the subscriber counts and mProcessPaused
    built,          \* pages whose factory has run
    mPendingNavId,
    loads,          \* ids captured by the 20 ms single-shot lambdas, in order
    isVisible,
    mPaused,        \* DataRefreshService::isPaused()
    mKioskMode,
    trayMonitor,    \* TrayHealthMonitor::mEnabled
    miniMonitor,    \* MiniMonitorWindow::mSubscribed
    launched        \* App::init has run

vars == <<ui, built, mPendingNavId, loads, isVisible, mPaused, mKioskMode,
          trayMonitor, miniMonitor, launched>>

--------------------------------------------------------------------------------
(* The stack and the page hooks.  `current` is QStackedWidget's page;        *)
(* `slideTo` the page an animation is bringing in, if one runs.              *)

\* The page the user is being shown.
Shown(u) == IF u.slideTo = None THEN u.current ELSE u.slideTo

finishAnimation(u) == [u EXCEPT !.current = Shown(u), !.slideTo = None]

Subscribed(counts, sigs) ==
    [s \in Signals |-> counts[s] + IF s \in sigs THEN 1 ELSE 0]

\* Seeded fault: unsubscribe() has no floor.
UnsubscribedUnfloored(counts, sigs) ==
    [s \in Signals |-> counts[s] - IF s \in sigs THEN 1 ELSE 0]

\* unsubscribe() never takes a count below zero.
Unsubscribed(counts, sigs) ==
    [s \in Signals |-> counts[s] - IF s \in sigs /\ counts[s] > 0 THEN 1 ELSE 0]

onPageActivated(u, p) ==
    [u EXCEPT !.counts = Subscribed(@, PageSignals(p)),
              !.mProcessPaused = @ /\ p # "processes"]

onPageDeactivated(u, p) ==
    [u EXCEPT !.counts = Unsubscribed(@, PageSignals(p)),
              !.mProcessPaused = @ \/ p = "processes"]

\* The hooks of a page that is left run only if another page is entered; those
\* of the page that is entered always run.
Leave(u, p) == IF u.current # p THEN onPageDeactivated(u, u.current) ELSE u

\* slideInIdx() starts no animation towards the page that is current already.
Enter(u, p, slide) ==
    IF slide /\ u.current # p THEN [u EXCEPT !.slideTo = p]
                              ELSE [u EXCEPT !.current = p]

\* Seeded fault: the running animation is not settled first.
PageClickUnsettled(u, p, slide) ==
    onPageActivated(Enter(Leave(u, p), p, slide), p)

pageClick(u, p, slide) ==
    onPageActivated(Enter(Leave(finishAnimation(u), p), p, slide), p)

--------------------------------------------------------------------------------
(* Navigation. *)

\* A page that is not built yet: show the placeholder, build in 20 ms.
NavigatedUi(p, slide) ==
    pageClick(ui, IF p \in built THEN p ELSE Loading, slide /\ p \in built)

NavigatedLoads(p) == IF p \in built THEN loads ELSE Append(loads, p)

\* Bound: no further click while a count or the queue of loads is at its limit.
MayClick == /\ launched
            /\ Len(loads) < MaxLoads
            /\ \A s \in Signals : ui.counts[s] <= MaxSubscribers

\* navigateTo(p, true): sidebar, tray, palette or a link on a page.  Shows the
\* window, so sigAppVisibilityChanged(true) resumes the service.
navigateTo(p) ==
    /\ MayClick
    /\ mPendingNavId' = p
    /\ ui' = NavigatedUi(p, isVisible)
    /\ loads' = NavigatedLoads(p)
    /\ isVisible' = TRUE
    /\ mPaused' = FALSE
    /\ UNCHANGED <<built, mKioskMode, trayMonitor, miniMonitor, launched>>

\* Seeded fault: the lambda does not look at mPendingNavId.
StillWantedAlways(id) == TRUE

\* Seeded fault: the lambda compares with the page it finds current.
StillWantedIfCurrent(id) == ui.current = id

StillWanted(id) == mPendingNavId = id

\* The single-shot lambda: the page is built in any case, entered only if the
\* user has not moved on.
loadTimeout ==
    /\ loads # <<>>
    /\ loads' = Tail(loads)
    /\ built' = built \union {Head(loads)}
    /\ ui' = IF StillWanted(Head(loads)) THEN pageClick(ui, Head(loads), FALSE)
                                         ELSE ui
    /\ UNCHANGED <<mPendingNavId, isVisible, mPaused, mKioskMode, trayMonitor,
                   miniMonitor, launched>>

animationDone ==
    /\ ui.slideTo # None
    /\ ui' = finishAnimation(ui)
    /\ UNCHANGED <<built, mPendingNavId, loads, isVisible, mPaused, mKioskMode,
                   trayMonitor, miniMonitor, launched>>

--------------------------------------------------------------------------------
(* Window, tray, kiosk and monitors. *)

\* Close, or minimize, with "minimize to tray" on: pause() refuses in kiosk mode.
hideToTray ==
    /\ launched
    /\ isVisible
    /\ isVisible' = FALSE
    /\ mPaused' = (mPaused \/ ~mKioskMode)
    /\ UNCHANGED <<ui, built, mPendingNavId, loads, mKioskMode, trayMonitor,
                   miniMonitor, launched>>

showAndRaise ==
    /\ launched
    /\ isVisible' = TRUE
    /\ mPaused' = FALSE
    /\ UNCHANGED <<ui, built, mPendingNavId, loads, mKioskMode, trayMonitor,
                   miniMonitor, launched>>

\* F11, Esc, the Dashboard's button, or the tray while the window is hidden.
\* Both directions show the window; neither emits sigAppVisibilityChanged.
toggleKioskMode ==
    /\ MayClick
    /\ mKioskMode' = ~mKioskMode
    /\ isVisible' = TRUE
    /\ IF mKioskMode'
       THEN /\ mPendingNavId' = "dashboard"
            /\ ui' = pageClick(ui, "dashboard", FALSE)
       ELSE UNCHANGED <<mPendingNavId, ui>>
    /\ UNCHANGED <<built, loads, mPaused, trayMonitor, miniMonitor, launched>>

MonitorToggled(on) ==
    ui' = [ui EXCEPT !.counts = IF on THEN Subscribed(@, MonitorSignals)
                                      ELSE Unsubscribed(@, MonitorSignals)]

setTrayMonitor ==
    /\ launched
    /\ trayMonitor' = ~trayMonitor
    /\ MonitorToggled(trayMonitor')
    /\ UNCHANGED <<built, mPendingNavId, loads, isVisible, mPaused, mKioskMode,
                   miniMonitor, launched>>

setMiniMonitor ==
    /\ launched
    /\ miniMonitor' = ~miniMonitor
    /\ MonitorToggled(miniMonitor')
    /\ UNCHANGED <<built, mPendingNavId, loads, isVisible, mPaused, mKioskMode,
                   trayMonitor, launched>>

--------------------------------------------------------------------------------

\* App::init, up to the start page: the Dashboard is built and, as the stack's
\* first widget, current; no hook has run.
Init ==
    /\ ui = [current |-> "dashboard", slideTo |-> None,
             counts |-> [s \in Signals |-> 0], mProcessPaused |-> TRUE]
    /\ built = {"dashboard"}
    /\ mPendingNavId = "dashboard"
    /\ loads = <<>>
    /\ isVisible = FALSE
    /\ mPaused = FALSE
    /\ mKioskMode = FALSE
    /\ trayMonitor = FALSE
    /\ miniMonitor = FALSE
    /\ launched = FALSE

\* The rest of App::init and main(): navigateTo(start page), kiosk mode if it
\* was saved or forced, and w.show() unless Nexis starts minimized to the tray.
launch(startPage, kiosk, show) ==
    /\ ~launched
    /\ launched' = TRUE
    /\ mKioskMode' = kiosk
    /\ mPendingNavId' = IF kiosk THEN "dashboard" ELSE startPage
    /\ ui' = IF kiosk THEN pageClick(NavigatedUi(startPage, FALSE), "dashboard", FALSE)
                      ELSE NavigatedUi(startPage, FALSE)
    /\ loads' = NavigatedLoads(startPage)
    /\ isVisible' = (show \/ kiosk)
    /\ UNCHANGED <<built, mPaused, trayMonitor, miniMonitor>>

Next ==
    \/ \E p \in Pages, kiosk, show \in BOOLEAN : launch(p, kiosk, show)
    \/ \E p \in Pages : navigateTo(p)
    \/ loadTimeout
    \/ animationDone
    \/ hideToTray
    \/ showAndRaise
    \/ toggleKioskMode
    \/ setTrayMonitor
    \/ setMiniMonitor

Spec == Init /\ [][Next]_vars

\* Single-shot timers fire and animations end; the user owes nothing.
FairSpec == Spec /\ WF_vars(loadTimeout) /\ WF_vars(animationDone)

--------------------------------------------------------------------------------
(* Properties. *)

Ui == [current : Widgets, slideTo : Widgets \union {None},
       counts : [Signals -> Nat], mProcessPaused : BOOLEAN]

\* Every variable keeps its type.
TypeOK ==
    /\ ui \in Ui
    /\ built \subseteq Pages
    /\ mPendingNavId \in Pages
    /\ loads \in Seq(Pages)
    /\ {isVisible, mPaused, mKioskMode, trayMonitor, miniMonitor, launched}
         \subseteq BOOLEAN

\* How many clients that are on screen, or enabled, render signal s.
Renderers(s) ==
    (IF launched /\ s \in PageSignals(Shown(ui)) THEN 1 ELSE 0) +
    (IF trayMonitor /\ s \in MonitorSignals THEN 1 ELSE 0) +
    (IF miniMonitor /\ s \in MonitorSignals THEN 1 ELSE 0)

\* A page or a monitor that renders a signal is never starved of it by the
\* unsubscriptions of another one: the counts are shared and floored at zero.
NeverStarved == \A s \in Signals : ui.counts[s] >= Renderers(s)

\* The shown page and the requested page never diverge: the window shows what
\* was last asked for, or the placeholder of a page whose build is pending.
ShownPageIsRequested ==
    launched =>
        \/ Shown(ui) = mPendingNavId
        \/ Shown(ui) = Loading /\ \E i \in 1..Len(loads) : loads[i] = mPendingNavId

\* The process timer is on exactly while the Processes page is shown.
ProcessTimerOnlyOnItsPage ==
    launched => (~ui.mProcessPaused <=> Shown(ui) = "processes")

\* Both: whatever clicks, animations and pending constructions interrupt each
\* other, the hooks of the pages pair.
HooksPair == NeverStarved /\ ProcessTimerOnlyOnItsPage

\* A requested page is eventually the stack's current page, unless the user
\* asks for another one: nobody is left looking at the placeholder.
RequestedPageShown ==
    \A p \in Pages :
        (launched /\ mPendingNavId = p) ~> (ui.current = p \/ mPendingNavId # p)

\* Documented: a signal nobody renders is not sampled.
SampledOnlyIfRendered ==
    \A s \in Signals : ui.counts[s] > 0 => Renderers(s) > 0

\* Documented: the kiosk display stays live.
KioskStaysLive == launched /\ mKioskMode /\ isVisible => ~mPaused

\* Documented: all polling stops while Nexis is in the tray, kiosk mode apart.
TrayStopsPolling == launched /\ ~isVisible /\ ~mKioskMode => mPaused

\* Documented: the mini monitor keeps being fed while the main window is hidden.
MiniMonitorIsFed == launched /\ miniMonitor => ~mPaused
================================================================================
