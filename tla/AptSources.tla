------------------------------- MODULE AptSources -------------------------------
(***************************************************************************)
(* The repository page on Linux (APTSourceManagerPage) and the two checks  *)
(* of DataRefreshService it drives: system updates (hourly, Check Now,     *)
(* after an upgrade) and repository health (after any change of the source *)
(* list, after an update check, Refresh Health).  A check runs on the      *)
(* thread pool, is refused while one of its kind runs, and is published    *)
(* through the event queue.  What a check saw is the version of what it    *)
(* read: of the sources on disk, or of the installed packages.  A health   *)
(* check has a result for each source of the version it saw, and fills the *)
(* cards of those sources only.  (What DataRefresh has a name for is       *)
(* Apt... here: DataRefresh_proofs takes both.)                            *)
(***************************************************************************)
EXTENDS Integers

CONSTANTS
    Keys,           \* RepoHealthChecker::cacheKey() of the sources there may be
    MaxVersion,     \* bound: changes of the sources
    MaxUpgrades     \* bound: upgrades that change the packages

ASSUME VersionsAssumption == MaxVersion \in Nat /\ MaxUpgrades \in Nat

VARIABLES
    sources, packages,         \* versions of what is on disk
    content,                   \* the sources each version of the list has; fixed
    polling,                   \* the hourly timer is active: ~mPaused
    mUpdateCheckRunning, mRepoHealthRunning,
    updateChecks, repoChecks,  \* started and not published yet
    lastUpdates, lastHealth,   \* mLastUpdateCheckResult, mLastRepoHealthCache
    built,                     \* the page is constructed, at its first visit
    shownUpdates,              \* what the page's updates table shows
    listed,                    \* version of the source list the page shows
    cards,                     \* what the health on the card of a source was read from
    checkNow, refreshHealth,   \* the two buttons are enabled
    upgrade,                   \* "no", "running", or "ended" (its call queued)
    reconciled                 \* history: packages when an upgrade last ended

updateVars == <<mUpdateCheckRunning, updateChecks, lastUpdates, shownUpdates, checkNow>>
healthVars == <<mRepoHealthRunning, repoChecks, lastHealth, cards, refreshHealth>>
worldVars == <<content, polling>>
aptVars == <<sources, packages, worldVars, updateVars, healthVars, built, upgrade, listed,
             reconciled>>

Versions == 0..MaxVersion
Installs == 0..MaxUpgrades
Unread == -1                \* a check that has read nothing, a result there is not
Saw == Versions \union {Unread}

\* "some": the check succeeded and found updates.
UpdateResult == [saw : Installs \union {Unread}, some : BOOLEAN]
NoResult == [saw |-> Unread, some |-> FALSE]

AtMostOne(S) == {{}} \union {{x} : x \in S}

\* The updates section, both buttons in it, is hidden without updates to list.
SectionShown == built /\ shownUpdates.some

\* The sources that have a card.
Carded == IF built THEN content[listed] ELSE {}

\* Types; in particular no two checks of a kind are ever in flight.
AptTypeOK ==
    /\ sources \in Versions /\ packages \in Installs
    /\ content \in [Versions -> SUBSET Keys] /\ polling \in BOOLEAN
    /\ mUpdateCheckRunning \in BOOLEAN /\ mRepoHealthRunning \in BOOLEAN
    /\ updateChecks \in AtMostOne(UpdateResult) /\ repoChecks \in AtMostOne(Saw)
    /\ lastUpdates \in UpdateResult /\ shownUpdates \in UpdateResult
    /\ lastHealth \in Saw /\ cards \in [Keys -> Saw]
    /\ built \in BOOLEAN /\ checkNow \in BOOLEAN /\ refreshHealth \in BOOLEAN
    /\ upgrade \in {"no", "running", "ended"}
    /\ listed \in Saw /\ (built => listed \in Versions)
    /\ reconciled \in Installs

AptInit ==
    /\ sources = 0 /\ packages = 0
    /\ content \in [Versions -> SUBSET Keys]
    /\ polling = TRUE
    /\ mUpdateCheckRunning = FALSE /\ mRepoHealthRunning = FALSE
    /\ updateChecks = {} /\ repoChecks = {}
    /\ lastUpdates = NoResult /\ shownUpdates = NoResult
    /\ lastHealth = Unread /\ cards = [k \in Keys |-> Unread]
    /\ built = FALSE /\ checkNow = TRUE /\ refreshHealth = TRUE
    /\ upgrade = "no"
    /\ listed = Unread /\ reconciled = 0

--------------------------------------------------------------------------------
(* Starting a check. *)

triggerUpdateCheck ==
    /\ mUpdateCheckRunning' = TRUE
    /\ updateChecks' = IF mUpdateCheckRunning THEN updateChecks
                                              ELSE updateChecks \union {NoResult}

\* Seeded fault: a trigger starts a check whether or not one is running.
triggerRepoHealthUnguarded ==
    /\ mRepoHealthRunning' = TRUE
    /\ repoChecks' = repoChecks \union {Unread}

triggerRepoHealthCheck ==
    /\ mRepoHealthRunning' = TRUE
    /\ repoChecks' = IF mRepoHealthRunning THEN repoChecks
                                           ELSE repoChecks \union {Unread}

--------------------------------------------------------------------------------
(* The page's handlers. *)

\* The list is made anew, every card without health.
loadAptSources(version) ==
    /\ cards' = [k \in Keys |-> Unread]
    /\ listed' = version
    /\ triggerRepoHealthCheck

\* Seeded fault: a page built late waits for the next result.
BackfillNone == NoResult

\* BUG-110: the results published before the page was there.
Backfill == lastUpdates

\* ensurePage().  Filling the (still empty) list with lastHealth has no effect;
\* loadAptSources() comes after it.
buildPage ==
    /\ ~built
    /\ built' = TRUE
    /\ shownUpdates' = Backfill
    /\ loadAptSources(sources)
    /\ UNCHANGED <<sources, packages, worldVars, mUpdateCheckRunning, updateChecks,
                   lastUpdates, checkNow, lastHealth, refreshHealth, upgrade,
                   reconciled>>

\* What a command that edits the sources may leave of them.
Edited == {sources, sources + 1} \intersect Versions

\* Add, edit, delete, disable from the detail panel, a repair that succeeds: the
\* list is loaded again.  Of these, only the repair knows that anything changed.
changeSource ==
    /\ built
    /\ sources' \in Edited
    /\ loadAptSources(sources')
    /\ UNCHANGED <<packages, worldVars, updateVars, lastHealth, refreshHealth, built,
                   upgrade, reconciled>>

\* The check box of a card, and a repair that fails, perhaps half way: the list is
\* not loaded again.
changeSourceQuietly ==
    /\ built
    /\ sources' \in Edited
    /\ UNCHANGED <<packages, worldVars, updateVars, healthVars, built, upgrade, listed,
                   reconciled>>

refreshHealthClicked ==
    /\ SectionShown /\ refreshHealth
    /\ refreshHealth' = FALSE
    /\ triggerRepoHealthCheck
    /\ UNCHANGED <<sources, packages, worldVars, updateVars, lastHealth, cards, built,
                   upgrade, listed, reconciled>>

checkNowClicked ==
    /\ SectionShown /\ checkNow
    /\ checkNow' = FALSE
    /\ triggerUpdateCheck
    /\ UNCHANGED <<sources, packages, worldVars, lastUpdates, shownUpdates, healthVars,
                   built, upgrade, listed, reconciled>>

onUpdateSelectedClicked ==
    /\ SectionShown /\ upgrade = "no"
    /\ upgrade' = "running"
    /\ checkNow' = FALSE
    /\ UNCHANGED <<sources, packages, worldVars, mUpdateCheckRunning, updateChecks,
                   lastUpdates, shownUpdates, healthVars, built, listed, reconciled>>

\* The worker: flatpak and snap, one target after the other, some may fail.
upgradeEnds ==
    /\ upgrade = "running"
    /\ upgrade' = "ended"
    /\ packages' \in {packages, packages + 1} \intersect Installs
    /\ UNCHANGED <<sources, worldVars, updateVars, healthVars, built, listed,
                   reconciled>>

\* Its call on the GUI thread.
upgradeFinished ==
    /\ upgrade = "ended"
    /\ upgrade' = "no"
    /\ checkNow' = TRUE
    /\ reconciled' = packages
    /\ triggerUpdateCheck
    /\ UNCHANGED <<sources, packages, worldVars, lastUpdates, shownUpdates, healthVars,
                   built, listed>>

--------------------------------------------------------------------------------
(* DataRefreshService. *)

\* The hourly timer, which also fires at start.
onUpdateTick ==
    /\ polling
    /\ triggerUpdateCheck
    /\ UNCHANGED <<sources, packages, worldVars, lastUpdates, shownUpdates, checkNow,
                   healthVars, built, upgrade, listed, reconciled>>

\* pause() and resume(): the window is hidden, the window is shown.
visibilityChanged ==
    /\ polling' = ~polling
    /\ UNCHANGED <<sources, packages, content, updateVars, healthVars, built, upgrade,
                   listed, reconciled>>

\* Workers.
readUpdates ==
    /\ NoResult \in updateChecks
    /\ \E some \in BOOLEAN :
          updateChecks' = (updateChecks \ {NoResult})
                             \union {[saw |-> packages, some |-> some]}
    /\ UNCHANGED <<sources, packages, worldVars, mUpdateCheckRunning, lastUpdates,
                   shownUpdates, checkNow, healthVars, built, upgrade, listed,
                   reconciled>>

readSources ==
    /\ Unread \in repoChecks
    /\ repoChecks' = (repoChecks \ {Unread}) \union {sources}
    /\ UNCHANGED <<sources, packages, worldVars, updateVars, mRepoHealthRunning,
                   lastHealth, cards, refreshHealth, built, upgrade, listed,
                   reconciled>>

\* The button comes back even if the section around it is then hidden.
CheckNowAfter(result) == TRUE

\* Seeded fault: an update check asks for no health check.
HealthAfterUpdatesNot == UNCHANGED <<mRepoHealthRunning, repoChecks>>

HealthAfterUpdates == triggerRepoHealthCheck

\* Publication.  The page's slots run in the order of their connection.
systemUpdatesChecked(result) ==
    /\ result # NoResult
    /\ updateChecks' = updateChecks \ {result}
    /\ mUpdateCheckRunning' = FALSE
    /\ lastUpdates' = result
    /\ IF built
       THEN /\ shownUpdates' = result
            /\ checkNow' = CheckNowAfter(result)
            /\ HealthAfterUpdates
       ELSE UNCHANGED <<shownUpdates, checkNow, mRepoHealthRunning, repoChecks>>
    /\ UNCHANGED <<sources, packages, worldVars, lastHealth, cards, refreshHealth,
                   built, upgrade, listed, reconciled>>

\* Seeded fault: a result like the last one is not signalled.
SignalledIfNew(saw) == saw # lastHealth

Signalled(saw) == TRUE

\* The cards whose key the result has; the others stay as they are.
repoHealthChecked(saw) ==
    /\ saw # Unread
    /\ repoChecks' = repoChecks \ {saw}
    /\ mRepoHealthRunning' = FALSE
    /\ lastHealth' = saw
    /\ IF Signalled(saw)
       THEN /\ cards' = [k \in Keys |-> IF k \in Carded \intersect content[saw]
                                        THEN saw ELSE cards[k]]
            /\ refreshHealth' = TRUE
       ELSE UNCHANGED <<cards, refreshHealth>>
    /\ UNCHANGED <<sources, packages, worldVars, updateVars, built, upgrade, listed,
                   reconciled>>

AptNext ==
    \/ buildPage \/ changeSource \/ changeSourceQuietly
    \/ refreshHealthClicked \/ checkNowClicked
    \/ onUpdateSelectedClicked \/ upgradeEnds \/ upgradeFinished
    \/ onUpdateTick \/ visibilityChanged \/ readUpdates \/ readSources
    \/ \E result \in updateChecks : systemUpdatesChecked(result)
    \/ \E saw \in repoChecks : repoHealthChecked(saw)

AptSpec == AptInit /\ [][AptNext]_aptVars

\* The commands of the checks have time-outs, so their workers end; queued calls are
\* run; the hourly timer fires while it is active.  An upgrade need not end: its
\* commands have no time-out, and one of them asks for a password.
AptFairness ==
    /\ WF_aptVars(readUpdates) /\ WF_aptVars(readSources)
    /\ WF_aptVars(upgradeFinished)
    /\ WF_aptVars(onUpdateTick)
    /\ WF_aptVars(\E result \in updateChecks : systemUpdatesChecked(result))
    /\ WF_aptVars(\E saw \in repoChecks : repoHealthChecked(saw))

AptFairSpec == AptSpec /\ AptFairness

--------------------------------------------------------------------------------
\* Safety.  However the page came to be built, its table is the service's last
\* result: a page first visited hours after the start shows what was found then.
TableIsLastResult == built => shownUpdates = lastUpdates

\* Action property.  A check that read an older source list never replaces the
\* result of one that read a newer list: in the cache, or on a card of a list that
\* was not loaded again in between.
HealthNeverGoesBack ==
    [][ /\ lastHealth' >= lastHealth
        /\ \A k \in Keys :
              cards[k] # Unread /\ cards'[k] # Unread => cards'[k] >= cards[k] ]_aptVars

\* Liveness.  While the window stays visible a card does not wait for ever: the check
\* its list asked for may have been refused, and the one that ran then may not know
\* its source, but an hourly one will, unless the source is gone from the list or the
\* disk.
CardsGetHealth ==
    <>[]polling =>
        \A k \in Keys :
            (k \in Carded /\ cards[k] = Unread)
                ~> (cards[k] # Unread \/ k \notin Carded \/ k \notin content[sources])

\* Liveness.  A button that went to "Checking..." comes back, although the check
\* it asked for may have been refused, and the one that ran was not its own.  Only
\* Check Now may wait for more than a check: for an upgrade, while that runs.
ButtonsComeBack ==
    /\ (~checkNow /\ upgrade # "running") ~> checkNow
    /\ ~refreshHealth ~> refreshHealth

\* Not true of the code, safety.  "Refresh health after any source list change":
\* when the page shows the sources there are and no check is running, every card has
\* the health of its source.
HealthFollowsSources ==
    built /\ listed = sources /\ ~mRepoHealthRunning
        => \A k \in Carded : cards[k] = listed

\* Not true of the code, safety.  "Reconcile list": once an upgrade has ended and
\* no check is running, the table was read after that upgrade.
UpdatesReconciled ==
    built /\ upgrade = "no" /\ ~mUpdateCheckRunning
        => reconciled = 0 \/ reconciled <= shownUpdates.saw
================================================================================
