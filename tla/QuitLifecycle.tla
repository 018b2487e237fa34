--------------------------- MODULE QuitLifecycle ---------------------------
(***************************************************************************)
(* How the application ends (main/quitLifecycle.ts, main/updater.ts and    *)
(* the before-quit, will-quit and window-all-closed handlers of            *)
(* main/index.ts). A quit is held back until recording, worker and AI runs *)
(* are stopped; the updater runs the same cleanup before it hands over to  *)
(* the installer.                                                          *)
(*                                                                         *)
(* An action is one turn of the event loop, except that a promise's        *)
(* continuation is an action of its own (Settled, HandOver): nothing else  *)
(* runs before it (Turn). The update service is on (evaluateGate passed).  *)
(* Electron and electron-updater are modelled from how the code uses them  *)
(* and from what its comments quote of them.                               *)
(***************************************************************************)
EXTENDS Naturals

CONSTANTS MaxChecks, \* checks for an update
          MaxClicks  \* clicks on "restart now"

ASSUME QuitAssumption == MaxChecks \in Nat /\ MaxClicks \in Nat

VARIABLES phase,      \* quitLifecycle: idle, stopping, finishing
          thenQuit,   \* the cleanup in flight is finish(), which ends in quit()
          recorder,   \* stop(): not called, pending, answered or failed
          host,       \* the worker host
          update,     \* updater: phase of its state
          installs,   \* updater: calls of install() that wait for shutdown()
          installing, \* updater: the latch
          watchdog,   \* updater: off, armed, fired; thrown when quitAndInstall threw
          feed,       \* electron-updater: the check in progress
          downloaded, \* electron-updater: an update is on disk
          handed,     \* electron-updater: quitAndInstallCalled
          quitSoon,   \* electron-updater: app.quit() is scheduled
          installers, \* installers started
          app,        \* running, closing (windows and will-quit), gone
          checks, clicks, \* bounded by MaxChecks, MaxClicks
          chains      \* history: cleanups started

lifecycleVars == <<phase, thenQuit, recorder, host, chains>>
updaterVars == <<update, installs, installing, watchdog>>
backendVars == <<feed, downloaded, handed, quitSoon, installers>>
quitVars == <<lifecycleVars, updaterVars, backendVars, app, checks, clicks>>

QuitTypeOK ==
  /\ phase \in {"idle", "stopping", "finishing"} /\ thenQuit \in BOOLEAN
  /\ recorder \in {"on", "pending", "stopped", "failed"}
  /\ host \in {"up", "stopped", "failed"} /\ chains \in Nat
  /\ update \in {"idle", "checking", "downloading", "ready", "error"}
  /\ installs \in 0..1 /\ installing \in BOOLEAN
  /\ watchdog \in {"off", "armed", "fired", "thrown"}
  /\ feed \in {"quiet", "checking", "downloading"}
  /\ downloaded \in BOOLEAN /\ handed \in BOOLEAN /\ quitSoon \in BOOLEAN
  /\ installers \in Nat
  /\ app \in {"running", "closing", "gone"}
  /\ checks \in 0..MaxChecks /\ clicks \in 0..MaxClicks

QuitInit ==
  /\ phase = "idle" /\ thenQuit = FALSE /\ recorder = "on" /\ host = "up" /\ chains = 0
  /\ update = "idle" /\ installs = 0 /\ installing = FALSE /\ watchdog = "off"
  /\ feed = "quiet" /\ downloaded = FALSE /\ handed = FALSE /\ quitSoon = FALSE
  /\ installers = 0
  /\ app = "running" /\ checks = 0 /\ clicks = 0

(* No continuation of a settled promise is waiting: a new turn may begin.  *)
Turn == app # "gone" /\ ~(phase = "finishing" /\ installs > 0)

----------------------------------------------------------------------------
(* quitLifecycle                                                           *)

(* The synchronous part of cleanup(): the AI runs are told to stop, the    *)
(* recorder is asked to.                                                   *)
StartCleanup(quits) ==
  /\ phase' = "stopping" /\ thenQuit' = quits
  /\ recorder' = "pending" /\ chains' = chains + 1
  /\ UNCHANGED host

(* The second listener of before-quit, dispose(). That it also stops the   *)
(* timers of the check is left out: the user may check at any time.        *)
Dispose == watchdog' = IF watchdog = "armed" THEN "off" ELSE watchdog

(* Both listeners of before-quit.                                          *)
BeforeQuit ==
  /\ Dispose
  /\ CASE phase = "finishing" -> app' = "closing" /\ UNCHANGED lifecycleVars
       [] phase = "stopping" -> UNCHANGED <<app, lifecycleVars>>
       [] phase = "idle" -> StartCleanup(TRUE) /\ UNCHANGED app

(* The user quits, or closes the last window (window-all-closed).          *)
AskToQuit ==
  /\ Turn /\ app = "running" /\ BeforeQuit
  /\ UNCHANGED <<update, installs, installing, backendVars, checks, clicks>>

(* OBS answers, or the recorder gives up.                                  *)
RecorderStops ==
  /\ Turn /\ recorder = "pending"
  /\ \E result \in {"stopped", "failed"} : recorder' = result
  /\ UNCHANGED <<phase, thenQuit, host, chains, updaterVars, backendVars, app, checks,
                 clicks>>

(* Mutant of Ready: the race without the timeout.                          *)
ReadyNoTimeout == recorder \in {"stopped", "failed"}

(* The race of cleanup(): the recorder's answer, or after 4 or 8 seconds   *)
(* the timer, whatever the recorder does.                                  *)
Ready == recorder # "on"

(* The rest of cleanup(), and quit() when the chain is finish(): before-   *)
(* quit comes at once and finds the phase already finishing.               *)
Settled ==
  /\ phase = "stopping" /\ Ready
  /\ phase' = "finishing"
  /\ \E result \in {"stopped", "failed"} : host' = result
  /\ IF thenQuit THEN Dispose /\ app' = "closing" ELSE UNCHANGED <<watchdog, app>>
  /\ UNCHANGED <<thenQuit, recorder, chains, update, installs, installing, backendVars,
                 checks, clicks>>

----------------------------------------------------------------------------
(* updater                                                                 *)

(* A check by the user or by the timer; while one is in progress           *)
(* electron-updater joins the two.                                         *)
Check ==
  /\ Turn /\ checks < MaxChecks /\ feed = "quiet"
  /\ checks' = checks + 1 /\ feed' = "checking" /\ update' = "checking"
  /\ UNCHANGED <<lifecycleVars, installs, installing, watchdog, downloaded,
                 handed, quitSoon, installers, app, clicks>>

(* The outcomes of a check, each with the state its event sets: nothing    *)
(* new, a download, its progress, its end, or an error.                    *)
FeedEvent ==
  /\ Turn
  /\ \/ feed = "checking" /\ feed' = "quiet" /\ update' = "idle" /\ UNCHANGED downloaded
     \/ feed = "checking" /\ feed' = "downloading" /\ update' = "downloading"
        /\ UNCHANGED downloaded
     \/ feed = "downloading" /\ update' = "downloading" /\ UNCHANGED <<feed, downloaded>>
     \/ feed = "downloading" /\ feed' = "quiet" /\ update' = "ready" /\ downloaded' = TRUE
     \/ feed # "quiet" /\ feed' = "quiet" /\ update' = "error" /\ UNCHANGED downloaded
  /\ UNCHANGED <<lifecycleVars, installs, installing, watchdog, handed, quitSoon,
                 installers, app, checks, clicks>>

(* Mutant of MayInstall: no latch.                                         *)
MayInstallAgain == update = "ready"

MayInstall == update = "ready" /\ ~installing

(* install() up to its await of shutdown(), which starts the cleanup or    *)
(* joins the one in flight.                                                *)
Install ==
  /\ Turn /\ clicks < MaxClicks
  /\ MayInstall
  /\ clicks' = clicks + 1 /\ installing' = TRUE /\ installs' = installs + 1
  /\ IF phase = "idle" THEN StartCleanup(FALSE) ELSE UNCHANGED lifecycleVars
  /\ UNCHANGED <<update, watchdog, backendVars, app, checks>>

(* Mutant of Waits: shutdown() is not awaited.                             *)
WaitsForNothing == installs > 0

(* install() goes on when the cleanup it started or joined has settled.    *)
Waits == installs > 0 /\ phase = "finishing"

(* quitAndInstall: starts the installer and has the application quit in a  *)
(* moment, or does neither, also when it was called before; the watchdog   *)
(* is set in both cases. It may also throw.                                *)
HandOver ==
  /\ app # "gone" /\ Waits
  /\ installs' = installs - 1
  /\ \/ ~handed /\ handed' = TRUE /\ installers' = installers + 1 /\ quitSoon' = TRUE
        /\ watchdog' = "armed" /\ UNCHANGED update
     \/ handed' = FALSE /\ watchdog' = "armed" /\ UNCHANGED <<installers, quitSoon, update>>
     \/ watchdog' = "thrown" /\ update' = "error" /\ UNCHANGED <<handed, installers, quitSoon>>
  /\ UNCHANGED <<lifecycleVars, installing, feed, downloaded, app, checks, clicks>>

QuitForUpdate ==
  /\ Turn /\ quitSoon /\ quitSoon' = FALSE
  /\ IF app = "running" THEN BeforeQuit ELSE UNCHANGED <<lifecycleVars, watchdog, app>>
  /\ UNCHANGED <<update, installs, installing, feed, downloaded, handed, installers, checks,
                 clicks>>

(* The process lived on for ten seconds: the installer did not take over.  *)
WatchdogFires ==
  /\ Turn /\ watchdog = "armed"
  /\ watchdog' = "fired" /\ update' = "error"
  /\ UNCHANGED <<lifecycleVars, installs, installing, backendVars, app, checks,
                 clicks>>

(* will-quit and quit: a downloaded update is installed now, unless        *)
(* quitAndInstall has done so (autoInstallOnAppQuit).                      *)
Exit ==
  /\ Turn /\ app = "closing" /\ app' = "gone"
  /\ \/ downloaded /\ ~handed /\ installers' = installers + 1
     \/ UNCHANGED installers
  /\ UNCHANGED <<lifecycleVars, updaterVars, feed, downloaded, handed, quitSoon, checks,
                 clicks>>

QuitNext ==
  \/ AskToQuit \/ RecorderStops \/ Settled
  \/ Check \/ FeedEvent \/ Install \/ HandOver \/ QuitForUpdate \/ WatchdogFires
  \/ Exit

QuitSpec == QuitInit /\ [][QuitNext]_quitVars

(* Timers fire, continuations run and a quit that was let through goes on. *)
(* Nothing is assumed of OBS, of the update feed or of the user.           *)
QuitFairness ==
  /\ WF_quitVars(Settled) /\ WF_quitVars(HandOver) /\ WF_quitVars(QuitForUpdate)
  /\ WF_quitVars(WatchdogFires) /\ WF_quitVars(Exit)

QuitFairSpec == QuitSpec /\ QuitFairness

----------------------------------------------------------------------------
(* The application does not end, and no installer runs, before the one     *)
(* cleanup is over, whoever started it and whoever waits for it.           *)
NothingBeforeCleanup ==
  app # "running" \/ installers > 0 => phase = "finishing" /\ host # "up" /\ chains = 1

(* Clicks, a failed handover and the installation at exit together start   *)
(* at most one installer.                                                  *)
OneInstaller == installers <= 1

(* A cleanup that has begun ends the application, or the user is told that *)
(* the installer did not take over: OBS, a worker that cannot be stopped   *)
(* and an installer that does not start leave no application that is half  *)
(* stopped without a word.                                                 *)
CleanupEndsOrTells ==
  phase = "stopping" ~> (app = "gone" \/ watchdog \in {"fired", "thrown"})

=============================================================================
