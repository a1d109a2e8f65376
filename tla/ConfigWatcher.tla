---------------------------- MODULE ConfigWatcher ----------------------------
(***************************************************************************)
(* The configuration watcher (internal/eval_hub/config/watcher.go) and the *)
(* shutdown of main that depends on it: the goroutine of Watch, the        *)
(* debounce timer, the reload goroutines its callbacks run in, and the     *)
(* files that change under them.                                           *)
(*                                                                         *)
(* The content of a directory is abstracted to its version.  The reload    *)
(* goroutines are alike, so those that wait for reloadMu are counted and   *)
(* the one that holds it is described by reload, read and readErr.         *)
(*                                                                         *)
(* As in JobRows, some definitions are mutants of the one they precede:    *)
(* SkipWhileReloading of Debounce, WaitForNothing of ReloadsEnded,         *)
(* RetryUntilLoaded and LeakTicketOnError of EndReload.                    *)
(***************************************************************************)
EXTENDS Naturals

CONSTANT MaxChanges    \* bound on the changes of each directory

ASSUME ChangesAssumption == MaxChanges \in Nat

Dirs == {"providers", "collections"}

VARIABLES
    disk,      \* directory -> version of the files in it
    loaded,    \* directory -> version the system resources in storage come from
    watched,   \* directories fsnotify watches
    events,    \* relevant events not yet received from watcher.Events
    watch,     \* Watch: "setup", "select", "unwatched", "waiting", "returned"
    timer,     \* the last debounce timer: "none", "pending", "fired", "stopped"
    tickets,   \* the counter of reloadWg
    waiting,   \* reload goroutines that wait for reloadMu
    reload,    \* the one that holds it: "none" or its next step
    read,      \* what it has read: directory -> version
    readErr,   \* reading one of the directories failed
    main,      \* "serving", "stopping" (watcherCancel was called), "closed"
    failed,    \* history: the last reload to end logged an error
    unseen     \* history: files changed without an event since the last reload

watchVars  == <<watched, events, watch, timer>>
reloadVars == <<waiting, reload, read, readErr, loaded, failed>>
watcherVars == <<disk, watchVars, tickets, reloadVars, main, unseen>>

-----------------------------------------------------------------------------
(* The environment                                                         *)

\* An edit, or a ConfigMap update swapped in by the kubelet; it may raise
\* several events.  Without a watch on the directory nobody is told.
Change(d) ==
    /\ disk[d] < MaxChanges
    /\ disk' = [disk EXCEPT ![d] = @ + 1]
    /\ IF d \in watched
       THEN events' \in {events + 1, events + 2} /\ UNCHANGED unseen
       ELSE unseen' = TRUE /\ UNCHANGED events
    /\ UNCHANGED <<watched, watch, timer, tickets, reloadVars, main>>

\* SIGINT or SIGTERM: main cancels the watcher's context and waits for it.
Signal ==
    /\ main = "serving"
    /\ main' = "stopping"
    /\ UNCHANGED <<disk, watchVars, tickets, reloadVars, unseen>>

\* <-watcherDone, then the runtime and the storage are closed.
CloseStorage ==
    /\ main = "stopping" /\ watch = "returned"
    /\ main' = "closed"
    /\ UNCHANGED <<disk, watchVars, tickets, reloadVars, unseen>>

-----------------------------------------------------------------------------
(* Watch                                                                   *)

\* Each directory is added if it exists and fsnotify takes it, and so is their
\* parent, which alone tells nothing of the files; without any of the three
\* Watch only waits for its context, and without fsnotify it returns.
Setup ==
    /\ watch = "setup"
    /\ \/ watch' = "returned" /\ UNCHANGED watched
       \/ watch' = "unwatched" /\ UNCHANGED watched
       \/ watch' = "select" /\ watched' \in SUBSET Dirs
    /\ UNCHANGED <<disk, events, timer, tickets, reloadVars, main, unseen>>

\* Stop() on the previous timer: its ticket is released if and only if the
\* timer was still pending, otherwise its callback releases it.
ReleaseTicket == IF timer = "pending" THEN tickets - 1 ELSE tickets

SkipWhileReloading ==
    IF reload = "none" THEN timer' = "pending" /\ tickets' = ReleaseTicket + 1
    ELSE UNCHANGED <<timer, tickets>>
Debounce == timer' = "pending" /\ tickets' = ReleaseTicket + 1

ReceiveEvent ==
    /\ watch = "select" /\ events > 0
    /\ events' = events - 1
    /\ Debounce
    /\ UNCHANGED <<disk, watched, watch, reloadVars, main, unseen>>

\* ctx.Done: a pending timer is stopped and keeps its ticket.
StopWatching ==
    /\ watch = "select" /\ main # "serving"
    /\ watch' = "waiting"
    /\ timer' = IF timer = "pending" THEN "stopped" ELSE timer
    /\ UNCHANGED <<disk, watched, events, tickets, reloadVars, main, unseen>>

\* reloadWg.Wait()
WaitForNothing == TRUE
ReloadsEnded   == tickets = 0

\* Watch returns and fsnotify is closed.
ReturnFromWatch ==
    /\ \/ watch = "waiting" /\ ReloadsEnded
       \/ watch = "unwatched" /\ main # "serving"
    /\ watch' = "returned" /\ watched' = {}
    /\ UNCHANGED <<disk, events, timer, tickets, reloadVars, main, unseen>>

-----------------------------------------------------------------------------
(* Reloads: the callbacks of time.AfterFunc                                *)

TimerFires ==
    /\ timer = "pending"
    /\ timer' = "fired" /\ waiting' = waiting + 1
    /\ UNCHANGED <<disk, watched, events, watch, tickets, reload, read, readErr,
                   loaded, failed, main, unseen>>

LockReload ==
    /\ waiting > 0 /\ reload = "none"
    /\ waiting' = waiting - 1
    /\ reload' = "providers" /\ readErr' = FALSE /\ unseen' = FALSE
    /\ UNCHANGED <<disk, watchVars, tickets, read, loaded, failed, main>>

\* LoadProviderConfigs, then LoadCollectionConfigs whatever the first said.
ReadDir(d, next) ==
    /\ reload = d
    /\ reload' = next
    /\ \/ read' = [read EXCEPT ![d] = disk[d]] /\ UNCHANGED readErr
       \/ readErr' = TRUE /\ UNCHANGED read
    /\ UNCHANGED <<disk, watchVars, tickets, waiting, loaded, failed, main, unseen>>

\* The deferred calls: unlock reloadMu, release the ticket.
RetryUntilLoaded  == /\ reload'  = IF failed' THEN "load" ELSE "none"
                     /\ tickets' = IF failed' THEN tickets ELSE tickets - 1
LeakTicketOnError == /\ reload'  = "none"
                     /\ tickets' = IF failed' THEN tickets ELSE tickets - 1
EndReload         == reload' = "none" /\ tickets' = tickets - 1

\* storage.LoadSystemResources, which replaces all or nothing; it is not
\* called after a read error.
LoadIntoStorage ==
    /\ reload = "load"
    /\ \/ ~readErr /\ loaded' = read /\ failed' = FALSE
       \/ failed' = TRUE /\ UNCHANGED loaded
    /\ EndReload
    /\ UNCHANGED <<disk, watchVars, waiting, read, readErr, main, unseen>>

-----------------------------------------------------------------------------
\* main has loaded the files as they were when the service started.
WatcherInit ==
    /\ disk = [d \in Dirs |-> 0] /\ loaded = [d \in Dirs |-> 0]
    /\ watched = {} /\ events = 0 /\ watch = "setup" /\ timer = "none"
    /\ tickets = 0 /\ waiting = 0 /\ reload = "none"
    /\ read = [d \in Dirs |-> 0] /\ readErr = FALSE
    /\ main = "serving" /\ failed = FALSE /\ unseen = FALSE

WatchStep  == Setup \/ ReceiveEvent \/ StopWatching \/ ReturnFromWatch
ReloadStep == \/ LockReload
              \/ ReadDir("providers", "collections")
              \/ ReadDir("collections", "load")
              \/ LoadIntoStorage

WatcherNext == \/ \E d \in Dirs : Change(d)
        \/ Signal \/ CloseStorage
        \/ WatchStep \/ TimerFires \/ ReloadStep

\* Goroutines and timers run; nobody has to change files or stop the service.
Fairness == /\ WF_watcherVars(WatchStep) /\ WF_watcherVars(TimerFires)
            /\ WF_watcherVars(ReloadStep) /\ WF_watcherVars(CloseStorage)

WatcherSafetySpec == WatcherInit /\ [][WatcherNext]_watcherVars
WatcherSpec       == WatcherSafetySpec /\ Fairness

-----------------------------------------------------------------------------
(* Properties                                                              *)

TypeOK ==
    /\ disk \in [Dirs -> Nat] /\ loaded \in [Dirs -> Nat] /\ read \in [Dirs -> Nat]
    /\ watched \in SUBSET Dirs /\ events \in Nat
    /\ watch \in {"setup", "select", "unwatched", "waiting", "returned"}
    /\ timer \in {"none", "pending", "fired", "stopped"}
    /\ tickets \in Nat /\ waiting \in Nat
    /\ reload \in {"none", "providers", "collections", "load"}
    /\ readErr \in BOOLEAN /\ failed \in BOOLEAN /\ unseen \in BOOLEAN
    /\ main \in {"serving", "stopping", "closed"}

\* Nothing is left to be done about the changes so far.
Quiet == events = 0 /\ timer # "pending" /\ waiting = 0 /\ reload = "none"

\* The comment on reloadWg: once Watch has returned the storage can be closed,
\* no reload is running and none will start.
NoReloadAfterClose ==
    main = "closed" => timer # "pending" /\ waiting = 0 /\ reload = "none"

\* Debouncing loses no change: when everything has settled, storage holds what
\* is on disk, also for a file that changed between the two reads of a reload
\* or while another reload was waiting, unless the last reload failed or the
\* change raised no event.
QuietMeansLoaded ==
    watch = "select" /\ Quiet => loaded = disk \/ failed \/ unseen

\* Every event is followed by a reload that ends, unless the service is being
\* stopped: neither reloadMu nor the timers get stuck.
ChangesSettle == (watch = "select" /\ events > 0) ~> (Quiet \/ main # "serving")

\* The service stops after SIGTERM if no timer was pending when the context
\* was cancelled.
ShutdownEnds == (main = "stopping") ~> (main = "closed" \/ timer = "stopped")

\* TestWatcher_StopsOnContextCancel: Watch returns after its context is
\* cancelled, so main gets past <-watcherDone.
ShutdownAlwaysEnds == (main = "stopping") ~> (main = "closed")
=============================================================================
