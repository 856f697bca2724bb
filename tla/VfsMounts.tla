------------------------------ MODULE VfsMounts ------------------------------
(***************************************************************************)
(* The runtime of the mounts (vfs.service.ts): one syncer, one watcher and *)
(* one reconcile timer per mount, registered by start and by the creation  *)
(* of a mount, taken down by its removal and by close; and the status view *)
(* of the application shell (bun/index.ts, bun/vfs-status.ts), which the   *)
(* events of syncers and processors feed.                                  *)
(*                                                                         *)
(* The host is one event loop. What awaits a settled promise goes on       *)
(* before any callback, so an action runs until the code awaits a watcher  *)
(* (chokidar's ready, or its close) or a walk of the disk. The application *)
(* starts the service once, when the worker is up, and closes it once, at  *)
(* quit; requests of the window are served in between and before.          *)
(* Abstracted: the rows of a mount are whether one is queued, and a change *)
(* of its files is one; names, counters, pages.                            *)
(***************************************************************************)
EXTENDS Naturals, Sequences, SequencesExt

CONSTANTS NumMounts,  \* mounts, by mount_id
          MaxFaults,  \* bound: watchers and walks that reject
          MaxEdits    \* bound: changes of the mounts' files

ASSUME MountsAssumption == NumMounts \in Nat /\ MaxFaults \in Nat /\ MaxEdits \in Nat

Mounts == 1..NumMounts
Kinds == {"first", "reconcile"}

VARIABLES
  boot,    \* startBackgroundServices: "worker" awaits it, "mounts", "done"
  quit,    \* shutdown: "no", "worker" awaits its end, "closing", "closed"
  started, \* the service's flag
  row,     \* row[m]: the mount's node and its config: "none", "live", "gone"
  todo,    \* start's snapshot, from the mount it awaits
  opening, \* mounts whose creation awaits their watcher
  syncers, \* the map syncers, in insertion order
  watch,   \* watch[m]: the registered syncer's: "off", "opening", "on", "closing"
  loose,   \* mounts with a watcher, open or to be, no registered syncer holds
  timers,  \* reconcileTimers
  syncing, \* syncing[m]: full syncs in progress, "first" and "reconcile"
  queued,  \* mounts with a row in vfs_node_events
  removing,\* mounts whose removal awaits stopSyncer
  closing, \* the syncers close has still to stop
  shown,   \* vfsMountStatus: "absent", "idle" or "metadata"
  torn,    \* history: mounts stopped while start or their creation had them
  calm,    \* history: no start and no creation overlapped the close
  faults, edits

life  == <<boot, quit, started>>
ops   == <<todo, opening, removing, closing>>
rest  == <<torn, calm, faults, edits>>
vars  == <<boot, quit, started, row, todo, opening, syncers, watch, loose, timers, syncing,
           queued, removing, closing, shown, torn, calm, faults, edits>>

\* The view at the start of the application.
Hydrated == shown = [m \in Mounts |-> IF row[m] = "live" THEN "idle" ELSE "absent"]

Init == /\ boot = "worker" /\ quit = "no" /\ started = FALSE
        /\ row \in [Mounts -> {"none", "live"}]
        /\ todo = <<>> /\ opening = {} /\ removing = {} /\ closing = <<>>
        /\ syncers = <<>> /\ watch = [m \in Mounts |-> "off"] /\ loose = {}
        /\ timers = {} /\ syncing = [m \in Mounts |-> {}]
        /\ queued \in SUBSET {m \in Mounts : row[m] = "live"}  \* of an earlier run
        /\ Hydrated
        /\ torn = {} /\ calm = TRUE /\ faults = 0 /\ edits = 0

-----------------------------------------------------------------------------
\* The mounts of ids that are in a set, in their order.
Keeping(ids, set) ==
  LET kept[i \in 0..Len(ids)] ==
        IF i = 0 THEN <<>>
        ELSE IF ids[i] \in set THEN Append(kept[i - 1], ids[i]) ELSE kept[i - 1]
  IN  kept[Len(ids)]

Registered(m) == m \in ToSet(syncers)
Live(m) == row[m] = "live"

\* Wrong variants, here and below: each shows that a property can fail.
ShownUntilRemoved(m, phase) ==
  IF shown[m] # "absent" /\ phase # "idle" THEN [shown EXCEPT ![m] = phase] ELSE shown

\* updateVfsMountStatus, of a mount the view has.
Shown(m, phase) == IF shown[m] # "absent" THEN [shown EXCEPT ![m] = phase] ELSE shown

\* The shell hears events of syncers and processors until shutdown.
Told(m, phase) == shown' = IF quit = "no" THEN Shown(m, phase) ELSE shown

\* scheduleReconcile, after the await and with no look at the mount's config.
Scheduled(m) == IF started THEN timers \cup {m} ELSE timers \ {m}

\* ensureSyncer and startWatching up to its await, from ms on: the mounts
\* of a start are taken one by one.
Opened(ms) == IF ms = <<>> THEN <<syncers, watch>>
              ELSE <<Append(syncers, Head(ms)), [watch EXCEPT ![Head(ms)] = "opening"]>>

-----------------------------------------------------------------------------
(* Start, creation and the watcher's answer.                               *)

\* listNodeMountExts, in the order of mount_id.
Configured == Keeping([m \in Mounts |-> m], {m \in Mounts : Live(m)})

\* startBackgroundServices calls start, when the worker answers or fails;
\* with the database closed it throws at once.
Start ==
  /\ boot = "worker"
  /\ started' = TRUE
  /\ LET ms == IF quit = "closed" THEN <<>> ELSE Configured
         o  == Opened(ms)
     IN  /\ todo' = ms
         /\ boot' = IF ms = <<>> THEN "done" ELSE "mounts"
         /\ syncers' = o[1] /\ watch' = o[2]
  /\ calm' = (calm /\ quit \notin {"closing", "closed"})
  /\ UNCHANGED <<quit, row, opening, loose, timers, syncing, queued, removing, closing,
                 shown, torn, faults, edits>>

\* applyMountNodeChange: mounts ms come into the view, or leave it.
Changed(ms, phase) == [m \in Mounts |-> IF m \in ms THEN phase ELSE shown[m]]

\* The shell hears of changed nodes, too, until shutdown.
NodesChanged(ms, phase) == shown' = IF quit = "no" THEN Changed(ms, phase) ELSE shown

\* The mount's node has its config.
Stored(m) == row' = [row EXCEPT ![m] = "live"]

\* createMountNode: the node, its config, and, once started, its syncer.
Added(m) ==
  /\ Stored(m)
  /\ NodesChanged({m}, "idle")
  /\ IF started
     THEN LET o == Opened(<<m>>)
          IN  syncers' = o[1] /\ watch' = o[2] /\ opening' = opening \cup {m}
     ELSE UNCHANGED <<syncers, watch, opening>>

\* mountLocalDirectory, for a directory of the user's choice.
Create(m) ==
  /\ row[m] = "none" /\ quit # "closed"
  /\ Added(m)
  /\ calm' = (calm /\ quit # "closing")
  /\ UNCHANGED <<life, todo, loose, timers, syncing, queued, removing, closing,
                 torn, faults, edits>>

AwaitsWatcher(m) == m \in opening \/ (boot = "mounts" /\ Head(todo) = m)

\* start goes on with the next mount of its snapshot.
Continue(m) ==
  IF m \in opening THEN UNCHANGED <<boot, todo, syncers>> /\ opening' = opening \ {m}
  ELSE /\ todo' = Tail(todo)
       /\ boot' = IF Tail(todo) = <<>> THEN "done" ELSE "mounts"
       /\ syncers' = IF Tail(todo) = <<>> \/ Registered(todo[2]) THEN syncers
                     ELSE Append(syncers, todo[2])
       /\ UNCHANGED opening

NextOpens(m, w) == IF m \in opening \/ Tail(todo) = <<>> THEN w
                   ELSE [w EXCEPT ![todo[2]] = "opening"]

\* The watcher is ready: the first full sync begins and the timer is set. A
\* syncer that was dropped meanwhile does all the same, unheard.
WatchReady(m) ==
  /\ AwaitsWatcher(m)
  /\ IF watch[m] = "opening"
     THEN /\ watch' = NextOpens(m, [watch EXCEPT ![m] = "on"])
          /\ syncing' = [syncing EXCEPT ![m] = @ \cup {"first"}]
          /\ Told(m, "metadata")
     ELSE /\ watch' = NextOpens(m, watch)
          /\ UNCHANGED <<syncing, shown>>
  /\ timers' = Scheduled(m)
  /\ Continue(m)
  /\ UNCHANGED <<quit, started, row, loose, queued, removing, closing, rest>>

WatchFailsAbortingStart(m) ==
  /\ AwaitsWatcher(m) /\ faults < MaxFaults
  /\ faults' = faults + 1
  /\ watch' = IF watch[m] = "opening" THEN [watch EXCEPT ![m] = "off"] ELSE watch
  /\ loose' = loose \ {m}
  /\ IF m \in opening THEN opening' = opening \ {m} /\ UNCHANGED <<boot, todo>>
     ELSE boot' = "done" /\ todo' = <<>> /\ UNCHANGED opening
  /\ UNCHANGED <<quit, started, row, syncers, timers, syncing, queued, removing, closing, shown,
                 torn, calm, edits>>

\* The provider's watch rejects; start and creation swallow it.
WatchFails(m) ==
  /\ AwaitsWatcher(m) /\ faults < MaxFaults
  /\ faults' = faults + 1
  /\ watch' = NextOpens(m, IF watch[m] = "opening" THEN [watch EXCEPT ![m] = "off"] ELSE watch)
  /\ loose' = loose \ {m}
  /\ timers' = Scheduled(m)
  /\ Continue(m)
  /\ UNCHANGED <<quit, started, row, syncing, queued, removing, closing, shown, torn,
                 calm, edits>>

-----------------------------------------------------------------------------
(* What runs while a mount is up.                                          *)

Reports(m) == watch[m] = "on" \/ (m \in loose /\ ~AwaitsWatcher(m))

\* A watcher reports a change: status on, a row, status off again.
WatchEvent(m) ==
  /\ edits < MaxEdits
  /\ edits' = edits + 1
  /\ Reports(m) /\ quit # "closed"
  /\ queued' = queued \cup {m}
  /\ IF watch[m] = "on" THEN Told(m, "idle") ELSE UNCHANGED shown
  /\ UNCHANGED <<life, ops, row, syncers, watch, loose, timers, syncing, torn, calm, faults>>

\* runReconcile, for each tick of the timer. Without a syncer one is made
\* from the config, unwatched.
Tick(m) ==
  /\ m \in timers /\ quit # "closed"
  /\ "reconcile" \notin syncing[m]
  /\ Registered(m) \/ Live(m)
  /\ syncers' = IF Registered(m) THEN syncers ELSE Append(syncers, m)
  /\ syncing' = [syncing EXCEPT ![m] = @ \cup {"reconcile"}]
  /\ Told(m, "metadata")
  /\ UNCHANGED <<life, ops, row, watch, loose, timers, queued, rest>>

\* fullSync inserts what differs and reports that it is idle.
SyncEnds(m, kind) ==
  /\ kind \in syncing[m] /\ quit # "closed"
  /\ syncing' = [syncing EXCEPT ![m] = @ \ {kind}]
  /\ \/ UNCHANGED <<queued, edits>>
     \/ edits < MaxEdits /\ edits' = edits + 1 /\ queued' = queued \cup {m}
  /\ Told(m, "idle")
  /\ UNCHANGED <<life, ops, row, syncers, watch, loose, timers, torn, calm, faults>>

\* The walk rejects: nothing is reported, reconcileRunning is cleared.
SyncFails(m, kind) ==
  /\ kind \in syncing[m] /\ faults < MaxFaults
  /\ faults' = faults + 1
  /\ syncing' = [syncing EXCEPT ![m] = @ \ {kind}]
  /\ UNCHANGED <<life, ops, row, syncers, watch, loose, timers, queued, shown, torn, calm,
                 edits>>

ProcessorsRun == started /\ quit # "closed"

\* A processor serves the row, or drops it when the mount is unknown.
Serve(m) ==
  /\ m \in queued /\ ProcessorsRun
  /\ queued' = queued \ {m}
  /\ IF Registered(m) \/ Live(m) THEN Told(m, "metadata") ELSE UNCHANGED shown
  /\ UNCHANGED <<life, ops, row, syncers, watch, loose, timers, syncing, rest>>

-----------------------------------------------------------------------------
(* Removal and close. stopSyncer awaits the watcher only if it is on, and  *)
(* then drops the syncer; a full sync in progress is no longer heard.      *)

Awaits(m) == watch[m] \in {"on", "closing"}

DroppedKeepingWatch(ms, w) ==
  /\ syncers' = Keeping(syncers, Mounts \ ms)
  /\ watch' = w
  /\ loose' = loose \cup {m \in ms : watch[m] = "opening"}
  /\ syncing' = [m \in Mounts |-> IF m \in ms THEN {} ELSE syncing[m]]
  /\ torn' = torn \cup {m \in ms : AwaitsWatcher(m) \/ m \in ToSet(todo)}

\* The syncers of ms are dropped, w is the watchers then.
Dropped(ms, w) ==
  /\ syncers' = Keeping(syncers, Mounts \ ms)
  /\ watch' = [m \in Mounts |-> IF m \in ms THEN "off" ELSE w[m]]
  /\ loose' = loose \cup {m \in ms : watch[m] = "opening"}
  /\ syncing' = [m \in Mounts |-> IF m \in ms THEN {} ELSE syncing[m]]
  /\ torn' = torn \cup {m \in ms : AwaitsWatcher(m) \/ m \in ToSet(todo)}

\* The end of a removal: node and config are gone, the view is told.
Removed(ms) ==
  /\ row' = [m \in Mounts |-> IF m \in ms THEN "gone" ELSE row[m]]
  /\ NodesChanged(ms, "absent")

RemoveKeepingTimer(m) ==
  /\ Live(m) /\ m \notin removing /\ quit # "closed"
  /\ IF Awaits(m)
     THEN /\ removing' = removing \cup {m}
          /\ watch' = [watch EXCEPT ![m] = "closing"]
          /\ UNCHANGED <<row, shown, torn, syncers, loose, syncing>>
     ELSE Dropped({m}, watch) /\ Removed({m}) /\ UNCHANGED removing
  /\ UNCHANGED <<life, todo, opening, closing, timers, queued, calm, faults, edits>>

\* delete of a mount, up to the await of its watcher or to the end.
RemoveMount(m) ==
  /\ Live(m) /\ m \notin removing /\ quit # "closed"
  /\ timers' = timers \ {m}
  /\ IF Awaits(m)
     THEN /\ removing' = removing \cup {m}
          /\ watch' = [watch EXCEPT ![m] = "closing"]
          /\ UNCHANGED <<row, shown, torn, syncers, loose, syncing>>
     ELSE Dropped({m}, watch) /\ Removed({m}) /\ UNCHANGED removing
  /\ UNCHANGED <<life, todo, opening, closing, queued, calm, faults, edits>>

\* shutdown: the shell stops listening and ends the worker.
Quit == /\ quit = "no"
        /\ quit' = "worker"
        /\ UNCHANGED <<boot, started, row, ops, syncers, watch, loose, timers, syncing, queued,
                       shown, rest>>

\* Of the syncers ids, close drops those before the first it awaits.
Stopped(ids) == LET i == SelectInSeq(ids, Awaits)
                IN  IF i = 0 THEN ids ELSE SubSeq(ids, 1, i - 1)
Waiting(ids) == SubSeq(ids, Len(Stopped(ids)) + 1, Len(ids))

CloseAfterFirst(ids, dropped, w) ==
  /\ Dropped(dropped \cup ToSet(Stopped(ids)),
             IF dropped # {} \/ Waiting(ids) = <<>> THEN w
             ELSE [w EXCEPT ![Head(Waiting(ids))] = "closing"])
  /\ IF dropped # {} \/ Waiting(ids) = <<>>
     THEN quit' = "closed" /\ started' = FALSE /\ closing' = <<>>
     ELSE quit' = "closing" /\ closing' = Waiting(ids) /\ UNCHANGED started

CloseFrom(ids, dropped, w) ==
  /\ Dropped(dropped \cup ToSet(Stopped(ids)),
             IF Waiting(ids) = <<>> THEN w ELSE [w EXCEPT ![Head(Waiting(ids))] = "closing"])
  /\ closing' = Waiting(ids)
  /\ IF Waiting(ids) = <<>> THEN quit' = "closed" /\ started' = FALSE
                            ELSE quit' = "closing" /\ UNCHANGED started

\* app.close, once the worker has ended.
Close == /\ quit = "worker"
         /\ timers' = {}
         /\ CloseFrom(syncers, {}, watch)
         /\ calm' = (boot = "done" /\ opening = {})
         /\ UNCHANGED <<boot, row, todo, opening, removing, queued, shown, faults, edits>>

\* A watcher has closed; its removal, close or both go on.
WatchClosed(m) ==
  /\ watch[m] = "closing"
  /\ IF m \in removing THEN Removed({m}) /\ removing' = removing \ {m}
                       ELSE UNCHANGED <<row, shown, removing>>
  /\ IF quit = "closing" /\ Head(closing) = m
     THEN CloseFrom(Tail(closing), {m}, watch)
     ELSE Dropped({m}, watch) /\ UNCHANGED <<quit, started, closing>>
  /\ UNCHANGED <<boot, todo, opening, timers, queued, calm, faults, edits>>

-----------------------------------------------------------------------------
Next == \/ Start \/ Quit \/ Close
        \/ \E m \in Mounts :
             \/ Create(m) \/ WatchReady(m) \/ WatchFails(m) \/ WatchEvent(m) \/ Tick(m) \/ Serve(m)
             \/ RemoveMount(m) \/ WatchClosed(m)
             \/ \E kind \in Kinds : SyncEnds(m, kind) \/ SyncFails(m, kind)

(* chokidar answers, walks end and timers fire. Changes on disk, the user  *)
(* and the worker owe nothing.                                             *)
Fairness == \A m \in Mounts :
              /\ WF_vars(WatchReady(m)) /\ WF_vars(WatchClosed(m))
              /\ WF_vars(Tick(m)) /\ WF_vars(\E kind \in Kinds : SyncEnds(m, kind))

Spec == Init /\ [][Next]_vars /\ Fairness

-----------------------------------------------------------------------------
\* Types, and what belongs together: a closing watcher has a syncer.
TypeOK ==
  /\ boot \in {"worker", "mounts", "done"} /\ started \in BOOLEAN
  /\ quit \in {"no", "worker", "closing", "closed"}
  /\ row \in [Mounts -> {"none", "live", "gone"}]
  /\ todo \in Seq(Mounts) /\ closing \in Seq(Mounts)
  /\ syncers \in Seq(Mounts) /\ IsInjective(syncers)
  /\ watch \in [Mounts -> {"off", "opening", "on", "closing"}]
  /\ \A m \in Mounts : watch[m] # "off" => Registered(m)
  /\ opening \subseteq Mounts /\ loose \subseteq Mounts /\ timers \subseteq Mounts
  /\ syncing \in [Mounts -> SUBSET Kinds]
  /\ queued \subseteq Mounts /\ removing \subseteq Mounts
  /\ shown \in [Mounts -> {"absent", "idle", "metadata"}]
  /\ torn \subseteq Mounts /\ calm \in BOOLEAN /\ faults \in 0..MaxFaults /\ edits \in 0..MaxEdits

(* A removed mount has no syncer, no timer, no watcher and no place in the *)
(* view, whatever ran when it was removed (vfs.service.ts delete), unless  *)
(* start or its creation was not done with it: those go on with what they  *)
(* hold, and bring it back up.                                             *)
GoneIsDown ==
  \A m \in Mounts : row[m] = "gone" /\ m \notin torn =>
    ~Registered(m) /\ m \notin timers /\ m \notin loose /\ watch[m] = "off"
    /\ (quit = "no" => shown[m] = "absent")

(* A closed service keeps nothing running (vfs.service.ts close), unless   *)
(* start or a creation ran beside the close: what they register after it   *)
(* took its list is not stopped, and no timer set then is cleared.         *)
CloseIsClean ==
  quit = "closed" /\ calm => ~started /\ syncers = <<>> /\ timers = {} /\ loose \subseteq torn

(* Every mount of a started service gets its watcher and its timer: one    *)
(* that fails, or is removed, does not keep start from the mounts after it *)
(* (vfs.service.ts start, createMountNode).                                *)
MountsAreServed ==
  \A m \in Mounts : (started /\ Live(m))
    ~> \/ m \in timers /\ (watch[m] = "on" \/ faults > 0)
       \/ m \in removing \/ ~Live(m) \/ quit # "no"

(* A mount shown as syncing does not stay so: full syncs that reject and   *)
(* rows served after the last idle both leave the phase at metadata, and   *)
(* only the next full sync ends it (bun/vfs-status.ts applyVfsSyncerEvent, *)
(* vfs.service.ts runReconcile).                                           *)
StatusSettles ==
  \A m \in Mounts : shown[m] = "metadata" ~> shown[m] # "metadata" \/ quit # "no"
=============================================================================
