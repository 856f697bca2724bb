------------------------------ MODULE VfsEvents ------------------------------
(***************************************************************************)
(* How a change on disk reaches the node tree and the indexer: the watcher *)
(* and full syncs (vfs.syncer.ts) write rows into vfs_node_events, and two *)
(* processors (vfs.node-event-processor.ts) drain them side by side, the   *)
(* metadata processor with add, update_metadata and delete, the content    *)
(* processor with update_content. Each row is applied to vfs_nodes, told   *)
(* to the indexing hooks, then removed. One local mount, as the            *)
(* application makes them: autoSync, no content download.                  *)
(*                                                                         *)
(* The host is one event loop; an action runs from one await to the next.  *)
(* The table is a sequence in the order of created_at, so that neither     *)
(* clock nor ids grow: instead of an id, a listed row remembers whether    *)
(* the table's row is still the one it was (UNIQUE(source_ref, type)).     *)
(* Abstracted: size, mtime and hash of a file are one version, read at     *)
(* once; names, folders and the status events. Assumed: the first full     *)
(* sync ends before the reconcile timer fires (ten minutes in the          *)
(* application), so that one sync runs at a time.                          *)
(***************************************************************************)
EXTENDS Naturals, Sequences, SequencesExt

CONSTANTS NumFiles,   \* files, by their source_ref's order
          MaxEdits,   \* bound: versions of one file
          BatchSize,  \* batchSize of the processors
          MaxFaults   \* bound: crashes, failing hooks, provider calls and requests

ASSUME EventsAssumption == /\ NumFiles \in Nat /\ MaxEdits \in Nat \ {0}
                           /\ BatchSize \in Nat \ {0} /\ MaxFaults \in Nat

Files == 1..NumFiles
Types == {"add", "delete", "update_content", "update_metadata"}
Procs == {"metadata", "content"}
TypesOf(p) == IF p = "content" THEN {"update_content"}
              ELSE {"add", "update_metadata", "delete"}

VARIABLES
  disk,    \* disk[f]: version on disk, 0 for none
  edits,   \* edits[f]: versions so far
  watchQ,  \* what the watcher has seen and not yet delivered
  up,      \* the service: "down", "starting" (no watcher yet) or "up"
  queue,   \* vfs_node_events
  node,    \* vfs_nodes: whether f has a row, and its version, 0 when deleted
  sync,    \* the full sync: what it read of the table and of the disk
  proc,    \* the two processors
  told,    \* told[f]: the last request to the indexer for f
  owed,    \* owed[f]: history, a content row of f was written and has not
           \* been applied since
  faults   \* failures so far

index == <<told, owed, faults>>
vars  == <<disk, edits, watchQ, up, queue, node, sync, proc, index>>

NodeRec == [row : BOOLEAN, ver : 0..MaxEdits]

\* A queued row; snap is node_json's version, 0 for NULL; young: written
\* since the running full sync began.
Row == [f : Files, t : Types, snap : 0..MaxEdits, young : BOOLEAN]

\* A listed row; same: the table still holds this very row.
Listed == [f : Files, t : Types, snap : 0..MaxEdits, same : BOOLEAN]

Quiet  == [f \in Files |-> 0]
NoSync == [on |-> FALSE, existing |-> [f \in Files |-> [row |-> FALSE, ver |-> 0]],
           unread |-> {}, seen |-> Quiet, vanished |-> FALSE]
OffProc == [state |-> "off", batch |-> <<>>, phase |-> "next",
            prev |-> [row |-> FALSE, ver |-> 0], got |-> 0]

Init == /\ disk \in [Files -> 0..1]
        /\ edits = disk
        /\ watchQ = <<>>
        /\ up = "down"
        /\ queue = <<>>
        /\ node = [f \in Files |-> [row |-> FALSE, ver |-> 0]]
        /\ sync = NoSync
        /\ proc = [p \in Procs |-> OffProc]
        /\ told = [f \in Files |-> "none"]
        /\ owed = [f \in Files |-> FALSE]
        /\ faults = 0

-----------------------------------------------------------------------------
(* The table of events.                                                    *)

HasRow(f, t) == \E i \in DOMAIN queue : queue[i].f = f /\ queue[i].t = t

\* The rows of a table that are in a set, in the table's order.
Where(rows, set) ==
  LET kept[i \in 0..Len(rows)] ==
        IF i = 0 THEN <<>>
        ELSE IF rows[i] \in set THEN Append(kept[i - 1], rows[i]) ELSE kept[i - 1]
  IN  kept[Len(rows)]

Mine(p) == Where(queue, {r \in Row : r.t \in TypesOf(p)})

NewRow(f, t, snap) == [f |-> f, t |-> t, snap |-> snap, young |-> sync.on]

\* appendNodeEventsFromDiff, in the order the rows are listed.
DiffRows(f, kind, snap) ==
  CASE kind = "delete" -> <<NewRow(f, "delete", 0)>>
    [] kind = "add"    -> <<NewRow(f, "add", snap), NewRow(f, "update_content", snap),
                            NewRow(f, "update_metadata", snap)>>
    [] kind = "update" -> <<NewRow(f, "update_content", snap),
                            NewRow(f, "update_metadata", snap)>>

SameKey(r, s) == r.f = s.f /\ r.t = s.t
Replaced(r, rows) == \E i \in DOMAIN rows : SameKey(r, rows[i])

\* trigger(true) of a processor: nothing while it runs or is closed.
Woken(state) == IF state \in {"idle", "blocked"} THEN "run" ELSE state

Aged(q) == [i \in DOMAIN q |-> [q[i] EXCEPT !.young = FALSE]]

\* A listed row after an upsert: a row of its key is another row.
Checked(l, rows) == [l EXCEPT !.same = @ /\ ~Replaced(l, rows)]

(* insertNodeEvents: an upsert on (source_ref, type) with a new id and     *)
(* created_at; the listeners wake both processors.                         *)
Insert(rows, before, after) ==
  LET kept(q) == Where(q, {r \in Row : ~Replaced(r, rows)})
  IN  /\ queue' = kept(before) \o rows \o kept(after)
      /\ proc' = [p \in Procs |->
                    [proc[p] EXCEPT
                       !.batch = [i \in DOMAIN @ |-> Checked(@[i], rows)],
                       !.state = IF rows # <<>> THEN Woken(@) ELSE @]]
      /\ owed' = [f \in Files |-> owed[f] \/ \E i \in DOMAIN rows :
                                     rows[i].f = f /\ rows[i].t = "update_content"]

-----------------------------------------------------------------------------
(* The file system and its watcher; a watcher reports changes in order.    *)

Report(f, kind) == watchQ' = IF up = "up" THEN Append(watchQ, [f |-> f, kind |-> kind])
                                          ELSE watchQ

Write(f) == /\ edits[f] < MaxEdits
            /\ edits' = [edits EXCEPT ![f] = @ + 1]
            /\ disk' = [disk EXCEPT ![f] = edits[f] + 1]
            /\ Report(f, IF disk[f] = 0 THEN "add" ELSE "update")
            /\ UNCHANGED <<up, queue, node, sync, proc, index>>

Unlink(f) == /\ disk[f] # 0
             /\ disk' = [disk EXCEPT ![f] = 0]
             /\ Report(f, "delete")
             /\ sync' = [sync EXCEPT !.vanished = @ \/ f \in sync.unread]
             /\ UNCHANGED <<edits, up, queue, node, proc, index>>

\* handleWatchEvent: rows without a snapshot.
WatchEvent == /\ watchQ # <<>>
              /\ watchQ' = Tail(watchQ)
              /\ Insert(DiffRows(Head(watchQ).f, Head(watchQ).kind, 0), queue, <<>>)
              /\ UNCHANGED <<disk, edits, up, node, sync, told, faults>>

-----------------------------------------------------------------------------
(* The life of the service, and full syncs.                                *)

Start == /\ up = "down"
         /\ up' = "starting"
         /\ proc' = [p \in Procs |-> [OffProc EXCEPT !.state = "run"]]
         /\ UNCHANGED <<disk, edits, watchQ, queue, node, sync, index>>

\* The host ends, however; SQLite keeps the rows.
Crash == /\ up # "down" /\ faults < MaxFaults
         /\ up' = "down"
         /\ faults' = faults + 1
         /\ proc' = [p \in Procs |-> OffProc]
         /\ sync' = NoSync
         /\ watchQ' = <<>>
         /\ queue' = Aged(queue)
         /\ UNCHANGED <<disk, edits, node, told, owed>>

BeginSync == /\ sync' = [on |-> TRUE, existing |-> node, unread |-> Files, seen |-> Quiet,
                         vanished |-> FALSE]
             /\ queue' = Aged(queue)

\* startSyncer: the watcher is ready, the first full sync begins.
WatchReady == /\ up = "starting"
              /\ up' = "up"
              /\ BeginSync
              /\ UNCHANGED <<disk, edits, watchQ, node, proc, index>>

\* The reconcile timer. reconcileRunning keeps two of its own syncs apart;
\* the first one is not in it, and is taken to end within an interval.
Reconcile == /\ up = "up" /\ ~sync.on
             /\ BeginSync
             /\ UNCHANGED <<disk, edits, watchQ, up, node, proc, index>>

\* The walk's metadata of a file: its version, if the file is there.
Stat(f) == disk[f]

SyncRead(f) == /\ sync.on /\ f \in sync.unread
               /\ sync' = [sync EXCEPT !.unread = @ \ {f}, !.seen[f] = Stat(f)]
               /\ UNCHANGED <<disk, edits, watchQ, up, queue, node, proc, index>>

\* A listed file was gone when it was read: the walk rejects.
SyncFails == /\ sync.on /\ sync.vanished
             /\ sync' = NoSync
             /\ queue' = Aged(queue)
             /\ UNCHANGED <<disk, edits, watchQ, up, node, proc, index>>

SyncDiffKeepingGone(f) ==
  IF sync.seen[f] # 0 /\ sync.existing[f].ver # sync.seen[f]
  THEN DiffRows(f, IF sync.existing[f].row THEN "update" ELSE "add", sync.seen[f]) ELSE <<>>

\* What the walk saw against what the table held before it.
SyncDiff(f) ==
  LET old == sync.existing[f]
  IN  IF sync.seen[f] = 0
      THEN IF old.ver # 0 THEN DiffRows(f, "delete", 0) ELSE <<>>
      ELSE IF ~old.row THEN DiffRows(f, "add", sync.seen[f])
           ELSE IF old.ver # sync.seen[f] THEN DiffRows(f, "update", sync.seen[f])
           ELSE <<>>

\* Its rows carry the time it began, so they go before all younger ones.
SyncEnds ==
  /\ sync.on /\ sync.unread = {}
  /\ sync' = NoSync
  /\ LET rows == FlattenSeq([f \in Files |-> SyncDiff(f)])
     IN  Insert(Aged(rows), Where(queue, {r \in Row : ~r.young}),
                            Aged(Where(queue, {r \in Row : r.young})))
  /\ UNCHANGED <<disk, edits, watchQ, up, node, told, faults>>

-----------------------------------------------------------------------------
(* A processor. Its run flag is state = "run"; "idle" and "blocked" wait   *)
(* for a change of the table or for the slow scan.                         *)

Busy(p, phase) == proc[p].state = "run" /\ proc[p].batch # <<>> /\ proc[p].phase = phase
Current(p) == Head(proc[p].batch)
Set(p, rec) == proc' = [proc EXCEPT ![p] = rec]

\* drainNodeEvents lists a batch, or run ends when nothing is left.
List(p) ==
  /\ proc[p].state = "run" /\ proc[p].batch = <<>>
  /\ Set(p, IF Mine(p) = <<>>
            THEN [OffProc EXCEPT !.state = "idle"]
            ELSE LET n == IF Len(Mine(p)) < BatchSize THEN Len(Mine(p)) ELSE BatchSize
                 IN  [proc[p] EXCEPT !.batch =
                        [i \in 1..n |-> [f |-> Mine(p)[i].f, t |-> Mine(p)[i].t,
                                         snap |-> Mine(p)[i].snap, same |-> TRUE]]])
  /\ UNCHANGED <<disk, edits, watchQ, up, queue, node, sync, index>>

ScanOnlyEmpty(p) == /\ proc[p].state = "blocked" /\ Mine(p) = <<>>
                    /\ Set(p, [proc[p] EXCEPT !.state = "run"])
                    /\ UNCHANGED <<disk, edits, watchQ, up, queue, node, sync, index>>

ScanPausing(p) == /\ proc[p].state = "blocked"
                  /\ Set(p, [proc[p] EXCEPT !.state = "paused"])
                  /\ UNCHANGED <<disk, edits, watchQ, up, queue, node, sync, index>>

\* The slow scan of scheduleSlowScan; one that finds no row is left out.
Scan(p) == /\ proc[p].state = "blocked"
           /\ Set(p, [proc[p] EXCEPT !.state = "run"])
           /\ UNCHANGED <<disk, edits, watchQ, up, queue, node, sync, index>>

\* A before hook throws: the drain stops, every row stays.
BeforeHookFails(p) == /\ Busy(p, "next") /\ faults < MaxFaults
                      /\ faults' = faults + 1
                      /\ Set(p, [OffProc EXCEPT !.state = "blocked"])
                      /\ UNCHANGED <<disk, edits, watchQ, up, queue, node, sync, told, owed>>

Served(p) == owed' = IF Current(p).t = "update_content" /\ Current(p).same
                     THEN [owed EXCEPT ![Current(p).f] = FALSE] ELSE owed

(* The request of afterUpdateContent or afterDelete. When it fails the     *)
(* hook logs it, and the row is removed all the same.                      *)
Ask(p, type) ==
  LET f == Current(p).f
  IN  /\ \/ /\ told' = [told EXCEPT ![f] = type]
            /\ UNCHANGED faults
         \/ /\ faults < MaxFaults
            /\ faults' = faults + 1
            /\ UNCHANGED told

ToNode(ver) == [row |-> TRUE, ver |-> ver]

Upserted(f, n) == node' = [node EXCEPT ![f] = n]

\* What the after hook of a row's type does: those of add and of
\* update_metadata are not registered.
Hook(t, prev, next) == CASE t = "delete" /\ prev.row         -> "delete"
                         [] t = "update_content" /\ next.row -> "index"
                         [] OTHER                            -> "none"

\* applyNodeEvent once the metadata is known, got = 0 for none, and the
\* after hook up to its await.
Effect(p, prev, got) ==
  LET f == Current(p).f
      n == IF got # 0 THEN ToNode(got)
           ELSE IF prev.ver # 0 THEN [row |-> TRUE, ver |-> 0] ELSE node[f]
      asks == Hook(Current(p).t, prev, n)
  IN  /\ Upserted(f, n)
      /\ Set(p, [proc[p] EXCEPT !.phase = "hook", !.prev = OffProc.prev, !.got = 0])
      /\ IF asks = "none"
         THEN UNCHANGED <<told, faults>>
         ELSE Ask(p, asks)
      /\ Served(p)

\* getNodeByMountNodeIdAndSourceRef, of the file of a row.
Prev(p) == node[Current(p).f]

\* prevNode is read; a delete and a row with a snapshot await nothing.
Begin(p) ==
  /\ Busy(p, "next")
  /\ LET r == Current(p)
     IN  IF r.t = "delete" \/ r.snap # 0
         THEN Effect(p, Prev(p), r.snap)
         ELSE /\ Set(p, [proc[p] EXCEPT !.phase = "fetch", !.prev = Prev(p)])
              /\ UNCHANGED <<node, index>>
  /\ UNCHANGED <<disk, edits, watchQ, up, queue, sync>>

\* getMetadata and getVersion read the file ...
Fetch(p) == /\ Busy(p, "fetch")
            /\ Set(p, [proc[p] EXCEPT !.phase = "apply", !.got = disk[Current(p).f]])
            /\ UNCHANGED <<disk, edits, watchQ, up, queue, node, sync, index>>

\* ... and the row is applied when the event loop comes back to it.
Apply(p) == /\ Busy(p, "apply")
            /\ Effect(p, proc[p].prev, proc[p].got)
            /\ UNCHANGED <<disk, edits, watchQ, up, queue, sync>>

RemoveRowByKey(p) ==
  /\ queue' = Where(queue, {r \in Row : ~SameKey(r, Current(p))})
  /\ Set(p, [proc[p] EXCEPT !.batch = Tail(@), !.phase = "next"])

\* deleteNodeEvents, by id; an idle processor is woken by it.
RemoveRow(p) ==
  /\ queue' = IF Current(p).same THEN Where(queue, {r \in Row : ~SameKey(r, Current(p))})
              ELSE queue
  /\ proc' = [q \in Procs |->
       IF q = p THEN [proc[p] EXCEPT !.batch = Tail(@), !.phase = "next"]
       ELSE [proc[q] EXCEPT !.state = Woken(@)]]

Finish(p) == /\ Busy(p, "hook")
             /\ RemoveRow(p)
             /\ UNCHANGED <<disk, edits, watchQ, up, node, sync, index>>

\* The provider throws: the row is dropped, nothing was applied.
FetchFails(p) == /\ Busy(p, "fetch") /\ faults < MaxFaults
                 /\ faults' = faults + 1
                 /\ Served(p)
                 /\ RemoveRow(p)
                 /\ UNCHANGED <<disk, edits, watchQ, up, node, sync, told>>

-----------------------------------------------------------------------------
Next == \/ \E f \in Files : Write(f) \/ Unlink(f) \/ SyncRead(f)
        \/ WatchEvent \/ Start \/ Crash \/ WatchReady \/ Reconcile \/ SyncFails \/ SyncEnds
        \/ \E p \in Procs : \/ List(p) \/ Scan(p) \/ BeforeHookFails(p) \/ Begin(p)
                            \/ Fetch(p) \/ Apply(p) \/ Finish(p) \/ FetchFails(p)

(* Timers fire, promises settle and the event loop runs what is ready.     *)
(* Nothing makes the service start, a file change or a call fail.          *)
SyncStep == (\E f \in Files : SyncRead(f)) \/ SyncEnds
DrainStep(p) == List(p) \/ Scan(p) \/ Begin(p) \/ Fetch(p) \/ Apply(p) \/ Finish(p)
Fairness == /\ WF_vars(WatchEvent) /\ WF_vars(WatchReady) /\ WF_vars(Reconcile)
            /\ WF_vars(SyncStep)
            /\ \A p \in Procs : WF_vars(DrainStep(p))

Spec == Init /\ [][Next]_vars /\ Fairness

-----------------------------------------------------------------------------
TypeOK == /\ disk \in [Files -> 0..MaxEdits] /\ edits \in [Files -> 0..MaxEdits]
          /\ watchQ \in Seq([f : Files, kind : {"add", "update", "delete"}])
          /\ up \in {"down", "starting", "up"}
          /\ queue \in Seq(Row)
          /\ node \in [Files -> NodeRec]
          /\ sync \in [on : BOOLEAN, existing : [Files -> NodeRec], unread : SUBSET Files,
                        seen : [Files -> 0..MaxEdits], vanished : BOOLEAN]
          /\ proc \in [Procs -> [state : {"off", "idle", "blocked", "run"}, batch : Seq(Listed),
                                 phase : {"next", "fetch", "apply", "hook"},
                                 prev : NodeRec, got : 0..MaxEdits]]
          /\ told \in [Files -> {"none", "index", "delete"}]
          /\ owed \in [Files -> BOOLEAN]
          /\ faults \in 0..MaxFaults

(* A content change once recorded is not forgotten: until it was applied   *)
(* and the indexer asked, or that failed and was logged, its row is in the *)
(* table, through crashes, blocked hooks and a rewrite of the row while it *)
(* is processed.                                                           *)
OwedHasRow == \A f \in Files : owed[f] => HasRow(f, "update_content")

(* While the service stays up, every row is processed and removed.         *)
StaysUp == <>[](up = "up")
RowsDrain == StaysUp => []<>(queue = <<>>)

(* ... and once files stop changing, reconciling brings the tree to what   *)
(* is on disk, whatever order the rows were processed in before.           *)
TreeFollowsDisk == StaysUp => <>[](\A f \in Files : node[f].ver = disk[f])

(* The indexer is told of what the tree shows: when nothing is left to do  *)
(* and the tree is as the disk, so that no full sync finds a difference, a *)
(* live file was last indexed and any other was not.                       *)
AtRest == /\ up = "up" /\ queue = <<>> /\ watchQ = <<>> /\ ~sync.on
          /\ \A p \in Procs : proc[p].batch = <<>>
          /\ \A f \in Files : node[f].ver = disk[f]
IndexFollowsTree == AtRest => \A f \in Files :
  (told[f] = "index") = (node[f].ver # 0)
=============================================================================
