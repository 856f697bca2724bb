------------------------------ MODULE VfsRemoval ------------------------------
(***************************************************************************)
(* How what the user deletes, renames or unmounts leaves the node table    *)
(* and the search index. The service removes a file from the disk, then    *)
(* marks its node, and writes no row (vfs.service.ts rename, delete): the  *)
(* index hears of it from the delete row of the watcher, or of a full sync *)
(* that finds a live node without a file (vfs.syncer.ts). Meanwhile a row  *)
(* with the node an earlier walk has read may make a marked node live      *)
(* again (vfs.node-event-processor.ts applyNodeEvent).                     *)
(*                                                                         *)
(* Abstracted: the awaits of a processor and the order of its rows, which  *)
(* VfsEvents has in full (a row is served in one step, any row next); the  *)
(* indexer, which does at once what it is asked and indexes no file that   *)
(* is gone (IndexPipeline). A name is used once. A node's metadata and     *)
(* content rows are one row.                                               *)
(***************************************************************************)
EXTENDS FiniteSets

CONSTANTS Files,   \* names
          Folder,  \* the files that are there at first, and indexed
          Faults   \* what may fail: "watch", a report of the watcher, and
                   \* "request", a request to the indexer

ASSUME RemovalAssumption == /\ IsFiniteSet(Files) /\ Folder \subseteq Files
                            /\ Faults \subseteq {"watch", "request"}

VARIABLES
  disk,      \* files on the disk
  table,     \* vfs_nodes: "none", "live" or "deleted"
  mounted,   \* the mount has its configuration and its syncer
  deleting,  \* deletions whose file is removed and whose node is not marked
  renaming,  \* likewise renames, <<old, new>>
  unlinked,  \* files gone that the watcher has not reported
  sync,      \* a full sync, and the live nodes it read of the table
  rows,      \* vfs_node_events: delete rows, rows with a walk's node, others
  indexed,   \* files the search index has
  lost       \* history: files whose removal was not reported, or whose
             \* request to forget them failed

service == <<mounted, deleting, renaming>>
index   == <<indexed, lost>>
vars    == <<disk, table, service, unlinked, sync, rows, index>>

Nodes(state) == {n \in Files : table[n] = state}
Live == Nodes("live")

Table(states) == table' = [n \in Files |-> IF n \in DOMAIN states THEN states[n] ELSE table[n]]
To(S, state)  == [n \in S |-> state]

NoSync == [on |-> FALSE, live |-> {}]

Init == /\ disk = Folder
        /\ table = [n \in Files |-> IF n \in disk THEN "live" ELSE "none"]
        /\ mounted = TRUE /\ deleting = {} /\ renaming = {}
        /\ unlinked = {}
        /\ sync = NoSync
        /\ rows = [gone |-> {}, walked |-> {}, plain |-> {}]
        /\ indexed = disk /\ lost = {}

-----------------------------------------------------------------------------
(* The service.                                                            *)

\* The provider removes the file; one that is gone already is no error.
Delete(n) ==
  /\ mounted /\ n \in Live \ deleting
  /\ deleting' = deleting \cup {n}
  /\ disk' = disk \ {n}
  /\ unlinked' = unlinked \cup ({n} \cap disk)
  /\ UNCHANGED <<table, mounted, renaming, sync, rows, index>>

\* delete, after its await.
DeleteMarks(n) ==
  /\ n \in deleting
  /\ deleting' = deleting \ {n}
  /\ Table(To({n} \cap Live, "deleted"))
  /\ UNCHANGED <<disk, mounted, renaming, unlinked, sync, rows, index>>

\* The provider moves the file to a name that is free.
Rename(n, to) ==
  /\ mounted /\ n \in Live \cap disk /\ to \in Nodes("none") \ disk
  /\ renaming' = renaming \cup {<<n, to>>}
  /\ disk' = (disk \ {n}) \cup {to}
  /\ unlinked' = unlinked \cup {n}
  /\ UNCHANGED <<table, mounted, deleting, sync, rows, index>>

\* rename, after its await: the new node is live, the old one is marked.
RenameMarks(n, to) ==
  /\ <<n, to>> \in renaming
  /\ renaming' = renaming \ {<<n, to>>}
  /\ Table([m \in {n, to} |-> IF m = to THEN "live" ELSE "deleted"])
  /\ UNCHANGED <<disk, mounted, deleting, unlinked, sync, rows, index>>

\* delete, of the mount: its managed branch stops the syncer, marks the
\* subtree, and returns. The files stay on the disk.
Remove ==
  /\ mounted
  /\ mounted' = FALSE
  /\ Table(To(Live, "deleted"))
  /\ unlinked' = {}
  /\ UNCHANGED <<disk, deleting, renaming, sync, rows, index>>

-----------------------------------------------------------------------------
(* The disk, the watcher and the full syncs. That rows are served at any   *)
(* time stands also for a walk whose rows are written after it.            *)

\* Another program removes the file.
Unlink(n) ==
  /\ mounted /\ n \in disk
  /\ disk' = disk \ {n}
  /\ unlinked' = unlinked \cup {n}
  /\ UNCHANGED <<table, service, sync, rows, index>>

ReportsGone(n) ==
  /\ n \in unlinked
  /\ unlinked' = unlinked \ {n}
  /\ rows' = [rows EXCEPT !.gone = @ \cup {n}]
  /\ UNCHANGED <<disk, table, service, sync, index>>

\* A file that was added or has changed; the row replaces a walk's.
ReportsFile(n) ==
  /\ mounted /\ n \in disk
  /\ rows' = [rows EXCEPT !.plain = @ \cup {n}, !.walked = @ \ {n}]
  /\ UNCHANGED <<disk, table, service, unlinked, sync, index>>

\* The watcher was not set up, or the host ends before it reports.
Unheard(n) ==
  /\ "watch" \in Faults /\ n \in unlinked
  /\ unlinked' = unlinked \ {n}
  /\ lost' = lost \cup {n}
  /\ UNCHANGED <<disk, table, service, sync, rows, indexed>>

\* fullSync reads the table ...
SyncBegins ==
  /\ mounted /\ ~sync.on
  /\ sync' = [on |-> TRUE, live |-> Live]
  /\ UNCHANGED <<disk, table, service, unlinked, rows, index>>

NoneVanished == {}

\* Live nodes the walk does not find.
Vanished == sync.live \ disk

\* ... walks the provider and writes the difference: rows for nodes it does
\* not find, and with the node for files that have none, a marked one or
\* another version of it. It goes on when its mount is removed.
SyncEnds ==
  /\ sync.on
  /\ \E changed \in SUBSET (disk \cap sync.live) :
       LET found == changed \cup (disk \ sync.live)
       IN  rows' = [gone |-> rows.gone \cup Vanished, walked |-> rows.walked \cup found,
                    plain |-> rows.plain \ found]
  /\ sync' = NoSync
  /\ UNCHANGED <<disk, table, service, unlinked, index>>

-----------------------------------------------------------------------------
(* The processors and the hooks.                                           *)

\* afterUpdateContent: the file is indexed, if it is there and the request
\* does not fail.
Indexes(n) == /\ \/ indexed' = indexed \cup ({n} \cap disk)
                 \/ "request" \in Faults /\ UNCHANGED indexed
              /\ UNCHANGED lost


\* afterDelete, also of a node that is marked already; a request that fails
\* is logged.
Forgets(n) == \/ /\ indexed' = indexed \ {n}
                 /\ UNCHANGED lost
              \/ /\ "request" \in Faults
                 /\ lost' = lost \cup {n}
                 /\ UNCHANGED indexed

\* A delete row, with its mount or without.
ServesGone(n) ==
  /\ n \in rows.gone
  /\ rows' = [rows EXCEPT !.gone = @ \ {n}]
  /\ Table(To({n} \cap Live, "deleted"))
  /\ IF table[n] # "none" THEN Forgets(n) ELSE UNCHANGED index
  /\ UNCHANGED <<disk, service, unlinked, sync>>

\* A row with the node of a walk, which is written as it was read; without
\* its mount a row is dropped.
ServesWalked(n) ==
  /\ n \in rows.walked
  /\ rows' = [rows EXCEPT !.walked = @ \ {n}]
  /\ IF mounted THEN Table(To({n}, "live")) /\ Indexes(n)
                ELSE UNCHANGED <<table, index>>
  /\ UNCHANGED <<disk, service, unlinked, sync>>

ServesPlainKnownOnly(n) ==
  /\ n \in rows.plain
  /\ rows' = [rows EXCEPT !.plain = @ \ {n}]
  /\ IF mounted THEN Table(To({n} \cap Live, IF n \in disk THEN "live" ELSE "deleted")) /\ Indexes(n)
     ELSE UNCHANGED <<table, index>>
  /\ UNCHANGED <<disk, service, unlinked, sync>>

\* A row of the watcher: the metadata is fetched, and a file that is gone is
\* marked.
ServesPlain(n) ==
  /\ n \in rows.plain
  /\ rows' = [rows EXCEPT !.plain = @ \ {n}]
  /\ IF mounted
     THEN /\ IF n \in disk THEN Table(To({n}, "live"))
             ELSE Table(To({n} \cap Live, "deleted"))
          /\ Indexes(n)
     ELSE UNCHANGED <<table, index>>
  /\ UNCHANGED <<disk, service, unlinked, sync>>

-----------------------------------------------------------------------------
Sync == SyncBegins \/ SyncEnds
Serves(n) == ServesGone(n) \/ ServesWalked(n) \/ ServesPlain(n)

Next == \/ Remove \/ Sync
        \/ \E n \in Files : \/ Delete(n) \/ DeleteMarks(n)
                            \/ Unlink(n) \/ ReportsFile(n) \/ ReportsGone(n) \/ Unheard(n)
                            \/ Serves(n)
                            \/ \E to \in Files : Rename(n, to) \/ RenameMarks(n, to)

(* The reconcile timer keeps syncing, a removal is reported or missed, the *)
(* processors serve the delete rows. Nothing rests on the rest.            *)
Fairness == /\ WF_vars(Sync)
            /\ \A n \in Files : /\ WF_vars(ReportsGone(n) \/ Unheard(n))
                                /\ WF_vars(ServesGone(n))

Spec == Init /\ [][Next]_vars /\ Fairness

-----------------------------------------------------------------------------
\* Types; a file without a node is in no index.
TypeOK ==
  /\ disk \subseteq Files /\ table \in [Files -> {"none", "live", "deleted"}]
  /\ mounted \in BOOLEAN /\ deleting \subseteq Files /\ renaming \subseteq Files \X Files
  /\ unlinked \subseteq Files \ disk
  /\ sync \in [on : BOOLEAN, live : SUBSET Files]
  /\ rows \in [gone : SUBSET Files, walked : SUBSET Files, plain : SUBSET Files]
  /\ indexed \subseteq Files \ Nodes("none") /\ lost \subseteq Files


(* A node without a file does not stay live: the row of a walk may bring   *)
(* back what was deleted after it, but a later full sync finds it out, also*)
(* when the watcher has missed the deletion (vfs.node-event-processor.ts   *)
(* applyNodeEvent, vfs.syncer.ts fullSync).                                *)
NoGhostStays == <>[](mounted => Live \subseteq disk)

=============================================================================
