----------------------------- MODULE ContentSync -----------------------------
(***************************************************************************)
(* The local copy of a file of a mount with syncContent: what the content  *)
(* processor does with an update_content row (vfs.node-event-processor.ts  *)
(* applyNodeEvent, syncContent, downloadWithResume), beside the metadata   *)
(* processor, which writes the same node, and the full syncs, which write  *)
(* rows of their own (vfs.syncer.ts). A download goes to a part file and   *)
(* is renamed; a part that is left is resumed, at its length.              *)
(*                                                                         *)
(* One file, which changes and is never deleted: delete rows, and the      *)
(* missing metadata of a file that is gone, are in VfsEvents and           *)
(* VfsRemoval. A version's content is a sequence of blocks marked with it, *)
(* so that a mixture shows. An action runs from one await to the next: the *)
(* size of a file and its hash are read by two calls, and may be of two    *)
(* versions. Abstracted: a stream serves the version that was there when   *)
(* it was opened; the events of the view; a restart of the host is one     *)
(* step.                                                                   *)
(***************************************************************************)
EXTENDS Naturals, Sequences, SequencesExt

CONSTANTS Sizes,     \* Sizes[v]: blocks of version v of the file
          MaxFaults  \* bound: restarts, and calls and streams that fail

ASSUME ContentAssumption == Sizes \in Seq(Nat \ {0}) /\ Sizes # <<>> /\ MaxFaults \in Nat

Versions == 1..Len(Sizes)

VARIABLES
  remote,  \* the version the provider has
  node,    \* the node in vfs_nodes, None for no node
  rowM,    \* the update_metadata row, rowC the update_content row: whether it
  rowC,    \* is queued, and its node_json, None for NULL
  sync,    \* a full sync: the node it read, and what it saw
  meta,    \* the metadata processor
  copy,    \* the content processor
  final,   \* the local copy, blocks; <<>> for no file
  part,    \* the part file
  faults,
  mixed,   \* history: the last download resumed a part that is not the
           \* beginning of the stream
  dropped  \* history: the last row for the content was dropped by a failure

rows  == <<rowM, rowC>>
files == <<final, part>>
hist  == <<mixed, dropped>>
vars  == <<remote, node, rowM, rowC, sync, meta, copy, final, part, faults, mixed, dropped>>

Whole(v) == [i \in 1..Sizes[v] |-> v]

(* What is known of the file: the version of its size and time, and that   *)
(* of its hash (providerVersion).                                          *)
Known(stat, hash) == [stat |-> stat, hash |-> hash]
None     == Known(0, 0)
NoRow    == [on |-> FALSE, snap |-> None]
Row(k)   == [on |-> TRUE, snap |-> k]
NoSync   == [phase |-> "idle", node |-> None, seen |-> None]
MetaIdle == [phase |-> "idle", got |-> None, same |-> FALSE]
CopyIdle == [phase |-> "idle", prev |-> 0, got |-> None, same |-> FALSE, offset |-> 0,
             retried |-> FALSE, stream |-> 0]

Init == /\ remote = 1 /\ node = None
        /\ rowM = Row(None) /\ rowC = Row(None)
        /\ sync = NoSync /\ meta = MetaIdle /\ copy = CopyIdle
        /\ final = <<>> /\ part = <<>> /\ faults = 0 /\ mixed = FALSE /\ dropped = FALSE

-----------------------------------------------------------------------------
(* Rows. A row of the same type is replaced and gets a new id.             *)

Insert(k) == /\ rowM' = Row(k) /\ rowC' = Row(k)
             /\ meta' = [meta EXCEPT !.same = FALSE]
             /\ copy' = [copy EXCEPT !.same = FALSE]
             /\ dropped' = FALSE

\* The file changes and the watcher says so.
Change == /\ remote < Len(Sizes)
          /\ remote' = remote + 1
          /\ Insert(None)
          /\ UNCHANGED <<node, sync, files, faults, mixed>>

\* fullSync: the table and the provider's list are read, ...
SyncBegins == /\ sync.phase = "idle"
              /\ sync' = [phase |-> "list", node |-> node, seen |-> Known(remote, 0)]
              /\ UNCHANGED <<remote, node, rows, meta, copy, files, faults, hist>>

\* ... then the hash of what is listed, ...
SyncHashes == /\ sync.phase = "list"
              /\ sync' = [sync EXCEPT !.phase = "hash", !.seen = Known(sync.seen.stat, remote)]
              /\ UNCHANGED <<remote, node, rows, meta, copy, files, faults, hist>>

\* ... and what differs is written, with its metadata.
SyncEnds == /\ sync.phase = "hash"
            /\ sync' = NoSync
            /\ IF sync.node # sync.seen THEN Insert(sync.seen)
                                        ELSE UNCHANGED <<rows, meta, copy, dropped>>
            /\ UNCHANGED <<remote, node, files, faults, mixed>>

\* The host ends and starts again: rows and files are what is left.
Restart == /\ faults < MaxFaults
           /\ faults' = faults + 1
           /\ sync' = NoSync /\ meta' = MetaIdle /\ copy' = CopyIdle
           /\ UNCHANGED <<remote, node, rows, files, hist>>

-----------------------------------------------------------------------------
(* The metadata processor: getMetadata and getVersion if the row has no    *)
(* node, then the node.                                                    *)

First(row) == IF row.snap = None THEN "fetch" ELSE "apply"

MetaTakes == /\ meta.phase = "idle" /\ rowM.on
             /\ meta' = [phase |-> First(rowM), got |-> rowM.snap, same |-> TRUE]
             /\ UNCHANGED <<remote, node, rows, sync, copy, files, faults, hist>>

MetaFetches == /\ meta.phase = "fetch"
               /\ meta' = [meta EXCEPT !.phase = "hash", !.got = Known(remote, 0)]
               /\ UNCHANGED <<remote, node, rows, sync, copy, files, faults, hist>>

MetaHashes == /\ meta.phase = "hash"
              /\ meta' = [meta EXCEPT !.phase = "apply", !.got = Known(meta.got.stat, remote)]
              /\ UNCHANGED <<remote, node, rows, sync, copy, files, faults, hist>>

MetaApplies == /\ meta.phase = "apply"
               /\ node' = meta.got
               /\ rowM' = IF meta.same THEN NoRow ELSE rowM
               /\ meta' = MetaIdle
               /\ UNCHANGED <<remote, rowC, sync, copy, files, faults, hist>>

-----------------------------------------------------------------------------
(* The content processor.                                                  *)

Takes == /\ copy.phase = "idle" /\ rowC.on
         /\ copy' = [CopyIdle EXCEPT !.phase = First(rowC), !.prev = node.hash,
                                     !.got = rowC.snap, !.same = TRUE]
         /\ UNCHANGED <<remote, node, rows, sync, meta, files, faults, hist>>

\* getMetadata, and getVersion after it.
Fetches == /\ copy.phase = "fetch"
           /\ copy' = [copy EXCEPT !.phase = "hash", !.got = Known(remote, 0)]
           /\ UNCHANGED <<remote, node, rows, sync, meta, files, faults, hist>>

Hashes == /\ copy.phase = "hash"
          /\ copy' = [copy EXCEPT !.phase = "apply", !.got = Known(copy.got.stat, remote)]
          /\ UNCHANGED <<remote, node, rows, sync, meta, files, faults, hist>>

\* The node is written; an update_content row always asks for the content.
Applies == /\ copy.phase = "apply"
           /\ node' = copy.got
           /\ copy' = [copy EXCEPT !.phase = "prepare"]
           /\ UNCHANGED <<remote, rows, sync, meta, files, faults, hist>>

Served == copy' = CopyIdle /\ rowC' = IF copy.same THEN NoRow ELSE rowC

OpenAt(offset) == copy' = [copy EXCEPT !.phase = "open", !.offset = offset]

\* Wrong variants, here and below: each shows that a property can fail.
PreparesTrustingFinal ==
  /\ copy.phase = "prepare"
  /\ IF final # <<>> THEN Served /\ UNCHANGED part
     ELSE OpenAt(Len(part)) /\ UNCHANGED <<part, rowC>>
  /\ UNCHANGED <<remote, node, rowM, sync, meta, final, faults, hist>>

\* syncContent, after mkdir: nothing is kept of another version, as far as
\* prev tells; a copy of the right size is; a part that is too long is not.
Prepares ==
  LET size    == Sizes[copy.got.stat]
      restart == copy.prev \notin {0, copy.got.hash}
      keeps   == ~restart /\ Len(final) = size
      resumes == ~restart /\ Len(part) <= size
  IN  /\ copy.phase = "prepare"
      /\ IF keeps THEN Served /\ UNCHANGED files
         ELSE /\ final' = <<>>
              /\ part' = IF resumes THEN part ELSE <<>>
              /\ OpenAt(IF resumes THEN Len(part) ELSE 0)
              /\ UNCHANGED rowC
      /\ UNCHANGED <<remote, node, rowM, sync, meta, faults, hist>>

\* createReadStream: the file as it is now, from the offset on.
Streams == copy' = [copy EXCEPT !.phase = "read", !.stream = remote]

\* downloadWithResume opens the stream; at 0 the part is written anew.
Opens == /\ copy.phase = "open"
         /\ Streams
         /\ part' = IF copy.offset = 0 THEN <<>> ELSE part
         /\ mixed' = (copy.offset > 0 /\ ~IsPrefix(part, Whole(remote)))
         /\ UNCHANGED <<remote, node, rows, sync, meta, final, faults, dropped>>

ReadsBlock == /\ copy.phase = "read" /\ Len(part) < Sizes[copy.stream]
              /\ part' = Append(part, copy.stream)
              /\ UNCHANGED <<remote, node, rows, sync, meta, copy, final, faults, hist>>

RenamesEarly == /\ copy.phase = "read" /\ part # <<>>
                /\ final' = part /\ part' = <<>>
                /\ Served
                /\ UNCHANGED <<remote, node, rowM, sync, meta, faults, hist>>

\* The stream is done; the part is closed and renamed, the row removed.
Renames == /\ copy.phase = "read" /\ Len(part) >= Sizes[copy.stream]
           /\ final' = part /\ part' = <<>>
           /\ Served
           /\ UNCHANGED <<remote, node, rowM, sync, meta, faults, hist>>

\* Opening or reading fails: once, a resumed download starts over; otherwise
\* the row is dropped and the part stays.
Fails == /\ copy.phase \in {"open", "read"} /\ faults < MaxFaults
         /\ faults' = faults + 1
         /\ IF copy.offset > 0 /\ ~copy.retried
            THEN /\ copy' = [copy EXCEPT !.phase = "open", !.offset = 0, !.retried = TRUE]
                 /\ part' = <<>>
                 /\ UNCHANGED <<rowC, dropped>>
            ELSE /\ Served /\ UNCHANGED part
                 /\ dropped' = copy.same
         /\ UNCHANGED <<remote, node, rowM, sync, meta, final, mixed>>

-----------------------------------------------------------------------------
Next == \/ Change \/ SyncBegins \/ SyncHashes \/ SyncEnds \/ Restart
        \/ MetaTakes \/ MetaFetches \/ MetaHashes \/ MetaApplies
        \/ Takes \/ Fetches \/ Hashes \/ Applies \/ Prepares
        \/ Opens \/ ReadsBlock \/ Renames \/ Fails

(* The reconcile timer fires and the processors run; neither the provider  *)
(* nor a failure is owed.                                                  *)
Fairness == /\ WF_vars(SyncBegins \/ SyncHashes \/ SyncEnds)
            /\ WF_vars(MetaTakes \/ MetaFetches \/ MetaHashes \/ MetaApplies)
            /\ WF_vars(Takes \/ Fetches \/ Hashes \/ Applies \/ Prepares
                         \/ Opens \/ ReadsBlock \/ Renames)

Spec == Init /\ [][Next]_vars /\ Fairness

-----------------------------------------------------------------------------
Some    == {0} \cup Versions
Partial == [stat : Some, hash : Some]   \* no node, or one half read
Full    == [stat : Versions, hash : Versions]

Halves(known, first, both) == /\ first => known.stat \in Versions
                              /\ both => known \in Full

(* Types; who applies or writes a node, or downloads by it, has both its   *)
(* halves.                                                                 *)
TypeOK ==
  /\ remote \in Versions /\ node \in Full \cup {None}
  /\ rowM \in [on : BOOLEAN, snap : Full \cup {None}]
  /\ rowC \in [on : BOOLEAN, snap : Full \cup {None}]
  /\ sync \in [phase : {"idle", "list", "hash"}, node : Full \cup {None}, seen : Partial]
  /\ Halves(sync.seen, sync.phase = "list", sync.phase = "hash")
  /\ meta \in [phase : {"idle", "fetch", "hash", "apply"}, got : Partial, same : BOOLEAN]
  /\ Halves(meta.got, meta.phase = "hash", meta.phase = "apply")
  /\ copy \in [phase : {"idle", "fetch", "hash", "apply", "prepare", "open", "read"},
                prev : Some, got : Partial, same : BOOLEAN, offset : Nat,
                retried : BOOLEAN, stream : Some]
  /\ Halves(copy.got, copy.phase = "hash",
            copy.phase \in {"apply", "prepare", "open", "read"})
  /\ copy.phase = "read" => copy.stream \in Versions
  /\ final \in Seq(Versions) /\ part \in Seq(Versions)
  /\ faults \in 0..MaxFaults /\ mixed \in BOOLEAN /\ dropped \in BOOLEAN

(* The local copy is never a piece of a file: through failures, resumes    *)
(* and restarts what is renamed is one version, whole, unless its own      *)
(* download resumed a part of another version, which syncContent cannot    *)
(* tell when the metadata processor was the first to write the new one.    *)
CopyIsWhole == ~mixed /\ final # <<>> => \E v \in Versions : final = Whole(v)

(* Whatever failed and whatever parts were left on the way, the copy is in *)
(* the end what the provider has, whichever processor wrote the node first *)
(* and whatever a stale full sync wrote over a newer row, but for the two  *)
(* ways the code loses it: the last row was dropped by a failed download,  *)
(* or the last download resumed a part of another version. (With versions  *)
(* that differ in size: a copy of the right size is kept, whatever is in   *)
(* it.)                                                                    *)
CopyFollows == <>[](mixed \/ dropped \/ final = Whole(remote))
=============================================================================
