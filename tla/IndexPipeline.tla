---------------------------- MODULE IndexPipeline ----------------------------
(***************************************************************************)
(* What the jobs of IndexQueue do. IndexService.index_node reads a file    *)
(* and writes document.md, then replaces the rows of the node in the       *)
(* vector collection and in the SQLite chunk and FTS tables, one store     *)
(* after the other; delete_node empties the three in turn. No transaction  *)
(* spans them: the process can die, the store can raise, the file can      *)
(* change and the host can send its next request between any two writes.   *)
(*                                                                         *)
(* Contents are version numbers, 0 for a file that does not exist and for  *)
(* a store without rows of the node. The host's part is its indexing hooks:*)
(* a change on disk leaves a row in the host's event table, an update or a *)
(* delete, and each kind of row is turned into a request by a processor of *)
(* its own. A request that fails is logged and its row removed all the     *)
(* same: nothing repeats it.                                               *)
(***************************************************************************)
EXTENDS IndexQueue

CONSTANTS MaxEdits,  \* bound: versions of one file
          Blank      \* versions that parse to no usable chunk (empty file,
                     \* unsupported suffix, parser error chunk)

ASSUME PipelineAssumption == /\ MaxEdits \in Nat
                             /\ Blank \subseteq 1..MaxEdits

VARIABLES
  edits,    \* edits[n]: versions of file n so far
  disk,     \* disk[n]: the version on disk
  due,      \* due[n]: kinds of event rows for n whose hook has not run
  step,     \* step[p]: where thread p is in index_node or delete_node
  buf,      \* buf[p]: the version parsed by the job
  doc,      \* doc[n]: document.md under the parser directory
  vec,      \* vec[n]: rows in the vector collection
  fts,      \* fts[n]: rows in the chunk and FTS tables
  lost      \* lost[n]: history, since n was last read a request for it failed,
            \* or was coalesced onto a job that had read the file before

files  == <<edits, disk, due>>
stores == <<doc, vec, fts>>
pvars  == <<vars, files, stores, step, buf, lost>>

Steps == {"idle", "parse", "embed", "vecDelete", "ftsDelete", "vecUpsert",
          "ftsUpsert", "rmtree", "end"}

JobOf(p)  == jobs[current[p]]
Rows(v)   == IF v \in Blank THEN 0 ELSE v
Put(s, p, v) == [s EXCEPT ![JobOf(p).node] = v]

PInit == /\ Init
         /\ edits = [n \in Nodes |-> 0]
         /\ disk = [n \in Nodes |-> 0]
         /\ due = [n \in Nodes |-> {}]
         /\ step = [p \in Procs |-> "idle"]
         /\ buf = [p \in Procs |-> 0]
         /\ doc = [n \in Nodes |-> 0]
         /\ vec = [n \in Nodes |-> 0]
         /\ fts = [n \in Nodes |-> 0]
         /\ lost = [n \in Nodes |-> FALSE]

-----------------------------------------------------------------------------
(* The file system and the host.                                           *)

Write(n) == /\ edits[n] < MaxEdits
            /\ edits' = [edits EXCEPT ![n] = @ + 1]
            /\ disk' = [disk EXCEPT ![n] = edits[n] + 1]
            /\ due' = [due EXCEPT ![n] = @ \cup {"index"}]
            /\ UNCHANGED <<vars, stores, step, buf, lost>>

Remove(n) == /\ disk[n] # 0
             /\ disk' = [disk EXCEPT ![n] = 0]
             /\ due' = [due EXCEPT ![n] = @ \cup {"delete"}]
             /\ UNCHANGED <<vars, edits, stores, step, buf, lost>>

\* A job of the node executes, past the step that reads the file.
ReadAlready(n) == \E p \in Procs : /\ step[p] \notin {"idle", "parse"}
                                   /\ current[p] = nodeState[n].latest

(* A hook sends the request its row calls for, whatever the disk holds by  *)
(* then and whichever row is older; the host may end before the row is     *)
(* removed, and repeat it.                                                 *)
Request(p, n, t) ==
  /\ t \in due[n]
  /\ lost' = [lost EXCEPT ![n] = Coalesces(n, t) /\ (@ \/ ReadAlready(n))]
  /\ Enqueue(p, n, t)
  /\ due' = [due EXCEPT ![n] = @ \ {t}] \/ UNCHANGED due
  /\ UNCHANGED <<edits, disk, stores, step, buf>>

(* The context cannot be built, no worker is up, or it answers an error:   *)
(* the hook catches it and the row goes.                                   *)
RequestFails(n, t) == /\ t \in due[n]
                      /\ due' = [due EXCEPT ![n] = @ \ {t}]
                      /\ lost' = [lost EXCEPT ![n] = TRUE]
                      /\ UNCHANGED <<vars, edits, disk, stores, step, buf>>

-----------------------------------------------------------------------------
(* The process and its index thread; a job's place in the code and what it *)
(* has parsed are lost with the thread, the stores are not.                *)

Boots(p) == /\ Launch(p) \/ Orphan(p) \/ Stop(p) \/ Boot(p) \/ ClaimNone(p)
            /\ UNCHANGED <<files, stores, step, buf, lost>>

Drop(p) == /\ step' = [step EXCEPT ![p] = "idle"]
           /\ buf' = [buf EXCEPT ![p] = 0]
           /\ UNCHANGED <<files, stores, lost>>

Dies(p) == (Die(p) \/ Fault(p)) /\ Drop(p)

Claim(p) == /\ ClaimJob(p)
            /\ step' = [step EXCEPT ![p] =
                          IF jobs[current'[p]].type = "index" THEN "parse" ELSE "vecDelete"]
            /\ UNCHANGED <<files, stores, buf, lost>>

-----------------------------------------------------------------------------
(* index_node and delete_node, on the index worker thread.                 *)

At(p, s) == thread[p] = "exec" /\ step[p] = s
GoTo(p, s) == step' = [step EXCEPT ![p] = s]

\* The file is read, then document.md is written; a missing file raises.
Parse(p) == /\ At(p, "parse")
            /\ disk[JobOf(p).node] # 0
            /\ buf' = [buf EXCEPT ![p] = disk[JobOf(p).node]]
            /\ doc' = Put(doc, p, disk[JobOf(p).node])
            /\ lost' = Put(lost, p, FALSE)
            /\ GoTo(p, "embed")
            /\ UNCHANGED <<vars, files, vec, fts>>

\* The embedding runtime is awaited and run over the chunks.
Embed(p) == /\ At(p, "embed")
            /\ GoTo(p, "vecDelete")
            /\ UNCHANGED <<vars, files, stores, buf, lost>>

VecDelete(p) == /\ At(p, "vecDelete")
                /\ vec' = Put(vec, p, 0)
                /\ GoTo(p, "ftsDelete")
                /\ UNCHANGED <<vars, files, doc, fts, buf, lost>>

\* A wrong variant, as is RemoveNoArtifact: each shows that a property can fail.
FtsDeleteNothing(p) == /\ At(p, "ftsDelete")
                       /\ GoTo(p, IF JobOf(p).type = "index" THEN "vecUpsert" ELSE "rmtree")
                       /\ UNCHANGED <<vars, files, stores, buf, lost>>

FtsDelete(p) == /\ At(p, "ftsDelete")
                /\ fts' = Put(fts, p, 0)
                /\ GoTo(p, IF JobOf(p).type = "index" THEN "vecUpsert" ELSE "rmtree")
                /\ UNCHANGED <<vars, files, doc, vec, buf, lost>>

VecUpsert(p) == /\ At(p, "vecUpsert")
                /\ vec' = IF Rows(buf[p]) = 0 THEN vec ELSE Put(vec, p, buf[p])
                /\ GoTo(p, "ftsUpsert")
                /\ UNCHANGED <<vars, files, doc, fts, buf, lost>>

FtsUpsert(p) == /\ At(p, "ftsUpsert")
                /\ fts' = IF Rows(buf[p]) = 0 THEN fts ELSE Put(fts, p, buf[p])
                /\ GoTo(p, "end")
                /\ UNCHANGED <<vars, files, doc, vec, buf, lost>>

RemoveNoArtifact(p) == /\ At(p, "rmtree")
                       /\ GoTo(p, "end")
                       /\ UNCHANGED <<vars, files, stores, buf, lost>>

RemoveArtifact(p) == /\ At(p, "rmtree")
                     /\ doc' = Put(doc, p, 0)
                     /\ GoTo(p, "end")
                     /\ UNCHANGED <<vars, files, vec, fts, buf, lost>>

Finish(p) == At(p, "end") /\ MarkDone(p) /\ Drop(p)

\* Any step may raise: no file, no embedding runtime, an error of a store.
Raise(p) == MarkFailed(p) /\ Drop(p)

-----------------------------------------------------------------------------
PNext == \/ \E n \in Nodes : Write(n) \/ Remove(n) \/ \E t \in Types : RequestFails(n, t)
         \/ \E p \in Procs :
              \/ \E n \in Nodes, t \in Types : Request(p, n, t)
              \/ Boots(p) \/ Dies(p) \/ Claim(p)
              \/ Parse(p) \/ Embed(p) \/ VecDelete(p) \/ FtsDelete(p)
              \/ VecUpsert(p) \/ FtsUpsert(p) \/ RemoveArtifact(p)
              \/ Finish(p) \/ Raise(p)

PSpec == PInit /\ [][PNext]_pvars

-----------------------------------------------------------------------------
PTypeOK == /\ TypeOK
           /\ edits \in [Nodes -> 0..MaxEdits]
           /\ disk \in [Nodes -> 0..MaxEdits]
           /\ due \in [Nodes -> SUBSET Types]
           /\ step \in [Procs -> Steps]
           /\ buf \in [Procs -> 0..MaxEdits]
           /\ doc \in [Nodes -> 0..MaxEdits]
           /\ vec \in [Nodes -> 0..MaxEdits]
           /\ fts \in [Nodes -> 0..MaxEdits]
           /\ lost \in [Nodes -> BOOLEAN]

(* A search merges FTS and vector hits of a chunk by its id: at no moment, *)
(* not after a crash or an error between two stores either, do the two     *)
(* stores hold rows of one node from different versions of its file.       *)
StoresAgree == \A n \in Nodes : vec[n] # 0 /\ fts[n] # 0 => vec[n] = fts[n]

Done(n, t) == LET l == nodeState[n].latest
              IN  l # 0 /\ jobs[l].type = t /\ jobs[l].status = "done"

(* A newest job that is done has left the stores complete: all three of    *)
(* one version after an index, nothing after a delete, whatever older jobs *)
(* of the node were interrupted, failed or superseded on the way.          *)
DoneIsComplete ==
  \A n \in Nodes : /\ Done(n, "index") => doc[n] # 0 /\ vec[n] = Rows(doc[n]) /\ fts[n] = vec[n]
                   /\ Done(n, "delete") => doc[n] = 0 /\ vec[n] = 0 /\ fts[n] = 0

(* When every change of a file has been through its hook and the node's    *)
(* newest job is a finished index, the index holds what the disk holds,    *)
(* unless a request of the node failed or was coalesced onto a job past    *)
(* its parse and the file has not been read since: an older version never  *)
(* stays behind through a crash, a requeue or an error of an older job.    *)
FreshUnlessLost ==
  \A n \in Nodes : due[n] = {} /\ ~lost[n] /\ Done(n, "index") => doc[n] = disk[n]

(* Stores are written in the order of the requests: no job touches a node  *)
(* after a younger job of that node was done.                              *)
TouchesInOrder ==
  \A n \in Nodes : doc'[n] # doc[n] \/ vec'[n] # vec[n] \/ fts'[n] # fts[n] =>
    \A i \in DOMAIN jobs : jobs[i].node = n /\ jobs[i].status = "done" =>
      \E p \in Procs : step[p] # "idle" /\ i < current[p]
WritesInOrder == [][TouchesInOrder]_pvars

=============================================================================
