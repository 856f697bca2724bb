----------------------------- MODULE IndexQueue -----------------------------
(***************************************************************************)
(* The SQLite-backed index queue of the Python worker: the two tables of   *)
(* queue_store.py, each of whose operations is one BEGIN IMMEDIATE         *)
(* transaction, and the threads that call them: the main thread of a       *)
(* worker process, which enqueues the host's index_node and delete_node    *)
(* requests, and its index worker thread (bootstrap.py), which requeues    *)
(* the jobs a dead process left running, then claims, runs and settles     *)
(* jobs one at a time.                                                     *)
(*                                                                         *)
(* Abstracted: payload_json and queue_kind follow from the node and the    *)
(* job type, version and the time stamps are written and never read back,  *)
(* so a coalesced request leaves the modelled rows as they are; the        *)
(* work_available event only shortens the 0.25 s poll of the worker loop.  *)
(* What running a job does is the subject of module IndexPipeline.         *)
(***************************************************************************)
EXTENDS Naturals, Sequences

CONSTANTS Nodes,         \* node ids
          Procs,         \* worker processes that may live over time
          MaxJobs,       \* bound: rows of index_jobs
          AllowOverlap   \* may a process start while an orphaned one lives?

ASSUME ConstAssumption == /\ MaxJobs \in Nat
                          /\ AllowOverlap \in BOOLEAN

Types  == {"index", "delete"}
Live   == {"queued", "running"}
Status == Live \cup {"done", "failed", "cancelled"}

\* Row i of index_jobs; AUTOINCREMENT ids and rows never removed make the
\* table a sequence.
Job == [node : Nodes, type : Types, status : Status]

\* The row of a node in index_node_state; latest = 0 stands for no row.
NodeRow == [latest : Nat, desired : Types \cup {"none"}]

VARIABLES
  jobs,        \* index_jobs
  nodeState,   \* index_node_state
  main,        \* main[p]: "down", "up", "orphan" (the host is gone, not noticed
               \* yet) or "stopping" (stop_event set, the thread not joined)
  thread,      \* thread[p]: the index worker thread: "none", "boot", "loop", "exec"
  current,     \* current[p]: id of the job thread p executes, 0 when none
  asked        \* asked[n]: history of the host, its last accepted request for n

store == <<jobs, nodeState, asked>>
procs == <<main, thread, current>>
vars  == <<jobs, nodeState, asked, main, thread, current>>

-----------------------------------------------------------------------------
(* Reading the tables.                                                     *)

Queued  == {i \in DOMAIN jobs : jobs[i].status = "queued"}
Running == {i \in DOMAIN jobs : jobs[i].status = "running"}

(* Wrong variants, here and below: each shows that a property can fail.    *)
StaleByTypeOnly(i) == nodeState[jobs[i].node].desired # jobs[i].type

\* claim_next_job's test for a job that is no longer what its node wants.
Stale(i) == LET row == nodeState[jobs[i].node]
            IN  row.latest # i \/ row.desired # jobs[i].type

Wanted == {i \in Queued : ~Stale(i)}

CoalescesAnyType(n, t) == /\ nodeState[n].latest # 0
                          /\ jobs[nodeState[n].latest].status \in Live

CoalescesOntoSettled(n, t) == nodeState[n].latest # 0 /\ nodeState[n].desired = t

\* A request for what the newest job of the node already does, or waits to do.
Coalesces(n, t) == /\ nodeState[n].latest # 0
                   /\ nodeState[n].desired = t
                   /\ jobs[nodeState[n].latest].status \in Live

SetStatus(S, s) == [i \in DOMAIN jobs |->
                      IF i \in S THEN [jobs[i] EXCEPT !.status = s] ELSE jobs[i]]

-----------------------------------------------------------------------------
(* More wrong variants.                                                    *)

BootRewriting(p, S, s) == /\ thread[p] = "boot"
                          /\ jobs' = SetStatus(S, s)
                          /\ thread' = [thread EXCEPT ![p] = "loop"]
                          /\ UNCHANGED <<nodeState, asked, main, current>>
BootForgettingRunning(p) == BootRewriting(p, {}, "queued")
BootCancelling(p)        == BootRewriting(p, Running, "cancelled")
BootMarkingOrphaned(p)   == BootRewriting(p, Running, "orphaned")

ClaimYoungest(p) == /\ thread[p] = "loop" /\ main[p] \in {"up", "orphan"} /\ Running = {}
                    /\ \E c \in Queued : /\ \A d \in Queued : d <= c
                                         /\ jobs' = SetStatus({c}, "running")
                                         /\ current' = [current EXCEPT ![p] = c]
                    /\ thread' = [thread EXCEPT ![p] = "exec"]
                    /\ UNCHANGED <<nodeState, asked, main>>

-----------------------------------------------------------------------------
Init == /\ jobs = <<>>
        /\ nodeState = [n \in Nodes |-> [latest |-> 0, desired |-> "none"]]
        /\ asked = [n \in Nodes |-> "none"]
        /\ main = [p \in Procs |-> "down"]
        /\ thread = [p \in Procs |-> "none"]
        /\ current = [p \in Procs |-> 0]

(* The host starts a worker and sends it "start"; WorkerRuntime.run then   *)
(* starts the index worker thread. Nothing in the code keeps a second      *)
(* process out: with AllowOverlap an orphan may still be at work.          *)
Launch(p) == /\ main[p] = "down"
             /\ \A q \in Procs : IF AllowOverlap THEN main[q] # "up"
                                                 ELSE main[q] = "down"
             /\ main' = [main EXCEPT ![p] = "up"]
             /\ thread' = [thread EXCEPT ![p] = "boot"]
             /\ UNCHANGED <<store, current>>

(* The host dies or closes the pipe while the main thread is busy with a   *)
(* request: no request reaches this process any more, and its index worker *)
(* goes on until the main thread reads the end of stdin.                   *)
Orphan(p) == /\ main[p] = "up"
             /\ main' = [main EXCEPT ![p] = "orphan"]
             /\ UNCHANGED <<store, thread, current>>

(* The main thread leaves its loop (end of stdin, or "shutdown") and sets  *)
(* stop_event; the index worker thread ends its job but claims no other.   *)
Stop(p) == /\ main[p] \in {"up", "orphan"}
           /\ main' = [main EXCEPT ![p] = "stopping"]
           /\ UNCHANGED <<store, thread, current>>

(* The process is gone: after the one second join of stop(), killed by the *)
(* host, or crashed. Its threads go with it, whatever they were doing.     *)
Die(p) == /\ main[p] # "down"
          /\ main' = [main EXCEPT ![p] = "down"]
          /\ thread' = [thread EXCEPT ![p] = "none"]
          /\ current' = [current EXCEPT ![p] = 0]
          /\ UNCHANGED store

-----------------------------------------------------------------------------
(* enqueue_job, on the main thread.                                        *)
InsertJob(n, t) ==
  /\ ~Coalesces(n, t)
  /\ Len(jobs) < MaxJobs
  /\ jobs' = Append(jobs, [node |-> n, type |-> t, status |-> "queued"])
  /\ nodeState' = [nodeState EXCEPT ![n] = [latest |-> Len(jobs) + 1, desired |-> t]]

Enqueue(p, n, t) == /\ main[p] = "up"
                    /\ \/ InsertJob(n, t)
                       \/ Coalesces(n, t) /\ UNCHANGED <<jobs, nodeState>>
                    /\ asked' = [asked EXCEPT ![n] = t]
                    /\ UNCHANGED procs

(* requeue_orphaned_running_jobs: first thing the index worker thread does. *)
Boot(p) == /\ thread[p] = "boot"
           /\ jobs' = SetStatus(Running, "queued")
           /\ thread' = [thread EXCEPT ![p] = "loop"]
           /\ UNCHANGED <<nodeState, asked, main, current>>

CanClaim(p) == /\ thread[p] = "loop"
               /\ main[p] \in {"up", "orphan"}
               /\ Running = {}

(* claim_next_job takes the oldest queued job that is still wanted and     *)
(* cancels, as stale, every queued job it passes on the way.               *)
Claimed(c) == [i \in DOMAIN jobs |->
                 IF i = c THEN [jobs[i] EXCEPT !.status = "running"]
                 ELSE IF i \in Queued /\ i < c
                      THEN [jobs[i] EXCEPT !.status = "cancelled"]
                      ELSE jobs[i]]

ClaimJob(p) == /\ CanClaim(p)
               /\ \E c \in Wanted : /\ \A d \in Wanted : c <= d
                                    /\ jobs' = Claimed(c)
                                    /\ current' = [current EXCEPT ![p] = c]
               /\ thread' = [thread EXCEPT ![p] = "exec"]
               /\ UNCHANGED <<nodeState, asked, main>>

(* ... and finds none when every queued job is stale.                      *)
ClaimNone(p) == /\ CanClaim(p)
                /\ Wanted = {}
                /\ jobs' = SetStatus(Queued, "cancelled")
                /\ UNCHANGED <<nodeState, asked, procs>>

(* _run_queue_job returned or raised: mark_done or mark_failed, an UPDATE  *)
(* by id that looks at no status.                                          *)
Settle(p, s) == /\ thread[p] = "exec"
                /\ jobs' = SetStatus({current[p]}, s)
                /\ thread' = [thread EXCEPT ![p] = "loop"]
                /\ current' = [current EXCEPT ![p] = 0]
                /\ UNCHANGED <<nodeState, asked, main>>

MarkDone(p)   == Settle(p, "done")
MarkFailed(p) == Settle(p, "failed")

(* An SQLite error in a requeue, a claim or a mark leaves worker_loop,     *)
(* whose try covers the job alone: the process stays up, its index worker  *)
(* thread is gone until the next start.                                    *)
Fault(p) == /\ thread[p] # "none"
            /\ thread' = [thread EXCEPT ![p] = "none"]
            /\ current' = [current EXCEPT ![p] = 0]
            /\ UNCHANGED <<store, main>>

-----------------------------------------------------------------------------
Next == \E p \in Procs :
          \/ Launch(p) \/ Orphan(p) \/ Stop(p) \/ Die(p)
          \/ \E n \in Nodes, t \in Types : Enqueue(p, n, t)
          \/ Boot(p) \/ ClaimJob(p) \/ ClaimNone(p)
          \/ MarkDone(p) \/ MarkFailed(p) \/ Fault(p)

(* The operating system schedules the index worker thread, and every job   *)
(* returns or raises. Nothing makes the host launch, and nothing makes a   *)
(* process die or a transaction fail.                                      *)
Fairness == \A p \in Procs : /\ WF_vars(Boot(p))
                             /\ WF_vars(ClaimJob(p) \/ ClaimNone(p))
                             /\ WF_vars(MarkDone(p) \/ MarkFailed(p))

Spec     == Init /\ [][Next]_vars
FairSpec == Spec /\ Fairness

-----------------------------------------------------------------------------
TypeOK == /\ jobs \in Seq(Job)
          /\ nodeState \in [Nodes -> NodeRow]
          /\ asked \in [Nodes -> Types \cup {"none"}]
          /\ main \in [Procs -> {"down", "up", "orphan", "stopping"}]
          /\ thread \in [Procs -> {"none", "boot", "loop", "exec"}]
          /\ current \in [Procs -> Nat]

(* The claim transaction keeps a single row running, however many          *)
(* processes share the database (queue_store.py:134-182).                  *)
AtMostOneRunning == \A i, j \in Running : i = j

(* The node row points at the newest job of its node, and that job does    *)
(* what the host last asked for the node: coalescing and superseding never *)
(* lose the last word.                                                     *)
LatestIsNewest ==
  \A n \in Nodes :
    LET l == nodeState[n].latest
    IN  /\ nodeState[n].desired = asked[n]
        /\ l = 0 => asked[n] = "none"
        /\ \A i \in DOMAIN jobs : jobs[i].node = n => i <= l
        /\ l # 0 => /\ l \in DOMAIN jobs
                    /\ jobs[l].node = n
                    /\ jobs[l].type = nodeState[n].desired

(* An accepted request is not dropped: the newest job of a node is never   *)
(* cancelled as stale, whatever is claimed, requeued or settled around it. *)
NewestNeverCancelled ==
  \A n \in Nodes : nodeState[n].latest # 0 =>
                     jobs[nodeState[n].latest].status # "cancelled"

(* A running row has a thread that executes it, unless no index worker has *)
(* booted since its process died. Otherwise claim_next_job would find a    *)
(* running job for ever and the queue would stand still.                   *)
RunningIsHeld ==
  \A i \in Running : \/ \E p \in Procs : thread[p] = "exec" /\ current[p] = i
                     \/ \A p \in Procs : thread[p] \in {"none", "boot"}

(* A job that was done, failed or cancelled is never taken up again.       *)
KeepsSettled == \A i \in DOMAIN jobs : jobs[i].status \notin Live => jobs'[i] = jobs[i]
SettledStaysSettled == [][KeepsSettled]_vars

(* A job starts only as the newest job of its node, before every younger   *)
(* job that is the newest of its own: no superseded work runs and no node  *)
(* is passed over by a later one.                                          *)
IsNewest(i) == \A j \in DOMAIN jobs : jobs[j].node = jobs[i].node => j <= i
StartsOldest == \A i \in Running' \ Running :
  IsNewest(i) /\ \A j \in Queued : j # i /\ IsNewest(j) => i < j
StartsOldestWanted == [][StartsOldest]_vars

(* While some worker process stays up with its index worker thread, every  *)
(* queued or interrupted job ends; a job left running by a dead process is *)
(* taken up again.                                                         *)
WorkerUp == \E p \in Procs : main[p] = "up" /\ thread[p] # "none"
IsLive(i) == i \in DOMAIN jobs /\ jobs[i].status \in Live
JobsEnd == <>[]WorkerUp => \A i \in 1..MaxJobs : IsLive(i) ~> ~IsLive(i)

-----------------------------------------------------------------------------
(* The queue implements IndexIntent: the waiting request of a node is its  *)
(* newest job while that is queued, the slot is the running row.           *)
PendingOf(n) ==
  IF nodeState[n].latest \in Queued THEN nodeState[n].desired ELSE "none"

SlotOf == {[node |-> jobs[i].node, type |-> jobs[i].type] : i \in Running}

Intent == INSTANCE IndexIntent WITH pending <- [n \in Nodes |-> PendingOf(n)],
                                    slot <- SlotOf,
                                    None <- "none"
ImplementsIntent == Intent!Spec
=============================================================================
