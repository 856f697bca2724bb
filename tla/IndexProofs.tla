----------------------------- MODULE IndexProofs -----------------------------
(***************************************************************************)
(* Proofs about IndexQueue and IndexPipeline, for every set of nodes and   *)
(* worker processes and every number of jobs and edits. The first part is  *)
(* about the queue alone: one row runs at most, the newest wins, a settled *)
(* job is final, and the queue implements IndexIntent. In the second part, *)
(* a crash or an error between two stores leaves no two of them with rows  *)
(* of different versions, and a newest job that is done left all of them   *)
(* complete, and an index of what the disk holds, unless a request failed  *)
(* or was absorbed by a job that had read the file before. What needs that *)
(* a process starts only when no other is left says so (AllowOverlap =     *)
(* FALSE).                                                                 *)
(***************************************************************************)
EXTENDS IndexPipeline, TLAPS

-----------------------------------------------------------------------------
(* A table rewritten row by row keeps its ids and its type.                *)
LEMMA RewrittenTable ==
  ASSUME NEW S, NEW s \in Seq(S), NEW f, f = [i \in DOMAIN s |-> f[i]],
         \A i \in DOMAIN s : f[i] \in S
  PROVE  f \in Seq(S) /\ Len(f) = Len(s) /\ DOMAIN f = DOMAIN s
<1>1. DOMAIN s = 1..Len(s) /\ Len(s) \in Nat
  OBVIOUS
<1>2. DOMAIN f = 1..Len(s)
  BY <1>1
<1>3. f \in [1..Len(s) -> S]
  BY <1>1, <1>2
<1>4. QED
  BY <1>1, <1>3

(* SetStatus writes one status in the chosen rows and leaves the others.   *)
LEMMA SetStatusRows ==
  ASSUME jobs \in Seq(Job), NEW S, NEW st \in Status
  PROVE  /\ SetStatus(S, st) \in Seq(Job)
         /\ Len(SetStatus(S, st)) = Len(jobs)
         /\ DOMAIN SetStatus(S, st) = DOMAIN jobs
         /\ \A i \in DOMAIN jobs :
              /\ SetStatus(S, st)[i].node = jobs[i].node
              /\ SetStatus(S, st)[i].type = jobs[i].type
              /\ i \in S => SetStatus(S, st)[i].status = st
              /\ i \notin S => SetStatus(S, st)[i] = jobs[i]
<1> DEFINE f == SetStatus(S, st)
<1>1. \A i \in DOMAIN jobs : jobs[i] \in Job
  OBVIOUS
<1>2. f = [i \in DOMAIN jobs |-> f[i]]
  BY DEF SetStatus
<1>3. \A i \in DOMAIN jobs :
        f[i] = IF i \in S THEN [jobs[i] EXCEPT !.status = st] ELSE jobs[i]
  BY DEF SetStatus
<1>4. \A i \in DOMAIN jobs : f[i] \in Job
  BY <1>1, <1>3 DEF Job
<1>5. f \in Seq(Job) /\ Len(f) = Len(jobs) /\ DOMAIN f = DOMAIN jobs
  <2> HIDE DEF f
  <2> QED BY <1>2, <1>4, RewrittenTable
<1>6. QED
  BY <1>1, <1>3, <1>5 DEF Job

(* claim_next_job marks one row running, cancels queued rows before it     *)
(* and touches no other.                                                   *)
LEMMA ClaimedRows ==
  ASSUME jobs \in Seq(Job), NEW c \in Wanted
  PROVE  /\ Claimed(c) \in Seq(Job)
         /\ Len(Claimed(c)) = Len(jobs)
         /\ DOMAIN Claimed(c) = DOMAIN jobs
         /\ c \in DOMAIN jobs /\ jobs[c].status = "queued"
         /\ Claimed(c)[c].status = "running"
         /\ \A i \in DOMAIN jobs :
              /\ Claimed(c)[i].node = jobs[i].node
              /\ Claimed(c)[i].type = jobs[i].type
              /\ i # c /\ i \in Queued /\ i < c => Claimed(c)[i].status = "cancelled"
              /\ i # c /\ ~(i \in Queued /\ i < c) => Claimed(c)[i] = jobs[i]
<1> DEFINE f == Claimed(c)
<1>1. \A i \in DOMAIN jobs : jobs[i] \in Job
  OBVIOUS
<1>2. c \in DOMAIN jobs /\ jobs[c].status = "queued"
  BY DEF Wanted, Queued
<1>3. \A i \in DOMAIN jobs :
        f[i] = IF i = c THEN [jobs[i] EXCEPT !.status = "running"]
               ELSE IF i \in Queued /\ i < c
                    THEN [jobs[i] EXCEPT !.status = "cancelled"]
                    ELSE jobs[i]
  BY DEF Claimed
<1>4. f = [i \in DOMAIN jobs |-> f[i]]
  BY DEF Claimed
<1>5. \A i \in DOMAIN jobs : f[i] \in Job
  BY <1>1, <1>3 DEF Job, Status, Live
<1>6. f \in Seq(Job) /\ Len(f) = Len(jobs) /\ DOMAIN f = DOMAIN jobs
  <2> HIDE DEF f
  <2> QED BY <1>4, <1>5, RewrittenTable
<1>7. QED
  BY <1>1, <1>2, <1>3, <1>6 DEF Job

(* A fresh row goes behind the others.                                     *)
LEMMA InsertedRow ==
  ASSUME jobs \in Seq(Job), NEW n \in Nodes, NEW t \in Types,
         jobs' = Append(jobs, [node |-> n, type |-> t, status |-> "queued"])
  PROVE  /\ jobs' \in Seq(Job)
         /\ Len(jobs) \in Nat
         /\ Len(jobs') = Len(jobs) + 1
         /\ DOMAIN jobs = 1..Len(jobs)
         /\ DOMAIN jobs' = 1..(Len(jobs) + 1)
         /\ \A i \in DOMAIN jobs : jobs'[i] = jobs[i]
         /\ jobs'[Len(jobs) + 1] = [node |-> n, type |-> t, status |-> "queued"]
<1> DEFINE r == [node |-> n, type |-> t, status |-> "queued"]
<1>1. r \in Job
  BY DEF Job, Status, Live
<1> HIDE DEF r
<1>2. Append(jobs, r) \in Seq(Job) /\ Len(Append(jobs, r)) = Len(jobs) + 1
  BY <1>1
<1>3. QED
  BY <1>1, <1>2 DEF r

-----------------------------------------------------------------------------
(* Every reachable state is well typed: in particular no job row leaves    *)
(* the states the table's CHECK constraint admits.                         *)
LEMMA TypeStep == TypeOK /\ [Next]_vars => TypeOK'
<1> SUFFICES ASSUME TypeOK, [Next]_vars PROVE TypeOK'
  OBVIOUS
<1> USE DEF TypeOK, store, procs
<1>1. CASE UNCHANGED vars
  BY <1>1 DEF vars
<1>2. ASSUME NEW p \in Procs, Launch(p) PROVE TypeOK'
  BY <1>2 DEF Launch
<1>3. ASSUME NEW p \in Procs, Orphan(p) PROVE TypeOK'
  BY <1>3 DEF Orphan
<1>4. ASSUME NEW p \in Procs, Stop(p) PROVE TypeOK'
  BY <1>4 DEF Stop
<1>5. ASSUME NEW p \in Procs, Die(p) PROVE TypeOK'
  BY <1>5 DEF Die
<1>6. ASSUME NEW p \in Procs, NEW n \in Nodes, NEW t \in Types, Enqueue(p, n, t)
      PROVE  TypeOK'
  <2>1. CASE InsertJob(n, t)
    <3>1. jobs' \in Seq(Job) /\ Len(jobs) + 1 \in Nat
      BY <2>1, InsertedRow DEF InsertJob
    <3>2. nodeState' \in [Nodes -> NodeRow]
      BY <2>1, <3>1 DEF InsertJob, NodeRow
    <3>3. QED
      BY <1>6, <3>1, <3>2 DEF Enqueue
  <2>2. CASE UNCHANGED <<jobs, nodeState>>
    BY <1>6, <2>2 DEF Enqueue
  <2>3. QED
    BY <1>6, <2>1, <2>2 DEF Enqueue
<1>7. ASSUME NEW p \in Procs, Boot(p) PROVE TypeOK'
  <2>1. jobs' \in Seq(Job)
    BY <1>7, SetStatusRows DEF Boot, Status, Live
  <2>2. QED
    BY <1>7, <2>1 DEF Boot
<1>8. ASSUME NEW p \in Procs, ClaimJob(p) PROVE TypeOK'
  <2>1. PICK c \in Wanted : jobs' = Claimed(c) /\ current' = [current EXCEPT ![p] = c]
    BY <1>8 DEF ClaimJob
  <2>2. jobs' \in Seq(Job) /\ c \in DOMAIN jobs
    BY <2>1, ClaimedRows
  <2>3. c \in Nat
    BY <2>2
  <2>4. QED
    BY <1>8, <2>1, <2>2, <2>3 DEF ClaimJob
<1>9. ASSUME NEW p \in Procs, ClaimNone(p) PROVE TypeOK'
  <2>1. jobs' \in Seq(Job)
    BY <1>9, SetStatusRows DEF ClaimNone, Status, Live
  <2>2. QED
    BY <1>9, <2>1 DEF ClaimNone
<1>10. ASSUME NEW p \in Procs, NEW s \in {"done", "failed"}, Settle(p, s) PROVE TypeOK'
  <2>1. jobs' \in Seq(Job)
    BY <1>10, SetStatusRows DEF Settle, Status, Live
  <2>2. QED
    BY <1>10, <2>1 DEF Settle
<1>11. ASSUME NEW p \in Procs, Fault(p) PROVE TypeOK'
  BY <1>11 DEF Fault
<1>12. QED
  BY <1>1, <1>2, <1>3, <1>4, <1>5, <1>6, <1>7, <1>8, <1>9, <1>10, <1>11
     DEF Next, MarkDone, MarkFailed

THEOREM TypeCorrect == Spec => []TypeOK
<1>1. Init => TypeOK
  BY DEF Init, TypeOK, NodeRow
<1>2. QED
  BY <1>1, TypeStep, PTL DEF Spec

-----------------------------------------------------------------------------
(* However many processes share the database, the claim transaction keeps  *)
(* a single job running.                                                   *)
THEOREM OneRunning == Spec => []AtMostOneRunning
<1>1. Init => AtMostOneRunning
  BY DEF Init, AtMostOneRunning, Running
<1>2. TypeOK /\ AtMostOneRunning /\ [Next]_vars => AtMostOneRunning'
  <2> SUFFICES ASSUME TypeOK, AtMostOneRunning, [Next]_vars PROVE AtMostOneRunning'
    OBVIOUS
  <2> USE DEF store, procs
  <2>1. jobs \in Seq(Job)
    BY DEF TypeOK
  <2>2. CASE UNCHANGED jobs
    BY <2>2 DEF AtMostOneRunning, Running
  <2>3. ASSUME NEW n \in Nodes, NEW t \in Types, InsertJob(n, t)
        PROVE  AtMostOneRunning'
    <3>1. /\ DOMAIN jobs' = DOMAIN jobs \cup {Len(jobs) + 1}
          /\ \A i \in DOMAIN jobs : jobs'[i] = jobs[i]
          /\ jobs'[Len(jobs) + 1].status = "queued"
      BY <2>1, <2>3, InsertedRow DEF InsertJob
    <3>2. Running' \subseteq Running
      BY <3>1 DEF Running
    <3>3. QED
      BY <3>2 DEF AtMostOneRunning
  <2>4. ASSUME NEW S, NEW s \in Status \ {"running"}, jobs' = SetStatus(S, s)
        PROVE  AtMostOneRunning'
    <3>1. Running' \subseteq Running
      BY <2>1, <2>4, SetStatusRows DEF Running
    <3>2. QED
      BY <3>1 DEF AtMostOneRunning
  <2>5. ASSUME NEW p \in Procs, ClaimJob(p) PROVE AtMostOneRunning'
    <3>1. PICK c \in Wanted : jobs' = Claimed(c)
      BY <2>5 DEF ClaimJob
    <3>2. Running = {}
      BY <2>5 DEF ClaimJob, CanClaim
    <3>3. \A i \in DOMAIN jobs' : i # c => jobs'[i].status # "running"
      BY <2>1, <3>1, <3>2, ClaimedRows DEF Running
    <3>4. QED
      BY <3>3 DEF AtMostOneRunning, Running
  <2>6. QED
    BY <2>2, <2>3, <2>4, <2>5
       DEF Next, vars, Launch, Orphan, Stop, Die, Enqueue, Boot, ClaimNone,
           MarkDone, MarkFailed, Settle, Fault, Status, Live
<1>3. QED
  BY <1>1, <1>2, TypeCorrect, PTL DEF Spec

-----------------------------------------------------------------------------
(* LatestIsNewest is the reason why the newest job of a node is never      *)
(* stale, and so never cancelled by a claim that passes over it.           *)
NewestInv == LatestIsNewest /\ NewestNeverCancelled

LEMMA NewestIsWanted ==
  ASSUME jobs \in Seq(Job), LatestIsNewest, NEW n \in Nodes, nodeState[n].latest \in Queued
  PROVE  nodeState[n].latest \in Wanted
<1>1. nodeState[n].latest \in 1..Len(jobs) /\ nodeState[n].latest # 0
  BY DEF Queued
<1>2. QED
  BY <1>1 DEF LatestIsNewest, Wanted, Stale

(* Rewriting rows without touching node or type keeps LatestIsNewest.      *)
LEMMA RewriteKeepsLatest ==
  ASSUME LatestIsNewest, UNCHANGED <<nodeState, asked>>,
         DOMAIN jobs' = DOMAIN jobs,
         \A i \in DOMAIN jobs : jobs'[i].node = jobs[i].node /\ jobs'[i].type = jobs[i].type
  PROVE  LatestIsNewest'
BY DEF LatestIsNewest

(* The host's last word for a node is what its newest job does, and that   *)
(* job is never dropped, in any interleaving of any number of processes.   *)
THEOREM NewestWins == Spec => [](LatestIsNewest /\ NewestNeverCancelled)
<1>1. Init => NewestInv
  BY DEF Init, NewestInv, LatestIsNewest, NewestNeverCancelled
<1>2. TypeOK /\ NewestInv /\ [Next]_vars => NewestInv'
  <2> SUFFICES ASSUME TypeOK, NewestInv, [Next]_vars PROVE NewestInv'
    OBVIOUS
  <2> USE DEF store, procs
  <2>1. /\ jobs \in Seq(Job)
        /\ nodeState \in [Nodes -> NodeRow]
        /\ asked \in [Nodes -> Types \cup {"none"}]
        /\ LatestIsNewest /\ NewestNeverCancelled
    BY DEF TypeOK, NewestInv
  <2>2. CASE UNCHANGED store
    BY <2>2 DEF NewestInv, LatestIsNewest, NewestNeverCancelled
  <2>3. ASSUME NEW p \in Procs, NEW n \in Nodes, NEW t \in Types, Enqueue(p, n, t)
        PROVE  NewestInv'
    <3>1. CASE InsertJob(n, t)
      <4>1. /\ Len(jobs) \in Nat
            /\ DOMAIN jobs = 1..Len(jobs)
            /\ DOMAIN jobs' = 1..(Len(jobs) + 1)
            /\ \A i \in DOMAIN jobs : jobs'[i] = jobs[i]
            /\ jobs'[Len(jobs) + 1] = [node |-> n, type |-> t, status |-> "queued"]
        BY <2>1, <3>1, InsertedRow DEF InsertJob
      <4>2. /\ nodeState'[n] = [latest |-> Len(jobs) + 1, desired |-> t]
            /\ asked'[n] = t
            /\ \A m \in Nodes \ {n} : nodeState'[m] = nodeState[m] /\ asked'[m] = asked[m]
        BY <2>1, <2>3, <3>1 DEF InsertJob, Enqueue
      <4>3. LatestIsNewest'
        <5>1. SUFFICES ASSUME NEW m \in Nodes
                       PROVE  LET l == nodeState'[m].latest
                              IN  /\ nodeState'[m].desired = asked'[m]
                                  /\ l = 0 => asked'[m] = "none"
                                  /\ \A i \in DOMAIN jobs' : jobs'[i].node = m => i <= l
                                  /\ l # 0 => /\ l \in DOMAIN jobs'
                                              /\ jobs'[l].node = m
                                              /\ jobs'[l].type = nodeState'[m].desired
          BY DEF LatestIsNewest
        <5>2. CASE m = n
          BY <4>1, <4>2, <5>2
        <5>3. CASE m # n
          BY <2>1, <4>1, <4>2, <5>3 DEF LatestIsNewest
        <5>4. QED
          BY <5>2, <5>3
      <4>4. NewestNeverCancelled'
        BY <2>1, <4>1, <4>2 DEF NewestNeverCancelled, LatestIsNewest
      <4>5. QED
        BY <4>3, <4>4 DEF NewestInv
    <3>2. CASE Coalesces(n, t) /\ UNCHANGED <<jobs, nodeState>>
      <4>1. asked' = asked
        BY <2>1, <2>3, <3>2 DEF Enqueue, Coalesces, LatestIsNewest
      <4>2. QED
        BY <2>1, <3>2, <4>1 DEF NewestInv, LatestIsNewest, NewestNeverCancelled
    <3>3. QED
      BY <2>3, <3>1, <3>2 DEF Enqueue
  <2>4. ASSUME NEW S, NEW s \in Status, jobs' = SetStatus(S, s), UNCHANGED <<nodeState, asked>>,
               s = "cancelled" => S \cap Wanted = {} /\ S \subseteq Queued
        PROVE  NewestInv'
    <3>1. LatestIsNewest'
      BY <2>1, <2>4, SetStatusRows, RewriteKeepsLatest
    <3>2. NewestNeverCancelled'
      BY <2>1, <2>4, SetStatusRows, NewestIsWanted DEF NewestNeverCancelled, LatestIsNewest
    <3>3. QED
      BY <3>1, <3>2 DEF NewestInv
  <2>5. ASSUME NEW p \in Procs, ClaimJob(p) PROVE NewestInv'
    <3>1. PICK c \in Wanted : jobs' = Claimed(c) /\ \A d \in Wanted : c <= d
      BY <2>5 DEF ClaimJob
    <3>2. UNCHANGED <<nodeState, asked>>
      BY <2>5 DEF ClaimJob
    <3>3. LatestIsNewest'
      BY <2>1, <3>1, <3>2, ClaimedRows, RewriteKeepsLatest
    <3>4. ASSUME NEW n \in Nodes, nodeState[n].latest # 0
          PROVE  jobs'[nodeState[n].latest].status # "cancelled"
      <4> DEFINE l == nodeState[n].latest
      <4>1. l \in DOMAIN jobs /\ jobs[l].status # "cancelled"
        BY <2>1, <3>4 DEF LatestIsNewest, NewestNeverCancelled
      <4>2. c \in Nat /\ l \in Nat
        BY <2>1, <3>1, <4>1, ClaimedRows
      <4>3. ~(l \in Queued /\ l < c)
        BY <2>1, <3>1, <4>2, NewestIsWanted
      <4>4. QED
        BY <2>1, <3>1, <4>1, <4>3, ClaimedRows
    <3>5. QED
      BY <3>2, <3>3, <3>4 DEF NewestInv, NewestNeverCancelled
  <2>6. ASSUME NEW p \in Procs, ClaimNone(p) PROVE NewestInv'
    BY <2>4, <2>6 DEF ClaimNone, Status
  <2>7. ASSUME NEW p \in Procs, Boot(p) PROVE NewestInv'
    BY <2>4, <2>7 DEF Boot, Status, Live
  <2>8. ASSUME NEW p \in Procs, NEW s \in {"done", "failed"}, Settle(p, s) PROVE NewestInv'
    BY <2>4, <2>8 DEF Settle, Status
  <2>9. QED
    BY <2>2, <2>3, <2>5, <2>6, <2>7, <2>8
       DEF Next, vars, Launch, Orphan, Stop, Die, MarkDone, MarkFailed, Fault
<1>3. QED
  BY <1>1, <1>2, TypeCorrect, PTL DEF Spec, NewestInv

-----------------------------------------------------------------------------
(* A queued job is wanted exactly when it is the newest of its node.       *)
LEMMA WantedIsNewest ==
  ASSUME jobs \in Seq(Job), LatestIsNewest, NEW i \in Queued
  PROVE  i \in Wanted <=> IsNewest(i)
<1> DEFINE n == jobs[i].node
           l == nodeState[n].latest
<1>0. i \in DOMAIN jobs /\ DOMAIN jobs = 1..Len(jobs)
  BY DEF Queued
<1>1. i \in 1..Len(jobs) /\ jobs[i] \in Job /\ n \in Nodes
  <2>1. jobs[i] \in Job
    BY <1>0
  <2>2. QED
    BY <1>0, <2>1 DEF Job
<1>2. i <= l /\ l \in DOMAIN jobs /\ jobs[l].node = n /\ jobs[l].type = nodeState[n].desired
  BY <1>1 DEF LatestIsNewest
<1>3. CASE l = i
  BY <1>1, <1>2, <1>3 DEF Wanted, Stale, IsNewest, LatestIsNewest
<1>4. CASE l # i
  BY <1>1, <1>2, <1>4 DEF Wanted, Stale, IsNewest
<1>5. QED
  BY <1>3, <1>4

(* A job starts only as the newest job of its node and before every other  *)
(* newest job that waits.                                                  *)
THEOREM OldestStarts == Spec => StartsOldestWanted
<1>1. TypeOK /\ LatestIsNewest /\ [Next]_vars => [StartsOldest]_vars
  <2> SUFFICES ASSUME TypeOK, LatestIsNewest, Next, NEW i \in Running' \ Running
               PROVE  IsNewest(i) /\ \A j \in Queued : j # i /\ IsNewest(j) => i < j
    BY DEF StartsOldest
  <2> USE DEF store, procs
  <2>1. jobs \in Seq(Job)
    BY DEF TypeOK
  <2>2. jobs' # jobs
    BY DEF Running
  <2>3. ASSUME NEW n \in Nodes, NEW t \in Types, InsertJob(n, t) PROVE FALSE
    <3>1. /\ Len(jobs) \in Nat
          /\ DOMAIN jobs = 1..Len(jobs)
          /\ DOMAIN jobs' = 1..(Len(jobs) + 1)
          /\ \A k \in DOMAIN jobs : jobs'[k] = jobs[k]
          /\ jobs'[Len(jobs) + 1].status = "queued"
      BY <2>1, <2>3, InsertedRow DEF InsertJob
    <3>2. QED
      BY <3>1 DEF Running
  <2>4. ASSUME NEW S, NEW s \in Status \ {"running"}, jobs' = SetStatus(S, s) PROVE FALSE
    BY <2>1, <2>4, SetStatusRows DEF Running
  <2>5. PICK p \in Procs : ClaimJob(p)
    BY <2>2, <2>3, <2>4
       DEF Next, Launch, Orphan, Stop, Die, Enqueue, Boot, ClaimNone,
           MarkDone, MarkFailed, Settle, Fault, Status, Live
  <2>6. PICK c \in Wanted : jobs' = Claimed(c) /\ \A d \in Wanted : c <= d
    BY <2>5 DEF ClaimJob
  <2>7. i = c
    BY <2>1, <2>6, ClaimedRows DEF Running
  <2>8. IsNewest(c)
    BY <2>1, <2>6, WantedIsNewest DEF Wanted
  <2>9. ASSUME NEW j \in Queued, j # c, IsNewest(j) PROVE c < j
    <3>1. j \in Wanted
      BY <2>1, <2>9, WantedIsNewest
    <3>2. j \in Nat /\ c \in Nat
      BY <2>1, <2>6, <3>1 DEF Wanted, Queued
    <3>3. QED
      BY <2>6, <2>9, <3>1, <3>2
  <2>10. QED
    BY <2>7, <2>8, <2>9
<1>2. QED
  BY <1>1, TypeCorrect, NewestWins, PTL DEF Spec, StartsOldestWanted

-----------------------------------------------------------------------------
(* One worker process at a time, as the host runs it. What keeps a running *)
(* row held by its thread is that there is one process, whose thread       *)
(* executes the running job, and that the live jobs are the tail of the    *)
(* table with the running one in front: a superseded job that a crash      *)
(* interrupted always has its successor still waiting behind it.           *)
OneProcess == \A p, q \in Procs : main[p] # "down" /\ main[q] # "down" => p = q

ThreadsHold == \A p \in Procs : /\ main[p] = "down" => thread[p] = "none"
                                /\ thread[p] = "exec" => current[p] \in Running

LiveTail == \A i, j \in DOMAIN jobs :
              i < j /\ jobs[i].status \in Live => /\ jobs[j].status \in Live
                                                 /\ j \notin Running

ExclusiveInv == OneProcess /\ ThreadsHold /\ RunningIsHeld /\ LiveTail

LEMMA ExclusiveStep ==
  ASSUME AllowOverlap = FALSE
  PROVE  TypeOK /\ ExclusiveInv /\ [Next]_vars => ExclusiveInv'
<1> SUFFICES ASSUME TypeOK, ExclusiveInv, [Next]_vars PROVE ExclusiveInv'
  OBVIOUS
<1> USE DEF store, procs
<1>a. /\ jobs \in Seq(Job)
      /\ main \in [Procs -> {"down", "up", "orphan", "stopping"}]
      /\ thread \in [Procs -> {"none", "boot", "loop", "exec"}]
      /\ current \in [Procs -> Nat]
      /\ OneProcess /\ ThreadsHold /\ RunningIsHeld /\ LiveTail
  BY DEF TypeOK, ExclusiveInv
<1>b. jobs' = jobs => Running' = Running /\ LiveTail'
  BY <1>a DEF Running, LiveTail
<1>1. CASE UNCHANGED vars
  BY <1>a, <1>b, <1>1 DEF vars, ExclusiveInv, OneProcess, ThreadsHold, RunningIsHeld
<1>2. ASSUME NEW p \in Procs, Launch(p) PROVE ExclusiveInv'
  BY <1>a, <1>b, <1>2 DEF Launch, ExclusiveInv, OneProcess, ThreadsHold, RunningIsHeld
<1>3. ASSUME NEW p \in Procs, Orphan(p) PROVE ExclusiveInv'
  BY <1>a, <1>b, <1>3 DEF Orphan, ExclusiveInv, OneProcess, ThreadsHold, RunningIsHeld
<1>4. ASSUME NEW p \in Procs, Stop(p) PROVE ExclusiveInv'
  BY <1>a, <1>b, <1>4 DEF Stop, ExclusiveInv, OneProcess, ThreadsHold, RunningIsHeld
<1>5. ASSUME NEW p \in Procs, Die(p) PROVE ExclusiveInv'
  <2>1. OneProcess' /\ ThreadsHold'
    BY <1>a, <1>b, <1>5 DEF Die, OneProcess, ThreadsHold
  <2>2. \A q \in Procs : thread'[q] = "none"
    BY <1>a, <1>5 DEF Die, OneProcess, ThreadsHold
  <2>3. QED
    BY <1>b, <1>5, <2>1, <2>2 DEF Die, ExclusiveInv, RunningIsHeld
<1>6. ASSUME NEW p \in Procs, NEW n \in Nodes, NEW t \in Types, Enqueue(p, n, t)
      PROVE  ExclusiveInv'
  <2>1. CASE InsertJob(n, t)
    <3>1. /\ Len(jobs) \in Nat
          /\ DOMAIN jobs = 1..Len(jobs)
          /\ DOMAIN jobs' = 1..(Len(jobs) + 1)
          /\ \A i \in DOMAIN jobs : jobs'[i] = jobs[i]
          /\ jobs'[Len(jobs) + 1].status = "queued"
      BY <1>a, <2>1, InsertedRow DEF InsertJob
    <3>2. Running' = Running
      BY <3>1 DEF Running
    <3>3. LiveTail'
      BY <1>a, <3>1, <3>2 DEF LiveTail, Running, Live
    <3>4. QED
      BY <1>a, <1>6, <3>2, <3>3
         DEF Enqueue, ExclusiveInv, OneProcess, ThreadsHold, RunningIsHeld
  <2>2. CASE UNCHANGED <<jobs, nodeState>>
    BY <1>a, <1>b, <1>6, <2>2
       DEF Enqueue, ExclusiveInv, OneProcess, ThreadsHold, RunningIsHeld
  <2>3. QED
    BY <1>6, <2>1, <2>2 DEF Enqueue
<1>7. ASSUME NEW p \in Procs, Boot(p) PROVE ExclusiveInv'
  <2>1. /\ DOMAIN jobs' = DOMAIN jobs
        /\ \A i \in DOMAIN jobs :
             /\ i \in Running => jobs'[i].status = "queued"
             /\ i \notin Running => jobs'[i] = jobs[i]
    BY <1>a, <1>7, SetStatusRows DEF Boot, Status, Live
  <2>2. Running' = {}
    BY <2>1 DEF Running
  <2>3. LiveTail'
    BY <1>a, <2>1, <2>2 DEF LiveTail, Running, Live
  <2>4. \A q \in Procs : q # p => thread[q] = "none"
    BY <1>a, <1>7 DEF Boot, OneProcess, ThreadsHold
  <2>5. QED
    BY <1>a, <1>7, <2>2, <2>3, <2>4
       DEF Boot, ExclusiveInv, OneProcess, ThreadsHold, RunningIsHeld
<1>8. ASSUME NEW p \in Procs, ClaimJob(p) PROVE ExclusiveInv'
  <2>1. PICK c \in Wanted : jobs' = Claimed(c) /\ current' = [current EXCEPT ![p] = c]
    BY <1>8 DEF ClaimJob
  <2>2. /\ DOMAIN jobs' = DOMAIN jobs
        /\ c \in DOMAIN jobs /\ jobs[c].status = "queued" /\ jobs'[c].status = "running"
        /\ \A i \in DOMAIN jobs :
             /\ i # c /\ i \in Queued /\ i < c => jobs'[i].status = "cancelled"
             /\ i # c /\ ~(i \in Queued /\ i < c) => jobs'[i] = jobs[i]
    BY <1>a, <2>1, ClaimedRows
  <2>3. DOMAIN jobs \subseteq Nat
    BY <1>a
  <2>4. Running = {}
    BY <1>8 DEF ClaimJob, CanClaim
  <2>5. Running' = {c}
    BY <2>2, <2>4 DEF Running
  <2>6. LiveTail'
    <3>1. \A i \in DOMAIN jobs : jobs[i].status \in Live => i \in Queued
      BY <2>4 DEF Live, Queued, Running
    <3>2. \A i \in DOMAIN jobs : jobs'[i].status \in Live => i \in Queued /\ c <= i
      BY <2>2, <2>3, <3>1 DEF Live, Queued
    <3>3. \A i \in DOMAIN jobs : i \in Queued /\ c <= i => jobs'[i].status \in Live
      BY <2>2, <2>3 DEF Live, Queued
    <3>4. \A i, j \in DOMAIN jobs : i < j /\ i \in Queued => j \in Queued
      BY <1>a, <3>1 DEF LiveTail, Live, Queued
    <3>5. QED
      BY <2>2, <2>3, <2>5, <3>2, <3>3, <3>4 DEF LiveTail
  <2>7. OneProcess' /\ ThreadsHold'
    BY <1>a, <1>8, <2>1, <2>5 DEF ClaimJob, CanClaim, OneProcess, ThreadsHold
  <2>8. QED
    BY <1>a, <1>8, <2>1, <2>5, <2>6, <2>7 DEF ClaimJob, ExclusiveInv, RunningIsHeld
<1>9. ASSUME NEW p \in Procs, ClaimNone(p) PROVE ExclusiveInv'
  <2>1. /\ DOMAIN jobs' = DOMAIN jobs
        /\ \A i \in DOMAIN jobs :
             /\ i \in Queued => jobs'[i].status = "cancelled"
             /\ i \notin Queued => jobs'[i] = jobs[i]
    BY <1>a, <1>9, SetStatusRows DEF ClaimNone, Status
  <2>2. Running = {}
    BY <1>9 DEF ClaimNone, CanClaim
  <2>3. \A i \in DOMAIN jobs : jobs'[i].status \notin Live
    BY <2>1, <2>2 DEF Running, Queued, Live
  <2>4. Running' = {} /\ LiveTail'
    BY <2>1, <2>3 DEF Running, LiveTail, Live
  <2>5. QED
    BY <1>a, <1>9, <2>2, <2>4
       DEF ClaimNone, ExclusiveInv, OneProcess, ThreadsHold, RunningIsHeld
<1>10. ASSUME NEW p \in Procs, NEW s \in {"done", "failed"}, Settle(p, s)
       PROVE  ExclusiveInv'
  <2>1. current[p] \in Running
    BY <1>a, <1>10 DEF Settle, ThreadsHold
  <2>2. /\ DOMAIN jobs' = DOMAIN jobs
        /\ \A i \in DOMAIN jobs :
             /\ i = current[p] => jobs'[i].status = s
             /\ i # current[p] => jobs'[i] = jobs[i]
    BY <1>a, <1>10, SetStatusRows DEF Settle, Status
  <2>3. \A q \in Procs : q # p => thread[q] = "none"
    BY <1>a, <1>10 DEF Settle, OneProcess, ThreadsHold
  <2>4. Running = {current[p]}
    BY <1>a, <1>10, <2>1, <2>3 DEF Settle, RunningIsHeld
  <2>5. Running' = {}
    BY <2>2, <2>4 DEF Running
  <2>6. LiveTail'
    <3>1. DOMAIN jobs \subseteq Nat
      BY <1>a
    <3>2. \A i \in DOMAIN jobs : jobs'[i].status \in Live
                                => i # current[p] /\ jobs[i].status \in Live
      BY <2>2 DEF Live
    <3>3. \A i \in DOMAIN jobs : i # current[p] /\ jobs[i].status \in Live => current[p] < i
      BY <1>a, <2>1, <3>1 DEF LiveTail, Running
    <3>4. QED
      BY <1>a, <2>2, <2>5, <3>1, <3>2, <3>3 DEF LiveTail
  <2>7. QED
    BY <1>a, <1>10, <2>3, <2>5, <2>6
       DEF Settle, ExclusiveInv, OneProcess, ThreadsHold, RunningIsHeld
<1>11. ASSUME NEW p \in Procs, Fault(p) PROVE ExclusiveInv'
  <2>1. OneProcess' /\ ThreadsHold'
    BY <1>a, <1>b, <1>11 DEF Fault, OneProcess, ThreadsHold
  <2>2. \A q \in Procs : thread'[q] = "none"
    BY <1>a, <1>11 DEF Fault, OneProcess, ThreadsHold
  <2>3. QED
    BY <1>b, <1>11, <2>1, <2>2 DEF Fault, ExclusiveInv, RunningIsHeld
<1>12. QED
  BY <1>1, <1>2, <1>3, <1>4, <1>5, <1>6, <1>7, <1>8, <1>9, <1>10, <1>11
     DEF Next, MarkDone, MarkFailed

LEMMA Exclusive ==
  ASSUME AllowOverlap = FALSE
  PROVE  Spec => []ExclusiveInv
<1>1. Init => ExclusiveInv
  BY DEF Init, ExclusiveInv, OneProcess, ThreadsHold, RunningIsHeld, LiveTail, Running
<1>2. QED
  BY <1>1, ExclusiveStep, TypeCorrect, PTL DEF Spec

(* One process at a time: a running row always has its thread, or waits    *)
(* for the next boot, so that no claim is blocked for ever.                *)
THEOREM NoPhantomRunning ==
  ASSUME AllowOverlap = FALSE
  PROVE  Spec => []RunningIsHeld
<1>1. ExclusiveInv => RunningIsHeld
  BY DEF ExclusiveInv
<1>2. QED
  BY <1>1, Exclusive, PTL

(* One process at a time: no settled job is ever taken up again.           *)
THEOREM SettledIsFinal ==
  ASSUME AllowOverlap = FALSE
  PROVE  Spec => SettledStaysSettled
<1>1. TypeOK /\ ExclusiveInv /\ [Next]_vars => [KeepsSettled]_vars
  <2> SUFFICES ASSUME TypeOK, ExclusiveInv, Next,
                      NEW i \in DOMAIN jobs, jobs[i].status \notin Live
               PROVE  jobs'[i] = jobs[i]
    BY DEF KeepsSettled
  <2> USE DEF store, procs
  <2>1. jobs \in Seq(Job)
    BY DEF TypeOK
  <2>2. ASSUME NEW n \in Nodes, NEW t \in Types, InsertJob(n, t) PROVE jobs'[i] = jobs[i]
    BY <2>1, <2>2, InsertedRow DEF InsertJob
  <2>3. ASSUME NEW p \in Procs, Boot(p) PROVE jobs'[i] = jobs[i]
    BY <2>1, <2>3, SetStatusRows DEF Boot, Running, Status, Live
  <2>4. ASSUME NEW p \in Procs, ClaimJob(p) PROVE jobs'[i] = jobs[i]
    BY <2>1, <2>4, ClaimedRows DEF ClaimJob, Queued, Live
  <2>5. ASSUME NEW p \in Procs, ClaimNone(p) PROVE jobs'[i] = jobs[i]
    BY <2>1, <2>5, SetStatusRows DEF ClaimNone, Queued, Status, Live
  <2>6. ASSUME NEW p \in Procs, NEW s \in {"done", "failed"}, Settle(p, s)
        PROVE  jobs'[i] = jobs[i]
    <3>1. i # current[p]
      BY <2>6 DEF Settle, ExclusiveInv, ThreadsHold, Running, Live
    <3>2. QED
      BY <2>1, <2>6, <3>1, SetStatusRows DEF Settle, Status
  <2>7. QED
    BY <2>2, <2>3, <2>4, <2>5, <2>6
       DEF Next, Launch, Orphan, Stop, Die, Enqueue, MarkDone, MarkFailed, Fault
<1>2. QED
  BY <1>1, TypeCorrect, Exclusive, PTL DEF Spec, SettledStaysSettled
-----------------------------------------------------------------------------
(* The queue implements IndexIntent. Below, waiting and slot are the       *)
(* values the refinement mapping gives the abstract variables.             *)
waiting == [n \in Nodes |-> PendingOf(n)]

(* A row whose status the step keeps, or changes between two that are not  *)
(* "queued", leaves what waits as it is.                                   *)
LEMMA SamePending ==
  ASSUME UNCHANGED nodeState,
         \A n \in Nodes : nodeState[n].latest \in Queued' <=> nodeState[n].latest \in Queued
  PROVE  waiting' = waiting
BY DEF waiting, PendingOf

(* A table that keeps its running rows keeps the slot.                     *)
LEMMA SameSlot ==
  ASSUME Running' = Running, \A i \in Running : jobs'[i] = jobs[i]
  PROVE  SlotOf' = SlotOf
BY DEF SlotOf

LEMMA SlotOfOne ==
  ASSUME NEW i, Running = {i}
  PROVE  SlotOf = {[node |-> jobs[i].node, type |-> jobs[i].type]}
BY DEF SlotOf

RefinementInv == TypeOK /\ NewestInv /\ ExclusiveInv

AskStep(n, t)     == /\ asked' = [asked EXCEPT ![n] = t]
                     /\ \/ waiting' = [waiting EXCEPT ![n] = t]
                        \/ /\ SlotOf = {[node |-> n, type |-> t]}
                           /\ waiting[n] = "none"
                           /\ waiting' = waiting
                     /\ SlotOf' = SlotOf

(* Enqueue is Ask: a coalesced request waits already, or is being executed. *)
LEMMA EnqueueAsks ==
  ASSUME RefinementInv, AtMostOneRunning,
         NEW p \in Procs, NEW n \in Nodes, NEW t \in Types, Enqueue(p, n, t)
  PROVE  AskStep(n, t)
<1>a. /\ jobs \in Seq(Job)
      /\ nodeState \in [Nodes -> NodeRow]
      /\ LatestIsNewest /\ NewestNeverCancelled
  BY DEF RefinementInv, TypeOK, NewestInv
<1>b. asked' = [asked EXCEPT ![n] = t]
  BY DEF Enqueue
<1>1. CASE InsertJob(n, t)
  <2>1. /\ Len(jobs) \in Nat
        /\ DOMAIN jobs = 1..Len(jobs)
        /\ DOMAIN jobs' = 1..(Len(jobs) + 1)
        /\ \A i \in DOMAIN jobs : jobs'[i] = jobs[i]
        /\ jobs'[Len(jobs) + 1].status = "queued"
    BY <1>a, <1>1, InsertedRow DEF InsertJob
  <2>2. Running' = Running /\ SlotOf' = SlotOf
    <3>1. Running' = Running /\ \A i \in Running : jobs'[i] = jobs[i]
      BY <2>1 DEF Running
    <3>2. QED
      BY <3>1, SameSlot
  <2>3. Queued' = Queued \cup {Len(jobs) + 1}
    BY <2>1 DEF Queued
  <2>4. /\ nodeState'[n] = [latest |-> Len(jobs) + 1, desired |-> t]
        /\ \A m \in Nodes \ {n} : nodeState'[m] = nodeState[m]
    BY <1>a, <1>1 DEF InsertJob
  <2>5. \A m \in Nodes \ {n} : nodeState[m].latest # Len(jobs) + 1
    BY <1>a, <2>1 DEF LatestIsNewest
  <2>6. \A m \in Nodes : waiting'[m] = [waiting EXCEPT ![n] = t][m]
    BY <2>3, <2>4, <2>5 DEF waiting, PendingOf
  <2>7. waiting' = [waiting EXCEPT ![n] = t]
    BY <2>6 DEF waiting
  <2>8. QED
    BY <1>b, <2>2, <2>7 DEF AskStep
<1>2. CASE Coalesces(n, t) /\ UNCHANGED <<jobs, nodeState>>
  <2> DEFINE l == nodeState[n].latest
  <2>1. /\ l \in DOMAIN jobs
        /\ jobs[l].node = n /\ jobs[l].type = t
        /\ l \in Queued \/ l \in Running
        /\ nodeState[n].desired = t
    BY <1>a, <1>2 DEF Coalesces, LatestIsNewest, Queued, Running, Live
  <2>2. Running' = Running /\ Queued' = Queued /\ SlotOf' = SlotOf /\ waiting' = waiting
    BY <1>2 DEF Running, Queued, SlotOf, waiting, PendingOf
  <2>3. CASE l \in Queued
    <3>1. waiting[n] = t
      BY <2>1, <2>3 DEF waiting, PendingOf
    <3>2. waiting' = [waiting EXCEPT ![n] = t]
      BY <2>2, <3>1 DEF waiting
    <3>3. QED
      BY <1>b, <2>2, <3>2 DEF AskStep
  <2>4. CASE l \in Running
    <3>1. Running = {l}
      BY <2>4 DEF AtMostOneRunning
    <3>2. SlotOf = {[node |-> n, type |-> t]}
      BY <2>1, <3>1, SlotOfOne
    <3>3. waiting[n] = "none"
      BY <2>4 DEF waiting, PendingOf, Queued, Running
    <3>4. QED
      BY <1>b, <2>2, <3>2, <3>3 DEF AskStep
  <2>5. QED
    BY <2>1, <2>3, <2>4
<1>3. QED
  BY <1>1, <1>2 DEF Enqueue

(* ClaimJob is Begin: the claimed row is the newest of its node.           *)
BeginStep(n) == /\ SlotOf = {}
                /\ waiting[n] # "none"
                /\ SlotOf' = {[node |-> n, type |-> waiting[n]]}
                /\ waiting' = [waiting EXCEPT ![n] = "none"]
                /\ asked' = asked

LEMMA ClaimBegins ==
  ASSUME RefinementInv, NEW p \in Procs, ClaimJob(p)
  PROVE  \E n \in Nodes : BeginStep(n)
<1>a. /\ jobs \in Seq(Job)
      /\ nodeState \in [Nodes -> NodeRow]
      /\ LatestIsNewest
      /\ Running = {}
      /\ UNCHANGED <<nodeState, asked>>
  BY DEF RefinementInv, TypeOK, NewestInv, ClaimJob, CanClaim
<1>1. PICK c \in Wanted : jobs' = Claimed(c) /\ \A d \in Wanted : c <= d
  BY DEF ClaimJob
<1>2. /\ DOMAIN jobs' = DOMAIN jobs
      /\ c \in DOMAIN jobs /\ jobs[c].status = "queued" /\ jobs'[c].status = "running"
      /\ \A i \in DOMAIN jobs :
           /\ jobs'[i].node = jobs[i].node /\ jobs'[i].type = jobs[i].type
           /\ i # c /\ i \in Queued /\ i < c => jobs'[i].status = "cancelled"
           /\ i # c /\ ~(i \in Queued /\ i < c) => jobs'[i] = jobs[i]
  BY <1>a, <1>1, ClaimedRows
<1> DEFINE n == jobs[c].node
<1>3. n \in Nodes /\ jobs[c].type \in Types
  <2>1. jobs[c] \in Job
    BY <1>a, <1>2
  <2>2. QED
    BY <2>1 DEF Job
<1>4. nodeState[n].latest = c /\ nodeState[n].desired = jobs[c].type /\ c \in Queued
  BY <1>1 DEF Wanted, Stale
<1>5. waiting[n] = jobs[c].type
  BY <1>3, <1>4 DEF waiting, PendingOf
<1>6. waiting[n] # "none"
  BY <1>3, <1>5 DEF Types
<1>7. SlotOf = {}
  BY <1>a DEF SlotOf
<1>8. Running' = {c}
  BY <1>a, <1>2 DEF Running
<1>9. SlotOf' = {[node |-> n, type |-> waiting[n]]}
  BY <1>2, <1>5, <1>8 DEF SlotOf
<1>10. ASSUME NEW m \in Nodes, m # n
       PROVE  nodeState[m].latest \in Queued' <=> nodeState[m].latest \in Queued
  <2> DEFINE l == nodeState[m].latest
  <2>1. l # c
    BY <1>2, <1>10, <1>a DEF LatestIsNewest
  <2>2. ASSUME l \in Queued PROVE ~(l < c)
    <3>1. l \in Wanted
      BY <1>a, <2>2, NewestIsWanted
    <3>2. l \in Nat /\ c \in Nat
      BY <1>a, <1>2, <2>2 DEF Queued
    <3>3. QED
      BY <1>1, <3>1, <3>2
  <2>3. QED
    BY <1>2, <2>1, <2>2 DEF Queued
<1>11. nodeState[n].latest \notin Queued'
  BY <1>2, <1>4 DEF Queued
<1>12. \A m \in Nodes : waiting'[m] = [waiting EXCEPT ![n] = "none"][m]
  BY <1>a, <1>10, <1>11 DEF waiting, PendingOf
<1>13. waiting' = [waiting EXCEPT ![n] = "none"]
  BY <1>12 DEF waiting
<1>14. QED
  BY <1>a, <1>3, <1>6, <1>7, <1>9, <1>13 DEF BeginStep

(* Boot is Recover, or nothing when no row was left running: a superseded  *)
(* job that was interrupted has its successor waiting behind it.           *)
RecoverStep(n, t) == /\ SlotOf = {[node |-> n, type |-> t]}
                     /\ waiting' = [waiting EXCEPT ![n] = IF @ = "none" THEN t ELSE @]
                     /\ SlotOf' = {}
                     /\ asked' = asked

LEMMA BootRecovers ==
  ASSUME RefinementInv, AtMostOneRunning, NEW p \in Procs, Boot(p)
  PROVE  \/ \E n \in Nodes, t \in Types : RecoverStep(n, t)
         \/ asked' = asked /\ waiting' = waiting /\ SlotOf' = SlotOf
<1>a. /\ jobs \in Seq(Job)
      /\ nodeState \in [Nodes -> NodeRow]
      /\ LatestIsNewest /\ NewestNeverCancelled /\ LiveTail
      /\ UNCHANGED <<nodeState, asked>>
  BY DEF RefinementInv, TypeOK, NewestInv, ExclusiveInv, Boot
<1>1. /\ DOMAIN jobs' = DOMAIN jobs
      /\ \A i \in DOMAIN jobs :
           /\ i \in Running => jobs'[i].status = "queued"
           /\ i \notin Running => jobs'[i] = jobs[i]
  BY <1>a, SetStatusRows DEF Boot, Status, Live
<1>2. Running' = {} /\ Queued' = Queued \cup Running
  BY <1>1 DEF Running, Queued
<1>3. CASE Running = {}
  <2>1. waiting' = waiting
    BY <1>a, <1>2, <1>3, SamePending
  <2>2. QED
    BY <1>a, <1>2, <1>3, <2>1 DEF SlotOf
<1>4. CASE Running # {}
  <2>1. PICK i \in Running : Running = {i}
    BY <1>4 DEF AtMostOneRunning
  <2> DEFINE n == jobs[i].node
             t == jobs[i].type
             l == nodeState[n].latest
  <2>2. jobs[i] \in Job /\ i \in DOMAIN jobs /\ i \in Nat /\ i # 0
    BY <1>a DEF Running
  <2>3. n \in Nodes /\ t \in Types
    BY <2>2 DEF Job
  <2>4. /\ i <= l /\ l # 0 /\ l \in DOMAIN jobs /\ l \in Nat
        /\ nodeState[n].desired = jobs[l].type
    <3>1. nodeState[n] \in NodeRow
      BY <1>a, <2>3
    <3>2. i <= l /\ l \in Nat
      BY <1>a, <2>2, <2>3, <3>1 DEF LatestIsNewest, NodeRow
    <3>3. QED
      BY <1>a, <2>2, <2>3, <3>2 DEF LatestIsNewest
  <2>5. SlotOf = {[node |-> n, type |-> t]} /\ SlotOf' = {}
    <3>1. SlotOf = {[node |-> n, type |-> t]}
      BY <2>1, SlotOfOne
    <3>2. QED
      BY <1>2, <3>1 DEF SlotOf
  <2>6. CASE l = i
    <3>1. waiting[n] = "none" /\ nodeState[n].desired = t
      BY <2>3, <2>4, <2>6 DEF waiting, PendingOf, Queued, Running
    <3>2. waiting'[n] = t
      BY <1>a, <1>2, <2>3, <2>6, <3>1 DEF waiting, PendingOf
    <3>3. ASSUME NEW m \in Nodes, m # n PROVE nodeState[m].latest # i
      BY <1>a, <2>2, <3>3 DEF LatestIsNewest
    <3>4. \A m \in Nodes : m # n => waiting'[m] = waiting[m]
      BY <1>a, <1>2, <2>1, <3>3 DEF waiting, PendingOf
    <3>5. waiting' = [waiting EXCEPT ![n] = t]
      BY <3>2, <3>4 DEF waiting
    <3>6. QED
      BY <1>a, <2>3, <2>5, <3>1, <3>5 DEF RecoverStep
  <2>7. CASE l # i
    <3>1. jobs[l].status \in Live /\ l \notin Running
      BY <1>a, <2>2, <2>4, <2>7 DEF LiveTail, Running, Live
    <3>2. l \in Queued
      BY <2>4, <3>1 DEF Live, Queued, Running
    <3>3. jobs[l] \in Job
      BY <1>a, <2>4
    <3>4. waiting[n] # "none"
      BY <2>3, <2>4, <3>2, <3>3 DEF waiting, PendingOf, Job, Types
    <3>5. ASSUME NEW m \in Nodes PROVE nodeState[m].latest # i
      BY <1>a, <2>2, <2>7, <3>5 DEF LatestIsNewest
    <3>6. waiting' = waiting
      BY <1>a, <1>2, <2>1, <3>5, SamePending
    <3>7. waiting' = [waiting EXCEPT ![n] = waiting[n]]
      BY <3>6 DEF waiting
    <3>8. QED
      BY <1>a, <2>3, <2>5, <3>4, <3>7 DEF RecoverStep
  <2>8. QED
    BY <2>6, <2>7
<1>5. QED
  BY <1>3, <1>4

(* Settle is End: the thread settles the one running row.                  *)
LEMMA SettleEnds ==
  ASSUME RefinementInv, AtMostOneRunning,
         NEW p \in Procs, NEW s \in {"done", "failed"}, Settle(p, s)
  PROVE  SlotOf # {} /\ SlotOf' = {} /\ waiting' = waiting /\ asked' = asked
<1>a. /\ jobs \in Seq(Job)
      /\ UNCHANGED <<nodeState, asked>>
      /\ current[p] \in Running
  BY DEF RefinementInv, TypeOK, ExclusiveInv, ThreadsHold, Settle
<1>1. Running = {current[p]}
  BY <1>a DEF AtMostOneRunning
<1>2. /\ DOMAIN jobs' = DOMAIN jobs
      /\ jobs'[current[p]].status = s
      /\ \A i \in DOMAIN jobs : i # current[p] => jobs'[i] = jobs[i]
  BY <1>a, SetStatusRows DEF Settle, Status, Running
<1>3. Running' = {} /\ Queued' = Queued
  BY <1>a, <1>1, <1>2 DEF Running, Queued
<1>4. waiting' = waiting
  BY <1>a, <1>3, SamePending
<1>5. QED
  BY <1>a, <1>3, <1>4 DEF SlotOf

(* Only stale rows are cancelled when no wanted row is found.              *)
LEMMA ClaimNoneStutters ==
  ASSUME RefinementInv, NEW p \in Procs, ClaimNone(p)
  PROVE  asked' = asked /\ waiting' = waiting /\ SlotOf' = SlotOf
<1>a. /\ jobs \in Seq(Job)
      /\ LatestIsNewest
      /\ UNCHANGED <<nodeState, asked>>
      /\ Running = {} /\ Wanted = {}
  BY DEF RefinementInv, TypeOK, NewestInv, ClaimNone, CanClaim
<1>1. /\ DOMAIN jobs' = DOMAIN jobs
      /\ \A i \in DOMAIN jobs :
           /\ i \in Queued => jobs'[i].status = "cancelled"
           /\ i \notin Queued => jobs'[i] = jobs[i]
  BY <1>a, SetStatusRows DEF ClaimNone, Status
<1>2. Running' = {} /\ Queued' = {}
  BY <1>a, <1>1 DEF Running, Queued
<1>3. \A n \in Nodes : nodeState[n].latest \notin Queued
  BY <1>a, NewestIsWanted
<1>4. waiting' = waiting
  BY <1>a, <1>2, <1>3, SamePending
<1>5. QED
  BY <1>a, <1>2, <1>4 DEF SlotOf

(* One process at a time: every behaviour of the queue is, seen through    *)
(* the mapping, a behaviour of IndexIntent.                                *)
THEOREM IntentImplemented ==
  ASSUME AllowOverlap = FALSE
  PROVE  Spec => ImplementsIntent
<1>1. Init => Intent!Init
  BY DEF Init, Intent!Init, PendingOf, SlotOf, Running, Queued
<1>2. RefinementInv /\ AtMostOneRunning /\ [Next]_vars => [Intent!Next]_(Intent!vars)
  <2> SUFFICES ASSUME RefinementInv, AtMostOneRunning, [Next]_vars
               PROVE  Intent!Next \/ UNCHANGED Intent!vars
    OBVIOUS
  <2> USE DEF store, procs
  <2>1. CASE UNCHANGED store
    BY <2>1 DEF Intent!vars, PendingOf, SlotOf, Running, Queued
  <2>2. ASSUME NEW p \in Procs, NEW n \in Nodes, NEW t \in Types, Enqueue(p, n, t)
        PROVE  Intent!Next
    <3>1. AskStep(n, t)
      BY <2>2, EnqueueAsks
    <3>2. Intent!Ask(n, t)
      BY <3>1 DEF AskStep, Intent!Ask, waiting
    <3>3. QED
      BY <3>2 DEF Intent!Next
  <2>3. ASSUME NEW p \in Procs, ClaimJob(p) PROVE Intent!Next
    <3>1. PICK n \in Nodes : BeginStep(n)
      BY <2>3, ClaimBegins
    <3>2. Intent!Begin(n)
      BY <3>1 DEF BeginStep, Intent!Begin, waiting
    <3>3. QED
      BY <3>2 DEF Intent!Next
  <2>4. ASSUME NEW p \in Procs, Boot(p) PROVE Intent!Next \/ UNCHANGED Intent!vars
    <3>1. CASE asked' = asked /\ waiting' = waiting /\ SlotOf' = SlotOf
      BY <3>1 DEF Intent!vars, waiting
    <3>2. ASSUME NEW n \in Nodes, NEW t \in Types, RecoverStep(n, t) PROVE Intent!Next
      <4>1. Intent!Recover(n, t)
        BY <3>2 DEF RecoverStep, Intent!Recover, waiting
      <4>2. QED
        BY <4>1 DEF Intent!Next
    <3>3. QED
      BY <2>4, <3>1, <3>2, BootRecovers
  <2>5. ASSUME NEW p \in Procs, ClaimNone(p) PROVE UNCHANGED Intent!vars
    BY <2>5, ClaimNoneStutters DEF Intent!vars, waiting
  <2>6. ASSUME NEW p \in Procs, NEW s \in {"done", "failed"}, Settle(p, s)
        PROVE  Intent!Next
    <3>1. Intent!End
      BY <2>6, SettleEnds DEF Intent!End, waiting
    <3>2. PICK i \in Running : jobs[i].node \in Nodes
      <4>1. PICK i \in Running : TRUE
        BY <2>6, SettleEnds DEF SlotOf
      <4>2. jobs[i] \in Job
        BY DEF RefinementInv, TypeOK, Running
      <4>3. QED
        BY <4>2 DEF Job
    <3>3. QED
      BY <3>1, <3>2 DEF Intent!Next
  <2>7. QED
    BY <2>1, <2>2, <2>3, <2>4, <2>5, <2>6
       DEF Next, vars, Launch, Orphan, Stop, Die, MarkDone, MarkFailed, Fault
<1>3. QED
  BY <1>1, <1>2, TypeCorrect, OneRunning, NewestWins, Exclusive, PTL
     DEF Spec, ImplementsIntent, Intent!Spec, RefinementInv, NewestInv

-----------------------------------------------------------------------------
(* The pipeline drives the queue as IndexQueue describes it, so that what  *)
(* holds of the queue holds here.                                          *)
QueueInv == TypeOK /\ ExclusiveInv /\ LatestIsNewest

LEMMA QueueStep == [PNext]_pvars => [Next]_vars
<1>1. ASSUME NEW p \in Procs, NEW n \in Nodes, NEW t \in Types, Request(p, n, t) PROVE Next
  BY <1>1 DEF Request, Next
<1>2. ASSUME NEW p \in Procs,
             Boots(p) \/ Dies(p) \/ Claim(p) \/ Finish(p) \/ Raise(p)
      PROVE  [Next]_vars
  BY <1>2 DEF Boots, Dies, Claim, Finish, Raise, Next
<1>3. ASSUME NEW p \in Procs, \/ Parse(p) \/ Embed(p) \/ VecDelete(p) \/ FtsDelete(p)
                              \/ VecUpsert(p) \/ FtsUpsert(p) \/ RemoveArtifact(p)
      PROVE  UNCHANGED vars
  BY <1>3 DEF Parse, Embed, VecDelete, FtsDelete, VecUpsert, FtsUpsert, RemoveArtifact
<1>4. ASSUME NEW n \in Nodes, Write(n) \/ Remove(n) \/ \E t \in Types : RequestFails(n, t)
      PROVE  UNCHANGED vars
  BY <1>4 DEF Write, Remove, RequestFails
<1>5. UNCHANGED pvars => UNCHANGED vars
  BY DEF pvars
<1>6. QED
  BY <1>1, <1>2, <1>3, <1>4, <1>5 DEF PNext

LEMMA QueueHolds ==
  ASSUME AllowOverlap = FALSE
  PROVE  PSpec => []QueueInv
<1>2. Spec => []ExclusiveInv
  BY Exclusive
<1>3. PInit => Init
  BY DEF PInit
<1>4. QED
  BY <1>2, <1>3, QueueStep, TypeCorrect, NewestWins, PTL DEF PSpec, Spec, QueueInv

-----------------------------------------------------------------------------
(* What a thread has made of the stores of its node n, by its step s, with *)
(* b the version it parsed.                                                *)
Written(n, type, s, b) ==
  /\ s \in {"parse", "embed", "vecUpsert", "ftsUpsert"} => type = "index"
  /\ s = "rmtree" => type = "delete"
  /\ type = "index" /\ s # "parse" => doc[n] = b /\ b # 0
  /\ s = "ftsDelete" => vec[n] = 0
  /\ s \in {"vecUpsert", "rmtree"} => vec[n] = 0 /\ fts[n] = 0
  /\ s = "ftsUpsert" => vec[n] = Rows(b) /\ fts[n] = 0
  /\ s = "end" => /\ type = "index" => vec[n] = Rows(b) /\ fts[n] = Rows(b)
                  /\ type = "delete" => doc[n] = 0 /\ vec[n] = 0 /\ fts[n] = 0

StoreTypes == /\ doc = [n \in Nodes |-> doc[n]] /\ vec = [n \in Nodes |-> vec[n]]
              /\ fts = [n \in Nodes |-> fts[n]]
              /\ step = [p \in Procs |-> step[p]] /\ buf = [p \in Procs |-> buf[p]]

ThreadWrote ==
  \A p \in Procs : step[p] # "idle" =>
    /\ thread[p] = "exec"
    /\ Written(JobOf(p).node, JobOf(p).type, step[p], buf[p])

PipeInv == StoreTypes /\ ThreadWrote /\ StoresAgree /\ DoneIsComplete

(* The thread that executes is alone, and its job is a row of the table.   *)
LEMMA Alone ==
  ASSUME QueueInv, ThreadWrote, NEW p \in Procs, thread[p] = "exec"
  PROVE  /\ current[p] \in Running /\ current[p] \in DOMAIN jobs
         /\ JobOf(p).node \in Nodes /\ JobOf(p).type \in Types
         /\ \A q \in Procs : q # p => step[q] = "idle"
<1>1. OneProcess /\ ThreadsHold /\ jobs \in Seq(Job)
  BY DEF QueueInv, ExclusiveInv, TypeOK
<1>2. current[p] \in Running /\ current[p] \in DOMAIN jobs
  BY <1>1 DEF ThreadsHold, Running
<1>3. JobOf(p) \in Job
  BY <1>1, <1>2 DEF JobOf
<1>4. \A q \in Procs : q # p => thread[q] = "none"
  BY <1>1 DEF OneProcess, ThreadsHold
<1>5. QED
  BY <1>2, <1>3, <1>4 DEF Job, ThreadWrote

(* While a job of a node runs, the newest job of the node is not done.     *)
LEMMA BusyNotDone ==
  ASSUME QueueInv, NEW i \in Running, NEW t
  PROVE  ~Done(jobs[i].node, t)
<1> SUFFICES ASSUME Done(jobs[i].node, t) PROVE FALSE
  OBVIOUS
<1> DEFINE n == jobs[i].node
           l == nodeState[n].latest
<1>1. /\ i \in DOMAIN jobs /\ jobs[i].status = "running" /\ jobs \in Seq(Job)
      /\ LiveTail /\ LatestIsNewest
  BY DEF QueueInv, ExclusiveInv, Running, TypeOK
<1>2. n \in Nodes /\ i \in Nat
  <2>1. jobs[i] \in Job /\ i \in Nat
    BY <1>1
  <2>2. QED
    BY <2>1 DEF Job
<1>3. l # 0 /\ jobs[l].status = "done"
  BY DEF Done
<1>4. l \in DOMAIN jobs /\ i <= l
  BY <1>1, <1>2, <1>3 DEF LatestIsNewest
<1>5. i < l
  BY <1>1, <1>2, <1>3, <1>4
<1>6. QED
  BY <1>1, <1>3, <1>4, <1>5 DEF LiveTail, Live

(* Rows are never removed, and keep their node and type.                   *)
LEMMA RowsStay ==
  ASSUME QueueInv, [Next]_vars, NEW i \in DOMAIN jobs
  PROVE  i \in DOMAIN jobs' /\ jobs'[i].node = jobs[i].node /\ jobs'[i].type = jobs[i].type
<1>1. jobs \in Seq(Job)
  BY DEF QueueInv, TypeOK
<1>2. CASE jobs' = jobs
  BY <1>2
<1>3. ASSUME NEW n \in Nodes, NEW t \in Types, InsertJob(n, t)
      PROVE  i \in DOMAIN jobs' /\ jobs'[i] = jobs[i]
  BY <1>1, <1>3, InsertedRow DEF InsertJob
<1>4. ASSUME NEW S, NEW s \in Status, jobs' = SetStatus(S, s)
      PROVE  /\ i \in DOMAIN jobs' /\ jobs'[i].node = jobs[i].node
             /\ jobs'[i].type = jobs[i].type
  BY <1>1, <1>4, SetStatusRows
<1>5. ASSUME NEW c \in Wanted, jobs' = Claimed(c)
      PROVE  /\ i \in DOMAIN jobs' /\ jobs'[i].node = jobs[i].node
             /\ jobs'[i].type = jobs[i].type
  BY <1>1, <1>5, ClaimedRows
<1>6. QED
  BY <1>2, <1>3, <1>4, <1>5
     DEF Next, vars, store, procs, Launch, Orphan, Stop, Die, Enqueue, Boot, ClaimJob, ClaimNone,
         MarkDone, MarkFailed, Settle, Fault, Status, Live

(* Only the end of its newest job makes a node done.                       *)
LEMMA DoneBy ==
  ASSUME QueueInv, [Next]_vars, NEW n \in Nodes, NEW t, Done(n, t)'
  PROVE  \/ Done(n, t)
         \/ \E p \in Procs : MarkDone(p) /\ current[p] = nodeState[n].latest
                             /\ current[p] \in DOMAIN jobs /\ jobs[current[p]].node = n
                             /\ jobs[current[p]].type = t
<1> DEFINE l == nodeState[n].latest
<1>1. jobs \in Seq(Job) /\ nodeState \in [Nodes -> NodeRow] /\ LatestIsNewest
  BY DEF QueueInv, TypeOK
<1>2. l # 0 => l \in DOMAIN jobs /\ jobs[l].node = n
  BY <1>1 DEF LatestIsNewest
<1>3. CASE UNCHANGED <<jobs, nodeState>>
  BY <1>3 DEF Done
<1>4. ASSUME NEW m \in Nodes, NEW u \in Types, InsertJob(m, u) PROVE Done(n, t)
  <2>1. /\ \A i \in DOMAIN jobs : jobs'[i] = jobs[i]
        /\ jobs'[Len(jobs) + 1].status = "queued" /\ Len(jobs) \in Nat
    BY <1>1, <1>4, InsertedRow DEF InsertJob
  <2>2. n # m => nodeState'[n] = nodeState[n]
    BY <1>1, <1>4 DEF InsertJob
  <2>3. n = m => nodeState'[n].latest = Len(jobs) + 1
    BY <1>1, <1>4 DEF InsertJob
  <2>4. QED
    BY <1>2, <2>1, <2>2, <2>3 DEF Done
<1>5. ASSUME NEW S, NEW s \in Status, jobs' = SetStatus(S, s), UNCHANGED nodeState,
             s # "done" \/ l \notin S
      PROVE  Done(n, t)
  <2>1. l # 0 /\ jobs'[l].status = "done" /\ jobs'[l].type = t
    BY <1>5 DEF Done
  <2>2. /\ jobs'[l].type = jobs[l].type
        /\ l \in S => jobs'[l].status = s
        /\ l \notin S => jobs'[l] = jobs[l]
    BY <1>1, <1>2, <1>5, <2>1, SetStatusRows
  <2>3. QED
    BY <1>5, <2>1, <2>2 DEF Done
<1>6. ASSUME NEW c \in Wanted, jobs' = Claimed(c), UNCHANGED nodeState PROVE Done(n, t)
  <2>1. l # 0 /\ jobs'[l].status = "done" /\ jobs'[l].type = t
    BY <1>6 DEF Done
  <2>2. jobs'[l] = jobs[l]
    BY <1>1, <1>2, <1>6, <2>1, ClaimedRows
  <2>3. QED
    BY <1>6, <2>1, <2>2 DEF Done
<1>7. ASSUME NEW p \in Procs, MarkDone(p), current[p] = l
      PROVE  l \in DOMAIN jobs /\ jobs[l].node = n /\ jobs[l].type = t
  <2>1. jobs' = SetStatus({l}, "done") /\ UNCHANGED nodeState
    BY <1>7 DEF MarkDone, Settle
  <2>2. l # 0 /\ jobs'[l].type = t
    BY <2>1 DEF Done
  <2>3. jobs'[l].type = jobs[l].type
    BY <1>1, <1>2, <2>1, <2>2, SetStatusRows DEF Status
  <2>4. QED
    BY <1>2, <2>2, <2>3
<1>8. ASSUME NEW p \in Procs, MarkDone(p), current[p] # l PROVE Done(n, t)
  BY <1>5, <1>8 DEF MarkDone, Settle, Status
<1>9. ASSUME NEW p \in Procs, MarkFailed(p) \/ Boot(p) \/ ClaimNone(p) PROVE Done(n, t)
  BY <1>5, <1>9 DEF MarkFailed, Settle, Boot, ClaimNone, Status, Live
<1>10. QED
  BY <1>3, <1>4, <1>6, <1>7, <1>8, <1>9
     DEF Next, vars, store, procs, Launch, Orphan, Stop, Die, Enqueue, ClaimJob, Fault

LEMMA NotDoneBy ==
  ASSUME QueueInv, [Next]_vars,
         \A p \in Procs : thread[p] = "exec" =>
           thread'[p] # "loop" \/ jobs'[current[p]].status # "done"
  PROVE  \A n \in Nodes, t \in Types : Done(n, t)' => Done(n, t)
<1>1. ASSUME NEW p \in Procs, MarkDone(p) PROVE FALSE
  <2>1. /\ thread[p] = "exec" /\ thread' = [thread EXCEPT ![p] = "loop"]
        /\ jobs' = SetStatus({current[p]}, "done")
    BY <1>1 DEF MarkDone, Settle
  <2>2. thread'[p] = "loop" /\ jobs \in Seq(Job)
    BY <2>1 DEF QueueInv, TypeOK
  <2>3. current[p] \in DOMAIN jobs
    BY <2>1 DEF QueueInv, ExclusiveInv, ThreadsHold, Running
  <2>4. jobs'[current[p]].status = "done"
    BY <2>1, <2>2, <2>3, SetStatusRows DEF Status
  <2>5. QED
    BY <2>1, <2>2, <2>4
<1>2. QED
  BY <1>1, DoneBy

-----------------------------------------------------------------------------
(* A step of the queue, the host or the file system: no store is written,  *)
(* no job becomes done, and each thread stays where it is or is idle.      *)
LEMMA StoresStay ==
  ASSUME PipeInv, QueueInv, [Next]_vars, StoreTypes', UNCHANGED stores,
         \A p \in Procs : step'[p] # "idle" =>
           step'[p] = step[p] /\ UNCHANGED <<buf, current>> /\ thread'[p] = thread[p],
         \A n \in Nodes, t \in Types : Done(n, t)' => Done(n, t)
  PROVE  PipeInv'
<1>0. UNCHANGED <<doc, vec, fts>>
  BY DEF stores
<1>1. StoresAgree'
  BY <1>0 DEF PipeInv, StoresAgree
<1>2. DoneIsComplete'
  BY <1>0 DEF PipeInv, DoneIsComplete, Rows, Types
<1>3. ASSUME NEW p \in Procs, step'[p] # "idle"
      PROVE  /\ thread'[p] = "exec"
             /\ Written(JobOf(p).node, JobOf(p).type, step[p], buf[p])'
  <2>1. thread[p] = "exec" /\ Written(JobOf(p).node, JobOf(p).type, step[p], buf[p])
    BY <1>3 DEF PipeInv, ThreadWrote
  <2>2. current[p] \in DOMAIN jobs
    BY <2>1, Alone DEF PipeInv
  <2>3. JobOf(p)'.node = JobOf(p).node /\ JobOf(p)'.type = JobOf(p).type
    BY <1>3, <2>2, RowsStay DEF JobOf
  <2>4. QED
    BY <1>0, <1>3, <2>1, <2>3 DEF Written, Rows
<1>4. QED
  BY <1>1, <1>2, <1>3 DEF PipeInv, ThreadWrote

(* A step of the thread that executes, on the stores of its own node.      *)
LEMMA ThreadStep ==
  ASSUME PipeInv, QueueInv, UNCHANGED vars, StoreTypes',
         NEW p \in Procs, thread[p] = "exec",
         \A q \in Procs : q # p => step'[q] = step[q],
         \A n \in Nodes : n # JobOf(p).node =>
           doc'[n] = doc[n] /\ vec'[n] = vec[n] /\ fts'[n] = fts[n],
         vec'[JobOf(p).node] # 0 /\ fts'[JobOf(p).node] # 0 =>
           vec'[JobOf(p).node] = fts'[JobOf(p).node],
         Written(JobOf(p).node, JobOf(p).type, step[p], buf[p])'
  PROVE  PipeInv'
<1>1. /\ JobOf(p).node \in Nodes /\ current[p] \in Running
      /\ \A q \in Procs : q # p => step[q] = "idle"
  BY Alone DEF PipeInv
<1>2. UNCHANGED <<jobs, nodeState, thread, current>>
  BY DEF vars
<1>3. ThreadWrote'
  BY <1>1, <1>2 DEF ThreadWrote
<1>4. StoresAgree'
  BY <1>1 DEF PipeInv, StoresAgree
<1>5. \A t : ~Done(JobOf(p).node, t)
  BY <1>1, BusyNotDone DEF JobOf
<1>6. \A n \in Nodes : \A t : Done(n, t)' = Done(n, t)
  BY <1>2 DEF Done
<1>7. DoneIsComplete'
  BY <1>5, <1>6 DEF PipeInv, DoneIsComplete, Rows
<1>8. QED
  BY <1>3, <1>4, <1>7 DEF PipeInv

-----------------------------------------------------------------------------
LEMMA PipeInit == PInit => PipeInv
<1> SUFFICES ASSUME PInit PROVE PipeInv
  OBVIOUS
<1>1. StoreTypes /\ ThreadWrote
  BY DEF PInit, StoreTypes, ThreadWrote
<1>2. StoresAgree
  BY DEF PInit, StoresAgree
<1>3. \A n \in Nodes : \A t : ~Done(n, t)
  BY DEF PInit, Init, Done
<1>4. DoneIsComplete
  BY <1>3 DEF DoneIsComplete
<1>5. QED
  BY <1>1, <1>2, <1>4 DEF PipeInv

(* Put writes the store of the thread's node and no other.                 *)
LEMMA PutStore ==
  ASSUME NEW s, s = [n \in Nodes |-> s[n]], NEW p, JobOf(p).node \in Nodes, NEW v
  PROVE  /\ Put(s, p, v) = [n \in Nodes |-> Put(s, p, v)[n]]
         /\ Put(s, p, v)[JobOf(p).node] = v
         /\ \A n \in Nodes : n # JobOf(p).node => Put(s, p, v)[n] = s[n]
<1> DEFINE m == JobOf(p).node
<1>1. Put(s, p, v) = [s EXCEPT ![m] = v] /\ m \in Nodes
  BY DEF Put
<1> HIDE DEF m
<1>2. QED
  BY <1>1 DEF m

LEMMA StepGoes ==
  ASSUME StoreTypes, NEW p \in Procs, NEW s, GoTo(p, s)
  PROVE  /\ step' = [q \in Procs |-> step'[q]] /\ step'[p] = s
         /\ \A q \in Procs : q # p => step'[q] = step[q]
BY DEF StoreTypes, GoTo

(* A process that lives is alone: when its thread drops its job, none runs. *)
LEMMA Drops ==
  ASSUME QueueInv, StoreTypes, ThreadWrote, NEW p \in Procs, main[p] # "down", Drop(p)
  PROVE  /\ StoreTypes' /\ UNCHANGED stores
         /\ \A q \in Procs : step'[q] = "idle"
         /\ \A q \in Procs : q # p => thread[q] = "none"
<1>1. OneProcess /\ ThreadsHold
  BY DEF QueueInv, ExclusiveInv
<1>2. \A q \in Procs : q # p => thread[q] = "none" /\ step[q] = "idle"
  BY <1>1 DEF OneProcess, ThreadsHold, ThreadWrote
<1>3. /\ UNCHANGED stores /\ step' = [step EXCEPT ![p] = "idle"] /\ buf' = [buf EXCEPT ![p] = 0]
  BY DEF Drop
<1>4. UNCHANGED <<doc, vec, fts>>
  BY <1>3 DEF stores
<1>5. /\ step' = [q \in Procs |-> step'[q]] /\ buf' = [q \in Procs |-> buf'[q]]
      /\ step'[p] = "idle" /\ \A q \in Procs : q # p => step'[q] = step[q]
  BY <1>3 DEF StoreTypes
<1>6. QED
  BY <1>2, <1>3, <1>4, <1>5 DEF StoreTypes

(* What the thread of a job at step s finds, and where its node stands.    *)
LEMMA AtStep ==
  ASSUME QueueInv, PipeInv, NEW p \in Procs, NEW s \in Steps \ {"idle"}, At(p, s)
  PROVE  /\ thread[p] = "exec" /\ step[p] = s
         /\ JobOf(p).node \in Nodes /\ JobOf(p).type \in {"index", "delete"}
         /\ Written(JobOf(p).node, JobOf(p).type, s, buf[p])
<1>1. thread[p] = "exec" /\ step[p] = s /\ s # "idle"
  BY DEF At
<1>2. QED
  BY <1>1, Alone DEF PipeInv, ThreadWrote, Types

\* The store of the thread's node becomes x, the others stay.
Sets(old, new, p, x) == \/ new = old /\ x = old[JobOf(p).node]
                        \/ new = Put(old, p, x)

(* A thread goes from one step to the next and sets each store of its node *)
(* to what that step leaves there.                                         *)
LEMMA Onward ==
  ASSUME PipeInv, QueueInv, UNCHANGED <<vars, buf>>, NEW p \in Procs, thread[p] = "exec",
         JobOf(p).node \in Nodes, NEW s, GoTo(p, s), NEW d, NEW v, NEW f,
         Sets(doc, doc', p, d), Sets(vec, vec', p, v), Sets(fts, fts', p, f),
         v # 0 /\ f # 0 => v = f,
         doc'[JobOf(p).node] = d /\ vec'[JobOf(p).node] = v /\ fts'[JobOf(p).node] = f
           /\ step'[p] = s => Written(JobOf(p).node, JobOf(p).type, step[p], buf[p])'
  PROVE  PipeInv'
<1> DEFINE m == JobOf(p).node
<1>1. StoreTypes
  BY DEF PipeInv
<1>2. doc' = [n \in Nodes |-> doc'[n]] /\ doc'[m] = d /\ \A n \in Nodes : n # m => doc'[n] = doc[n]
  BY <1>1, PutStore DEF Sets, StoreTypes
<1>3. vec' = [n \in Nodes |-> vec'[n]] /\ vec'[m] = v /\ \A n \in Nodes : n # m => vec'[n] = vec[n]
  BY <1>1, PutStore DEF Sets, StoreTypes
<1>4. fts' = [n \in Nodes |-> fts'[n]] /\ fts'[m] = f /\ \A n \in Nodes : n # m => fts'[n] = fts[n]
  BY <1>1, PutStore DEF Sets, StoreTypes
<1>5. /\ step' = [q \in Procs |-> step'[q]] /\ step'[p] = s
      /\ \A q \in Procs : q # p => step'[q] = step[q]
  BY <1>1, StepGoes
<1>6. StoreTypes'
  BY <1>1, <1>2, <1>3, <1>4, <1>5 DEF StoreTypes
<1>7. QED
  BY <1>2, <1>3, <1>4, <1>5, <1>6, ThreadStep

LEMMA PipeNext == PipeInv /\ QueueInv /\ [PNext]_pvars => PipeInv'
<1> SUFFICES ASSUME PipeInv, QueueInv, [PNext]_pvars PROVE PipeInv'
  OBVIOUS
<1>q. [Next]_vars
  BY QueueStep
<1>t. StoreTypes /\ ThreadWrote
  BY DEF PipeInv
<1>th. /\ thread \in [Procs -> {"none", "boot", "loop", "exec"}] /\ jobs \in Seq(Job)
       /\ current \in [Procs -> Nat] /\ main \in [Procs -> {"down", "up", "orphan", "stopping"}]
       /\ ThreadsHold
  BY DEF QueueInv, TypeOK, ExclusiveInv
<1>1. ASSUME UNCHANGED <<vars, stores, step, buf>> PROVE PipeInv'
  <2>1. UNCHANGED <<jobs, nodeState, thread, current, doc, vec, fts>>
    BY <1>1 DEF vars, stores
  <2>2. StoreTypes' /\ \A n \in Nodes, t \in Types : Done(n, t)' => Done(n, t)
    BY <1>1, <1>t, <2>1 DEF StoreTypes, Done
  <2>3. QED
    BY <1>q, <1>1, <2>1, <2>2, StoresStay
<1>2. ASSUME NEW n \in Nodes, Write(n) \/ Remove(n) \/ \E t \in Types : RequestFails(n, t)
      PROVE  PipeInv'
  BY <1>1, <1>2 DEF Write, Remove, RequestFails
<1>3. ASSUME NEW p \in Procs, NEW n \in Nodes, NEW t \in Types, Request(p, n, t) PROVE PipeInv'
  <2>1. UNCHANGED <<stores, step, buf, thread, current>>
    BY <1>3 DEF Request, Enqueue, procs
  <2>2. \A q \in Procs : thread[q] = "exec" => thread'[q] # "loop"
    BY <2>1
  <2>3. StoreTypes'
    BY <1>t, <2>1 DEF StoreTypes, stores
  <2>4. QED
    BY <1>q, <2>1, <2>2, <2>3, NotDoneBy, StoresStay
<1>4. ASSUME NEW p \in Procs, Boots(p) PROVE PipeInv'
  <2>1. UNCHANGED <<stores, step, buf, current>>
    BY <1>4 DEF Boots, Launch, Orphan, Stop, Boot, ClaimNone, procs
  <2>2. thread[p] # "exec" \/ UNCHANGED thread
    BY <1>4, <1>th DEF Boots, Launch, Orphan, Stop, Boot, ClaimNone, CanClaim, procs, ThreadsHold
  <2>3. \A q \in Procs : q # p => thread'[q] = thread[q]
    BY <1>4, <1>th DEF Boots, Launch, Orphan, Stop, Boot, ClaimNone, procs
  <2>4. \A q \in Procs : thread[q] = "exec" => thread'[q] = "exec"
    BY <2>2, <2>3
  <2>5. \A q \in Procs : step'[q] # "idle" => thread'[q] = thread[q]
    BY <1>t, <2>1, <2>4 DEF ThreadWrote
  <2>6. StoreTypes'
    BY <1>t, <2>1 DEF StoreTypes, stores
  <2>7. \A q \in Procs : thread[q] = "exec" => thread'[q] # "loop"
    BY <2>4
  <2>8. QED
    BY <1>q, <2>1, <2>5, <2>6, <2>7, NotDoneBy, StoresStay
<1>5. ASSUME NEW p \in Procs, Dies(p) PROVE PipeInv'
  <2>1. main[p] # "down" /\ Drop(p) /\ thread' = [thread EXCEPT ![p] = "none"]
    BY <1>5, <1>th DEF Dies, Die, Fault, ThreadsHold
  <2>2. /\ StoreTypes' /\ UNCHANGED stores /\ \A q \in Procs : step'[q] = "idle"
        /\ \A q \in Procs : q # p => thread[q] = "none"
    BY <1>t, <2>1, Drops
  <2>3. \A q \in Procs : thread[q] = "exec" => thread'[q] # "loop"
    BY <1>th, <2>1, <2>2
  <2>4. QED
    BY <1>q, <2>2, <2>3, NotDoneBy, StoresStay
<1>6. ASSUME NEW p \in Procs, Raise(p) PROVE PipeInv'
  <2>1. /\ Drop(p) /\ thread[p] = "exec" /\ jobs' = SetStatus({current[p]}, "failed")
        /\ thread' = [thread EXCEPT ![p] = "loop"]
    BY <1>6 DEF Raise, MarkFailed, Settle
  <2>2. main[p] # "down" /\ current[p] \in DOMAIN jobs
    BY <1>th, <2>1 DEF ThreadsHold, Running
  <2>3. /\ StoreTypes' /\ UNCHANGED stores /\ \A q \in Procs : step'[q] = "idle"
        /\ \A q \in Procs : q # p => thread[q] = "none"
    BY <1>t, <2>1, <2>2, Drops
  <2>4. jobs'[current[p]].status = "failed"
    BY <1>th, <2>1, <2>2, SetStatusRows DEF Status
  <2>5. \A q \in Procs : thread[q] = "exec" => jobs'[current[q]].status # "done"
    BY <2>3, <2>4
  <2>6. QED
    BY <1>q, <2>3, <2>5, NotDoneBy, StoresStay
<1>7. ASSUME NEW p \in Procs, Finish(p) PROVE PipeInv'
  <2>1. At(p, "end") /\ MarkDone(p) /\ Drop(p) /\ thread[p] = "exec"
    BY <1>7 DEF Finish, At
  <2>2. main[p] # "down"
    BY <1>th, <2>1 DEF ThreadsHold
  <2>3. /\ StoreTypes' /\ UNCHANGED stores /\ \A q \in Procs : step'[q] = "idle"
        /\ \A q \in Procs : q # p => thread[q] = "none"
    BY <1>t, <2>1, <2>2, Drops
  <2>4. Written(JobOf(p).node, JobOf(p).type, "end", buf[p])
    BY <2>1, AtStep DEF Steps
  <2>5. UNCHANGED <<doc, vec, fts>>
    BY <2>3 DEF stores
  <2>6. ASSUME NEW n \in Nodes, NEW t \in Types, Done(n, t)'
        PROVE  /\ t = "index" => doc[n] # 0 /\ vec[n] = Rows(doc[n]) /\ fts[n] = vec[n]
               /\ t = "delete" => doc[n] = 0 /\ vec[n] = 0 /\ fts[n] = 0
    <3>1. CASE Done(n, t)
      BY <3>1 DEF PipeInv, DoneIsComplete
    <3>2. CASE ~Done(n, t)
      <4>1. PICK q \in Procs : /\ MarkDone(q) /\ jobs[current[q]].node = n
                               /\ jobs[current[q]].type = t
        BY <1>q, <2>6, <3>2, DoneBy
      <4>2. q = p
        BY <2>3, <4>1 DEF MarkDone, Settle
      <4>3. Written(n, t, "end", buf[p])
        BY <2>4, <4>1, <4>2 DEF JobOf
      <4>4. QED
        BY <4>3 DEF Written
    <3>3. QED
      BY <3>1, <3>2
  <2>7. DoneIsComplete'
    BY <2>5, <2>6 DEF DoneIsComplete, Types, Rows
  <2>8. QED
    BY <2>3, <2>5, <2>7 DEF PipeInv, ThreadWrote, StoresAgree
<1>8. ASSUME NEW p \in Procs, Claim(p) PROVE PipeInv'
  <2>1. /\ ClaimJob(p) /\ UNCHANGED <<stores, buf>> /\ thread[p] = "loop"
        /\ thread' = [thread EXCEPT ![p] = "exec"]
        /\ step' = [step EXCEPT ![p] =
                      IF jobs[current'[p]].type = "index" THEN "parse" ELSE "vecDelete"]
    BY <1>8 DEF Claim, ClaimJob, CanClaim
  <2>2. \A q \in Procs : q # p => thread[q] = "none" /\ step[q] = "idle"
    BY <1>t, <1>th, <2>1 DEF QueueInv, ExclusiveInv, OneProcess, ThreadsHold, ThreadWrote
  <2>3. PICK c \in Wanted : jobs' = Claimed(c) /\ current' = [current EXCEPT ![p] = c]
    BY <2>1 DEF ClaimJob
  <2>4. current'[p] = c /\ c \in DOMAIN jobs /\ jobs'[c].type = jobs[c].type
    BY <1>th, <2>3, ClaimedRows
  <2>5. /\ StoreTypes' /\ \A q \in Procs : q # p => step'[q] = "idle"
        /\ step'[p] = IF jobs[c].type = "index" THEN "parse" ELSE "vecDelete"
    BY <1>t, <2>1, <2>2, <2>4 DEF StoreTypes, stores
  <2>6. thread'[p] = "exec" /\ JobOf(p)' = jobs'[c]
    BY <1>th, <2>1, <2>4 DEF JobOf
  <2>7. Written(JobOf(p).node, JobOf(p).type, step[p], buf[p])'
    BY <2>4, <2>5, <2>6 DEF Written
  <2>8. \A q \in Procs : thread[q] # "exec"
    BY <2>1, <2>2
  <2>9. DoneIsComplete'
    BY <1>q, <2>1, <2>8, NotDoneBy DEF PipeInv, DoneIsComplete, stores, Types, Rows
  <2>10. QED
    BY <2>1, <2>5, <2>6, <2>7, <2>9 DEF PipeInv, ThreadWrote, StoresAgree, stores
<1>9. ASSUME NEW p \in Procs, Parse(p) PROVE PipeInv'
  <2> DEFINE m == JobOf(p).node
             v == disk[m]
  <2>1. /\ At(p, "parse") /\ UNCHANGED <<vars, vec, fts>> /\ v # 0 /\ GoTo(p, "embed")
        /\ doc' = Put(doc, p, v) /\ buf' = [buf EXCEPT ![p] = v]
    BY <1>9 DEF Parse
  <2>2. /\ thread[p] = "exec" /\ m \in Nodes /\ JobOf(p).type = "index"
    BY <2>1, AtStep DEF Steps, Written
  <2>3. JobOf(p)' = JobOf(p)
    BY <2>1 DEF JobOf, vars
  <2> HIDE DEF v
  <2>4. /\ doc' = [n \in Nodes |-> doc'[n]] /\ doc'[m] = v
        /\ \A n \in Nodes : n # m => doc'[n] = doc[n]
    BY <1>t, <2>1, <2>2, PutStore DEF StoreTypes
  <2>5. /\ step' = [q \in Procs |-> step'[q]] /\ step'[p] = "embed"
        /\ \A q \in Procs : q # p => step'[q] = step[q]
    BY <1>t, <2>1, StepGoes
  <2>6. buf' = [q \in Procs |-> buf'[q]] /\ buf'[p] = v
    BY <1>t, <2>1 DEF StoreTypes
  <2>7. StoreTypes'
    BY <1>t, <2>1, <2>4, <2>5, <2>6 DEF StoreTypes
  <2>8. Written(m, JobOf(p).type, step[p], buf[p])'
    BY <2>1, <2>2, <2>3, <2>4, <2>5, <2>6 DEF Written
  <2>9. vec'[m] # 0 /\ fts'[m] # 0 => vec'[m] = fts'[m]
    BY <2>1, <2>2 DEF PipeInv, StoresAgree
  <2>10. QED
    BY <2>1, <2>2, <2>4, <2>5, <2>7, <2>8, <2>9, ThreadStep
(* The steps after it, by what they leave in the stores of the node.       *)
<1>10. ASSUME NEW p \in Procs, NEW s \in Steps \ {"idle"}, At(p, s), UNCHANGED <<vars, buf>>
       PROVE  /\ thread[p] = "exec" /\ JobOf(p).node \in Nodes /\ JobOf(p)' = JobOf(p)
              /\ JobOf(p).type \in {"index", "delete"} /\ buf' = buf
              /\ Written(JobOf(p).node, JobOf(p).type, s, buf[p])
  BY <1>10, AtStep DEF JobOf, vars
<1>11. ASSUME NEW p \in Procs, Embed(p) PROVE PipeInv'
  <2> DEFINE m == JobOf(p).node
  <2>1. At(p, "embed") /\ UNCHANGED <<vars, buf, doc, vec, fts>> /\ GoTo(p, "vecDelete")
    BY <1>11 DEF Embed, stores
  <2>t. thread[p] = "exec" /\ m \in Nodes
    BY <1>10, <2>1 DEF Steps
  <2>2. step'[p] = "vecDelete" => Written(m, JobOf(p).type, step[p], buf[p])'
    BY <1>10, <2>1 DEF Steps, Written
  <2>3. vec[m] # 0 /\ fts[m] # 0 => vec[m] = fts[m]
    BY <1>10, <2>1 DEF Steps, PipeInv, StoresAgree
  <2>4. Sets(doc, doc', p, doc[m]) /\ Sets(vec, vec', p, vec[m]) /\ Sets(fts, fts', p, fts[m])
    BY <2>1 DEF Sets
  <2>5. QED
    BY <2>t, <2>1, <2>2, <2>3, <2>4, Onward
<1>12. ASSUME NEW p \in Procs, VecDelete(p) PROVE PipeInv'
  <2> DEFINE m == JobOf(p).node
  <2>1. /\ At(p, "vecDelete") /\ UNCHANGED <<vars, buf, doc, fts>> /\ GoTo(p, "ftsDelete")
        /\ vec' = Put(vec, p, 0)
    BY <1>12 DEF VecDelete
  <2>t. thread[p] = "exec" /\ m \in Nodes
    BY <1>10, <2>1 DEF Steps
  <2>2. vec'[m] = 0 /\ step'[p] = "ftsDelete" =>
          Written(m, JobOf(p).type, step[p], buf[p])'
    BY <1>10, <2>1 DEF Steps, Written
  <2>3. Sets(doc, doc', p, doc[m]) /\ Sets(vec, vec', p, 0) /\ Sets(fts, fts', p, fts[m])
    BY <2>1 DEF Sets
  <2>4. QED
    BY <2>t, <2>1, <2>2, <2>3, Onward
<1>13. ASSUME NEW p \in Procs, FtsDelete(p) PROVE PipeInv'
  <2> DEFINE m == JobOf(p).node
             s == IF JobOf(p).type = "index" THEN "vecUpsert" ELSE "rmtree"
  <2>1. /\ At(p, "ftsDelete") /\ UNCHANGED <<vars, buf, doc, vec>> /\ GoTo(p, s)
        /\ fts' = Put(fts, p, 0)
    BY <1>13 DEF FtsDelete
  <2>t. thread[p] = "exec" /\ m \in Nodes
    BY <1>10, <2>1 DEF Steps
  <2>2. vec[m] = 0 /\ JobOf(p).type \in {"index", "delete"}
    BY <1>10, <2>1 DEF Steps, Written
  <2>3. fts'[m] = 0 /\ step'[p] = s => Written(m, JobOf(p).type, step[p], buf[p])'
    BY <1>10, <2>1, <2>2 DEF Steps, Written
  <2> HIDE DEF s
  <2>4. Sets(doc, doc', p, doc[m]) /\ Sets(vec, vec', p, 0) /\ Sets(fts, fts', p, 0)
    BY <2>1, <2>2 DEF Sets
  <2>5. QED
    BY <2>t, <2>1, <2>2, <2>3, <2>4, Onward
<1>14. ASSUME NEW p \in Procs, VecUpsert(p) PROVE PipeInv'
  <2> DEFINE m == JobOf(p).node
             v == Rows(buf[p])
  <2>1. /\ At(p, "vecUpsert") /\ UNCHANGED <<vars, buf, doc, fts>> /\ GoTo(p, "ftsUpsert")
        /\ vec' = IF v = 0 THEN vec ELSE Put(vec, p, buf[p])
    BY <1>14 DEF VecUpsert
  <2>t. thread[p] = "exec" /\ m \in Nodes
    BY <1>10, <2>1 DEF Steps
  <2>2. vec[m] = 0 /\ fts[m] = 0
    BY <1>10, <2>1 DEF Steps, Written
  <2>3. v # 0 => v = buf[p]
    BY DEF Rows
  <2>4. (vec' = vec /\ v = vec[m]) \/ vec' = Put(vec, p, v)
    BY <2>1, <2>2, <2>3
  <2>5. vec'[m] = v /\ step'[p] = "ftsUpsert" =>
          Written(m, JobOf(p).type, step[p], buf[p])'
    BY <1>10, <2>1, <2>2 DEF Steps, Written, Rows
  <2> HIDE DEF v
  <2>6. Sets(doc, doc', p, doc[m]) /\ Sets(vec, vec', p, v) /\ Sets(fts, fts', p, 0)
    BY <2>1, <2>2, <2>4 DEF Sets
  <2>7. QED
    BY <2>t, <2>1, <2>2, <2>4, <2>5, <2>6, Onward
<1>15. ASSUME NEW p \in Procs, FtsUpsert(p) PROVE PipeInv'
  <2> DEFINE m == JobOf(p).node
             v == Rows(buf[p])
  <2>1. /\ At(p, "ftsUpsert") /\ UNCHANGED <<vars, buf, doc, vec>> /\ GoTo(p, "end")
        /\ fts' = IF v = 0 THEN fts ELSE Put(fts, p, buf[p])
    BY <1>15 DEF FtsUpsert
  <2>t. thread[p] = "exec" /\ m \in Nodes
    BY <1>10, <2>1 DEF Steps
  <2>2. vec[m] = v /\ fts[m] = 0 /\ JobOf(p).type = "index"
    BY <1>10, <2>1 DEF Steps, Written
  <2>3. v # 0 => v = buf[p]
    BY DEF Rows
  <2>4. (fts' = fts /\ v = fts[m]) \/ fts' = Put(fts, p, v)
    BY <2>1, <2>2, <2>3
  <2>5. fts'[m] = v /\ step'[p] = "end" => Written(m, JobOf(p).type, step[p], buf[p])'
    BY <1>10, <2>1, <2>2 DEF Steps, Written, Rows
  <2> HIDE DEF v
  <2>6. Sets(doc, doc', p, doc[m]) /\ Sets(vec, vec', p, v) /\ Sets(fts, fts', p, v)
    BY <2>1, <2>2, <2>4 DEF Sets
  <2>7. QED
    BY <2>t, <2>1, <2>2, <2>4, <2>5, <2>6, Onward
<1>16. ASSUME NEW p \in Procs, RemoveArtifact(p) PROVE PipeInv'
  <2> DEFINE m == JobOf(p).node
  <2>1. /\ At(p, "rmtree") /\ UNCHANGED <<vars, buf, vec, fts>> /\ GoTo(p, "end")
        /\ doc' = Put(doc, p, 0)
    BY <1>16 DEF RemoveArtifact
  <2>t. thread[p] = "exec" /\ m \in Nodes
    BY <1>10, <2>1 DEF Steps
  <2>2. vec[m] = 0 /\ fts[m] = 0 /\ JobOf(p).type = "delete"
    BY <1>10, <2>1 DEF Steps, Written
  <2>3. doc'[m] = 0 /\ step'[p] = "end" => Written(m, JobOf(p).type, step[p], buf[p])'
    BY <1>10, <2>1, <2>2 DEF Steps, Written
  <2>4. Sets(doc, doc', p, 0) /\ Sets(vec, vec', p, 0) /\ Sets(fts, fts', p, 0)
    BY <2>1, <2>2 DEF Sets
  <2>5. QED
    BY <2>t, <2>1, <2>2, <2>3, <2>4, Onward
<1>17. CASE UNCHANGED pvars
  BY <1>1, <1>17 DEF pvars
<1>18. QED
  BY <1>2, <1>3, <1>4, <1>5, <1>6, <1>7, <1>8, <1>9, <1>11, <1>12, <1>13, <1>14, <1>15, <1>16,
     <1>17 DEF PNext

LEMMA PipeHolds ==
  ASSUME AllowOverlap = FALSE
  PROVE  PSpec => [](PipeInv /\ QueueInv)
<1>1. PSpec => []QueueInv
  BY QueueHolds
<1>2. QED
  BY <1>1, PipeInit, PipeNext, PTL DEF PSpec

(* The vector rows and the FTS rows of a node are never of two versions of *)
(* its file (index/service.py index_node, chunk and vector stores).        *)
THEOREM StoresNeverDiffer ==
  ASSUME AllowOverlap = FALSE
  PROVE  PSpec => []StoresAgree
<1>1. PipeInv => StoresAgree
  BY DEF PipeInv
<1>2. PSpec => [](PipeInv /\ QueueInv)
  BY PipeHolds
<1>3. QED
  BY <1>1, <1>2, PTL

(* A newest job that is done left the three stores complete, whatever      *)
(* older jobs of its node were interrupted, failed or superseded on the way *)
(* (index/service.py, queue_store.py, bootstrap.py).                       *)
THEOREM DoneIsWhole ==
  ASSUME AllowOverlap = FALSE
  PROVE  PSpec => []DoneIsComplete
<1>1. PipeInv => DoneIsComplete
  BY DEF PipeInv
<1>2. PSpec => [](PipeInv /\ QueueInv)
  BY PipeHolds
<1>3. QED
  BY <1>1, <1>2, PTL

-----------------------------------------------------------------------------
(* What the newest job has read is what the disk holds, until the file     *)
(* changes; the request that follows the change makes a newest job that    *)
(* has read nothing, unless it is lost.                                    *)
Current(p, n) == /\ step[p] \notin {"idle", "parse"} /\ JobOf(p).type = "index"
                 /\ JobOf(p).node = n /\ current[p] = nodeState[n].latest

Quiet(n) == due[n] = {} /\ ~lost[n]

FreshTypes == /\ due = [n \in Nodes |-> due[n]] /\ lost = [n \in Nodes |-> lost[n]]
              /\ disk = [n \in Nodes |-> disk[n]]
ReadIsFresh == \A p \in Procs, n \in Nodes : Current(p, n) /\ Quiet(n) => doc[n] = disk[n]
DoneIsFresh == \A n \in Nodes : Quiet(n) /\ Done(n, "index") => doc[n] = disk[n]

FreshInv == FreshTypes /\ ReadIsFresh /\ DoneIsFresh

LEMMA FreshInit == PInit => FreshInv
<1> SUFFICES ASSUME PInit PROVE FreshInv
  OBVIOUS
<1>1. FreshTypes
  BY DEF PInit, FreshTypes
<1>2. ReadIsFresh
  BY DEF PInit, ReadIsFresh, Current
<1>3. DoneIsFresh
  BY DEF PInit, Init, DoneIsFresh, Done
<1>4. QED
  BY <1>1, <1>2, <1>3 DEF FreshInv

LEMMA FreshImplies == FreshInv => FreshUnlessLost
BY DEF FreshUnlessLost, FreshInv, DoneIsFresh, Quiet

(* A step of the queue: the threads that go on are where they were.        *)
LEMMA FreshQueue ==
  ASSUME QueueInv, PipeInv, FreshInv, [Next]_vars,
         UNCHANGED <<doc, disk, due, lost, nodeState>>,
         \A p \in Procs : \/ step'[p] \in {"idle", "parse"} \/ JobOf(p)'.type = "delete"
                          \/ step'[p] = step[p] /\ UNCHANGED current,
         \A n \in Nodes : Done(n, "index")' /\ Quiet(n) => Done(n, "index") \/ doc[n] = disk[n]
  PROVE  FreshInv'
<1>1. \A n \in Nodes : Quiet(n)' = Quiet(n)
  BY DEF Quiet
<1>2. ASSUME NEW p \in Procs, NEW n \in Nodes, Current(p, n)' PROVE Current(p, n)
  <2>1. /\ step'[p] \notin {"idle", "parse"} /\ JobOf(p)'.type = "index"
        /\ JobOf(p)'.node = n /\ current'[p] = nodeState'[n].latest
    BY <1>2 DEF Current
  <2>2. step'[p] = step[p] /\ UNCHANGED current
    BY <2>1
  <2>3. current[p] \in DOMAIN jobs
    BY <2>1, <2>2, Alone DEF PipeInv, ThreadWrote
  <2>4. JobOf(p)'.node = JobOf(p).node /\ JobOf(p)'.type = JobOf(p).type
    BY <2>2, <2>3, RowsStay DEF JobOf
  <2>5. QED
    BY <2>1, <2>2, <2>4 DEF Current
<1>3. ReadIsFresh' /\ DoneIsFresh'
  BY <1>1, <1>2 DEF FreshInv, ReadIsFresh, DoneIsFresh
<1>4. FreshTypes'
  BY DEF FreshInv, FreshTypes
<1>5. QED
  BY <1>3, <1>4 DEF FreshInv

(* A step of the thread that executes: it writes document.md of its own    *)
(* node only, to what the disk holds if it indexes.                        *)
LEMMA FreshThread ==
  ASSUME QueueInv, PipeInv, FreshInv, UNCHANGED <<vars, disk, due>>, FreshTypes',
         NEW p \in Procs, thread[p] = "exec",
         \A q \in Procs : q # p => step'[q] = step[q],
         \A n \in Nodes : n # JobOf(p).node => doc'[n] = doc[n] /\ lost'[n] = lost[n],
         Current(p, JobOf(p).node)' /\ Quiet(JobOf(p).node)' =>
           doc'[JobOf(p).node] = disk[JobOf(p).node]
  PROVE  FreshInv'
<1> DEFINE m == JobOf(p).node
<1>1. /\ m \in Nodes /\ current[p] \in Running
      /\ \A q \in Procs : q # p => step[q] = "idle"
  BY Alone DEF PipeInv
<1>2. UNCHANGED <<jobs, nodeState, thread, current>> /\ JobOf(p)' = JobOf(p)
  BY DEF vars, JobOf
<1>3. ~Done(m, "index")
  BY <1>1, BusyNotDone DEF JobOf
<1>4. \A n \in Nodes : Done(n, "index")' = Done(n, "index")
  BY <1>2 DEF Done
<1>5. \A n \in Nodes : n # m => Quiet(n)' = Quiet(n)
  BY DEF Quiet
<1>6. \A q \in Procs, n \in Nodes : Current(q, n)' => q = p /\ n = m
  BY <1>1, <1>2 DEF Current
<1>7. ReadIsFresh'
  <2> SUFFICES ASSUME NEW q \in Procs, NEW n \in Nodes, Current(q, n)', Quiet(n)'
               PROVE  doc'[n] = disk'[n]
    BY DEF ReadIsFresh
  <2>1. q = p /\ n = m /\ (JobOf(p).node)' = m
    BY <1>2, <1>6
  <2>2. Current(p, JobOf(p).node)' /\ Quiet(JobOf(p).node)'
    BY <2>1 DEF Current, Quiet
  <2>3. QED
    BY <2>1, <2>2
<1>8. DoneIsFresh'
  BY <1>3, <1>4, <1>5 DEF FreshInv, DoneIsFresh
<1>9. QED
  BY <1>7, <1>8 DEF FreshInv

LEMMA FreshNext == FreshInv /\ PipeInv /\ QueueInv /\ [PNext]_pvars => FreshInv'
<1> SUFFICES ASSUME FreshInv, PipeInv, QueueInv, [PNext]_pvars PROVE FreshInv'
  OBVIOUS
<1>q. [Next]_vars
  BY QueueStep
<1>t. FreshTypes /\ StoreTypes /\ ThreadWrote
  BY DEF FreshInv, PipeInv
<1>th. /\ thread \in [Procs -> {"none", "boot", "loop", "exec"}] /\ jobs \in Seq(Job)
       /\ current \in [Procs -> Nat] /\ ThreadsHold /\ asked \in [Nodes -> Types \cup {"none"}]
       /\ nodeState \in [Nodes -> NodeRow] /\ LatestIsNewest
  BY DEF QueueInv, TypeOK, ExclusiveInv
(* The file changes, or a request for it fails: the node is quiet no more. *)
<1>1. ASSUME NEW n \in Nodes, Write(n) \/ Remove(n) \/ \E t \in Types : RequestFails(n, t)
      PROVE  FreshInv'
  <2>1. UNCHANGED <<jobs, nodeState, current, doc, step>>
    BY <1>1 DEF Write, Remove, RequestFails, vars, stores
  <2>2. \E S : due' = [due EXCEPT ![n] = S]
    BY <1>1 DEF Write, Remove, RequestFails
  <2>3. \/ lost' = [lost EXCEPT ![n] = TRUE]
        \/ UNCHANGED lost /\ \E t \in Types : due' = [due EXCEPT ![n] = @ \cup {t}]
    BY <1>1, Zenon DEF Write, Remove, RequestFails, Types
  <2>4. \E v : disk' = [disk EXCEPT ![n] = v] \/ disk' = disk
    BY <1>1 DEF Write, Remove, RequestFails
  <2>5. /\ due' = [k \in Nodes |-> due'[k]] /\ disk' = [k \in Nodes |-> disk'[k]]
        /\ \A k \in Nodes : k # n => due'[k] = due[k] /\ disk'[k] = disk[k]
    BY <1>t, <2>2, <2>4 DEF FreshTypes
  <2>6. lost' = [k \in Nodes |-> lost'[k]] /\ \A k \in Nodes : k # n => lost'[k] = lost[k]
    BY <1>t, <2>3, Zenon DEF FreshTypes
  <2>7. ~Quiet(n)'
    <3>1. CASE lost' = [lost EXCEPT ![n] = TRUE]
      BY <1>t, <3>1, Zenon DEF FreshTypes, Quiet
    <3>2. CASE \E t \in Types : due' = [due EXCEPT ![n] = @ \cup {t}]
      BY <1>t, <3>2 DEF FreshTypes, Quiet
    <3>3. QED
      BY <2>3, <3>1, <3>2
  <2>8. \A k \in Nodes : Quiet(k)' => k # n /\ Quiet(k)
    BY <2>5, <2>6, <2>7, Zenon DEF Quiet
  <2>9. /\ \A k \in Nodes, p \in Procs : Current(p, k)' = Current(p, k)
        /\ \A k \in Nodes : Done(k, "index")' = Done(k, "index")
    BY <2>1 DEF Current, JobOf, Done
  <2>10. ReadIsFresh' /\ DoneIsFresh'
    BY <2>1, <2>5, <2>8, <2>9 DEF FreshInv, ReadIsFresh, DoneIsFresh
  <2>11. FreshTypes'
    BY <2>5, <2>6 DEF FreshTypes
  <2>12. QED
    BY <2>10, <2>11 DEF FreshInv
(* If a request inserts a job, that is newest and has read nothing; if it  *)
(* is coalesced, the live job has read nothing either, or it is lost.      *)
<1>2. ASSUME NEW p \in Procs, NEW n \in Nodes, NEW t \in Types, Request(p, n, t) PROVE FreshInv'
  <2> DEFINE a == Coalesces(n, t) /\ (lost[n] \/ ReadAlready(n))
  <2>d. due' = [due EXCEPT ![n] = @ \ {t}] \/ due' = due
    BY <1>2 DEF Request
  <2>1. /\ UNCHANGED <<doc, step, disk, thread, current>>
        /\ InsertJob(n, t) \/ (Coalesces(n, t) /\ UNCHANGED <<jobs, nodeState>>)
    BY <1>2 DEF Request, Enqueue, procs, stores
  <2>a. lost' = [lost EXCEPT ![n] = a]
    BY <1>2, Zenon DEF Request
  <2>3. /\ lost' = [k \in Nodes |-> lost'[k]] /\ lost'[n] = a
        /\ \A k \in Nodes : k # n => lost'[k] = lost[k]
    <3> HIDE DEF a
    <3> QED BY <1>t, <2>a, Zenon DEF FreshTypes
  <2>4. /\ due' = [k \in Nodes |-> due'[k]]
        /\ \A k \in Nodes : k # n => due'[k] = due[k]
    BY <1>t, <2>d DEF FreshTypes
  <2>5. FreshTypes'
    BY <1>t, <2>1, <2>3, <2>4 DEF FreshTypes
  <2>7. \A k \in Nodes : Quiet(k)' => (k # n => Quiet(k)) /\ (k = n => ~a)
    BY <2>3, <2>4 DEF Quiet
  <2>8. CASE InsertJob(n, t)
    <3>1. /\ \A i \in DOMAIN jobs : jobs'[i] = jobs[i] /\ i # Len(jobs) + 1
          /\ jobs'[Len(jobs) + 1].status = "queued"
      BY <1>th, <2>8, InsertedRow DEF InsertJob
    <3>2. /\ nodeState'[n].latest = Len(jobs) + 1
          /\ \A k \in Nodes : k # n => nodeState'[k] = nodeState[k]
      BY <1>th, <2>8 DEF InsertJob
    <3>3. ASSUME NEW q \in Procs, NEW k \in Nodes, Current(q, k)'
          PROVE  k # n /\ Current(q, k)
      <4>1. current[q] \in DOMAIN jobs
        BY <2>1, <3>3, Alone DEF Current, PipeInv, ThreadWrote
      <4>2. JobOf(q)' = JobOf(q)
        BY <2>1, <3>1, <4>1 DEF JobOf
      <4>3. k # n
        BY <2>1, <3>1, <3>2, <3>3, <4>1 DEF Current
      <4>4. QED
        BY <2>1, <3>2, <3>3, <4>2, <4>3 DEF Current
    <3>4. ASSUME NEW k \in Nodes, Done(k, "index")' PROVE k # n /\ Done(k, "index")
      <4>1. k # n
        BY <3>1, <3>2, <3>4 DEF Done
      <4>2. nodeState[k].latest # 0 => nodeState[k].latest \in DOMAIN jobs
        BY <1>th DEF LatestIsNewest
      <4>3. QED
        BY <3>1, <3>2, <3>4, <4>1, <4>2 DEF Done
    <3>5. ReadIsFresh' /\ DoneIsFresh'
      BY <2>1, <2>7, <3>3, <3>4 DEF FreshInv, ReadIsFresh, DoneIsFresh
    <3>6. QED
      BY <2>5, <3>5 DEF FreshInv
  <2>9. CASE Coalesces(n, t) /\ UNCHANGED <<jobs, nodeState>>
    <3>1. /\ \A q \in Procs, k \in Nodes : Current(q, k)' = Current(q, k)
          /\ \A k \in Nodes : Done(k, "index")' = Done(k, "index")
      BY <2>1, <2>9 DEF Current, JobOf, Done
    <3>2. ~Done(n, "index")
      BY <2>9 DEF Coalesces, Done, Live
    <3>3. \A q \in Procs : Current(q, n) => a
      BY <2>9 DEF Current, ReadAlready
    <3>4. \A q \in Procs, k \in Nodes : Current(q, k)' /\ Quiet(k)' => k # n
      BY <2>7, <3>1, <3>3
    <3>5. \A k \in Nodes : Done(k, "index")' => k # n
      BY <3>1, <3>2
    <3> HIDE DEF a
    <3>6. ReadIsFresh' /\ DoneIsFresh'
      BY <2>1, <2>7, <3>1, <3>4, <3>5 DEF FreshInv, ReadIsFresh, DoneIsFresh
    <3>7. QED
      BY <2>5, <3>6 DEF FreshInv
  <2>10. QED
    BY <2>1, <2>8, <2>9
(* The queue and the threads' lives: no job becomes done.                  *)
<1>3. ASSUME NEW p \in Procs, Boots(p) PROVE FreshInv'
  <2>1. UNCHANGED <<files, stores, step, lost, current, nodeState>>
    BY <1>3 DEF Boots, Launch, Orphan, Stop, Boot, ClaimNone, procs, store
  <2>2. UNCHANGED <<doc, disk, due>>
    BY <2>1 DEF files, stores
  <2>3. thread[p] # "exec" \/ UNCHANGED thread
    BY <1>3, <1>th DEF Boots, Launch, Orphan, Stop, Boot, ClaimNone, CanClaim, procs, ThreadsHold
  <2>4. \A q \in Procs : q # p => thread'[q] = thread[q]
    BY <1>3, <1>th DEF Boots, Launch, Orphan, Stop, Boot, ClaimNone, procs
  <2>5. \A q \in Procs : thread[q] = "exec" => thread'[q] # "loop"
    BY <2>3, <2>4
  <2>6. \A n \in Nodes : Done(n, "index")' => Done(n, "index")
    BY <1>q, <2>5, NotDoneBy DEF Types
  <2>7. QED
    BY <1>q, <2>1, <2>2, <2>6, FreshQueue
<1>4. ASSUME NEW p \in Procs, Dies(p) PROVE FreshInv'
  <2>1. /\ main[p] # "down" /\ Drop(p) /\ thread' = [thread EXCEPT ![p] = "none"]
        /\ UNCHANGED <<nodeState>>
    BY <1>4, <1>th DEF Dies, Die, Fault, ThreadsHold, store
  <2>2. UNCHANGED <<doc, disk, due, lost>>
    BY <2>1 DEF Drop, files, stores
  <2>3. \A q \in Procs : step'[q] = "idle" /\ (q # p => thread[q] = "none")
    BY <1>t, <2>1, Drops
  <2>4. \A q \in Procs : thread[q] = "exec" => thread'[q] # "loop"
    BY <1>th, <2>1, <2>3
  <2>5. \A n \in Nodes : Done(n, "index")' => Done(n, "index")
    BY <1>q, <2>4, NotDoneBy DEF Types
  <2>6. QED
    BY <1>q, <2>1, <2>2, <2>3, <2>5, FreshQueue
<1>5. ASSUME NEW p \in Procs, Raise(p) PROVE FreshInv'
  <2>1. /\ Drop(p) /\ thread[p] = "exec" /\ jobs' = SetStatus({current[p]}, "failed")
        /\ UNCHANGED <<nodeState>>
    BY <1>5 DEF Raise, MarkFailed, Settle
  <2>2. UNCHANGED <<doc, disk, due, lost>>
    BY <2>1 DEF Drop, files, stores
  <2>3. main[p] # "down" /\ current[p] \in DOMAIN jobs
    BY <1>th, <2>1 DEF ThreadsHold, Running
  <2>4. \A q \in Procs : step'[q] = "idle" /\ (q # p => thread[q] = "none")
    BY <1>t, <2>1, <2>3, Drops
  <2>5. jobs'[current[p]].status = "failed"
    BY <1>th, <2>1, <2>3, SetStatusRows DEF Status
  <2>6. \A q \in Procs : thread[q] = "exec" => jobs'[current[q]].status # "done"
    BY <2>4, <2>5
  <2>7. \A n \in Nodes : Done(n, "index")' => Done(n, "index")
    BY <1>q, <2>6, NotDoneBy DEF Types
  <2>8. QED
    BY <1>q, <2>1, <2>2, <2>4, <2>7, FreshQueue
<1>6. ASSUME NEW p \in Procs, Claim(p) PROVE FreshInv'
  <2>1. /\ ClaimJob(p) /\ UNCHANGED <<files, stores, lost, nodeState>>
        /\ thread[p] = "loop" /\ thread' = [thread EXCEPT ![p] = "exec"]
        /\ step' = [step EXCEPT ![p] =
                      IF jobs[current'[p]].type = "index" THEN "parse" ELSE "vecDelete"]
    BY <1>6 DEF Claim, ClaimJob, CanClaim
  <2>2. UNCHANGED <<doc, disk, due>>
    BY <2>1 DEF files, stores
  <2>3. \A q \in Procs : q # p => thread[q] = "none" /\ step[q] = "idle"
    BY <1>t, <1>th, <2>1 DEF QueueInv, ExclusiveInv, OneProcess, ThreadsHold, ThreadWrote
  <2>4. PICK c \in Wanted : jobs' = Claimed(c) /\ current' = [current EXCEPT ![p] = c]
    BY <2>1 DEF ClaimJob
  <2>5. current'[p] = c /\ jobs'[c].type = jobs[c].type /\ jobs[c].type \in Types
    <3>1. c \in DOMAIN jobs /\ jobs[c] \in Job /\ current'[p] = c
      BY <1>th, <2>4 DEF Wanted, Queued
    <3>2. jobs'[c].type = jobs[c].type
      BY <1>th, <2>4, <3>1, ClaimedRows
    <3>3. QED
      BY <3>1, <3>2 DEF Job
  <2>6. /\ \A q \in Procs : q # p => step'[q] = "idle"
        /\ step'[p] = IF jobs[c].type = "index" THEN "parse" ELSE "vecDelete"
    BY <1>t, <2>1, <2>3, <2>5 DEF StoreTypes
  <2>7. JobOf(p)'.type = jobs[c].type
    BY <2>5 DEF JobOf
  <2>8. \A q \in Procs : step'[q] \in {"idle", "parse"} \/ JobOf(q)'.type = "delete"
    BY <2>5, <2>6, <2>7 DEF Types
  <2>9. \A q \in Procs : thread[q] # "exec"
    BY <2>1, <2>3
  <2>10. \A n \in Nodes : Done(n, "index")' => Done(n, "index")
    BY <1>q, <2>9, NotDoneBy DEF Types
  <2>11. QED
    BY <1>q, <2>1, <2>2, <2>8, <2>10, FreshQueue
(* The newest job of its node is done, with what it has read.              *)
<1>7. ASSUME NEW p \in Procs, Finish(p) PROVE FreshInv'
  <2>1. At(p, "end") /\ MarkDone(p) /\ Drop(p) /\ UNCHANGED <<nodeState>>
    BY <1>7 DEF Finish, MarkDone, Settle
  <2>2. UNCHANGED <<doc, disk, due, lost>> /\ thread[p] = "exec" /\ step[p] = "end"
    BY <2>1 DEF Drop, files, stores, At
  <2>3. main[p] # "down"
    BY <1>th, <2>2 DEF ThreadsHold
  <2>4. \A q \in Procs : step'[q] = "idle" /\ (q # p => thread[q] = "none")
    BY <1>t, <2>1, <2>3, Drops
  <2>5. ASSUME NEW n \in Nodes, Done(n, "index")', Quiet(n)
        PROVE  Done(n, "index") \/ doc[n] = disk[n]
    <3> SUFFICES ASSUME ~Done(n, "index") PROVE doc[n] = disk[n]
      OBVIOUS
    <3>1. PICK q \in Procs : /\ MarkDone(q) /\ current[q] = nodeState[n].latest
                             /\ jobs[current[q]].node = n /\ jobs[current[q]].type = "index"
      BY <1>q, <2>5, DoneBy
    <3>2. q = p
      BY <2>4, <3>1 DEF MarkDone, Settle
    <3>3. Current(p, n)
      BY <2>2, <3>1, <3>2 DEF Current, JobOf
    <3>4. QED
      BY <2>5, <3>3 DEF FreshInv, ReadIsFresh
  <2>6. QED
    BY <1>q, <2>1, <2>2, <2>4, <2>5, FreshQueue
(* The job reads the file: what it writes is what the disk holds.          *)
<1>8. ASSUME NEW p \in Procs, Parse(p) PROVE FreshInv'
  <2> DEFINE m == JobOf(p).node
  <2>1. /\ At(p, "parse") /\ UNCHANGED <<vars, files>> /\ GoTo(p, "embed")
        /\ doc' = Put(doc, p, disk[m])
    BY <1>8 DEF Parse
  <2>a. lost' = Put(lost, p, FALSE)
    BY <1>8, Zenon DEF Parse
  <2>2. thread[p] = "exec" /\ m \in Nodes
    BY <2>1, AtStep DEF Steps
  <2>3. UNCHANGED <<disk, due>> /\ JobOf(p)' = JobOf(p)
    BY <2>1 DEF files, JobOf, vars
  <2>4. doc'[m] = disk[m] /\ \A n \in Nodes : n # m => doc'[n] = doc[n]
    BY <1>t, <2>1, <2>2, PutStore DEF StoreTypes
  <2>5. /\ lost' = [n \in Nodes |-> lost'[n]]
        /\ \A n \in Nodes : n # m => lost'[n] = lost[n]
    <3>1. lost' = [lost EXCEPT ![m] = FALSE]
      BY <2>a, Zenon DEF Put
    <3> HIDE DEF m
    <3>2. QED
      BY <1>t, <3>1, Zenon DEF FreshTypes
  <2>6. \A q \in Procs : q # p => step'[q] = step[q]
    BY <1>t, <2>1, StepGoes
  <2>7. FreshTypes'
    BY <1>t, <2>3, <2>5 DEF FreshTypes
  <2>8. QED
    BY <2>1, <2>2, <2>3, <2>4, <2>5, <2>6, <2>7, FreshThread
(* A later step that leaves document.md alone: it was right, it still is.  *)
<1>9. ASSUME NEW p \in Procs, NEW s \in Steps \ {"idle", "parse"}, NEW g, At(p, s), GoTo(p, g),
             UNCHANGED <<vars, files, doc, lost>>
      PROVE  FreshInv'
  <2> DEFINE m == JobOf(p).node
  <2>1. thread[p] = "exec" /\ m \in Nodes /\ step[p] \notin {"idle", "parse"}
    BY <1>9, AtStep DEF At
  <2>2. /\ UNCHANGED <<disk, due, nodeState, current>> /\ JobOf(p)' = JobOf(p)
        /\ FreshTypes'
    BY <1>t, <1>9 DEF files, JobOf, vars, FreshTypes
  <2>3. \A q \in Procs : q # p => step'[q] = step[q]
    BY <1>t, <1>9, StepGoes
  <2>4. Current(p, JobOf(p).node)' /\ Quiet(JobOf(p).node)' => Current(p, m) /\ Quiet(m)
    BY <1>9, <2>1, <2>2 DEF Current, Quiet
  <2>5. Current(p, m) /\ Quiet(m) => doc[m] = disk[m]
    BY <2>1 DEF FreshInv, ReadIsFresh
  <2>6. QED
    BY <1>9, <2>1, <2>2, <2>3, <2>4, <2>5, FreshThread
<1>10. ASSUME NEW p \in Procs,
              Embed(p) \/ VecDelete(p) \/ FtsDelete(p) \/ VecUpsert(p) \/ FtsUpsert(p)
       PROVE  FreshInv'
  <2>1. PICK s \in Steps \ {"idle", "parse"} :
          At(p, s) /\ (\E g : GoTo(p, g)) /\ UNCHANGED <<vars, files, doc, lost>>
    BY <1>10 DEF Embed, VecDelete, FtsDelete, VecUpsert, FtsUpsert, stores, Steps
  <2>2. PICK g : GoTo(p, g)
    BY <2>1
  <2>3. QED
    BY <1>9, <2>1, <2>2
(* A delete job takes document.md away; it is about no file that was read. *)
<1>11. ASSUME NEW p \in Procs, RemoveArtifact(p) PROVE FreshInv'
  <2> DEFINE m == JobOf(p).node
  <2>1. /\ At(p, "rmtree") /\ UNCHANGED <<vars, files, lost>> /\ GoTo(p, "end")
        /\ doc' = Put(doc, p, 0)
    BY <1>11 DEF RemoveArtifact
  <2>2. thread[p] = "exec" /\ m \in Nodes /\ JobOf(p).type = "delete"
    BY <2>1, AtStep DEF Steps, Written
  <2>3. UNCHANGED <<disk, due>> /\ JobOf(p)' = JobOf(p) /\ FreshTypes'
    BY <1>t, <2>1 DEF files, JobOf, vars, FreshTypes
  <2>4. \A n \in Nodes : n # m => doc'[n] = doc[n]
    BY <1>t, <2>1, <2>2, PutStore DEF StoreTypes
  <2>5. \A q \in Procs : q # p => step'[q] = step[q]
    BY <1>t, <2>1, StepGoes
  <2>6. ~Current(p, JobOf(p).node)'
    BY <2>2, <2>3 DEF Current
  <2>7. QED
    BY <2>1, <2>2, <2>3, <2>4, <2>5, <2>6, FreshThread
<1>12. CASE UNCHANGED pvars
  <2>1. UNCHANGED <<vars, files, stores, step, lost>>
    BY <1>12 DEF pvars
  <2>2. UNCHANGED <<jobs, nodeState, current, disk, due, doc, step, lost>>
    BY <2>1 DEF vars, files, stores
  <2>3. FreshTypes'
    BY <2>2 DEF FreshInv, FreshTypes
  <2>4. ReadIsFresh' /\ DoneIsFresh'
    BY <2>2 DEF FreshInv, ReadIsFresh, DoneIsFresh, Current, Quiet, Done, JobOf
  <2>5. QED
    BY <2>3, <2>4 DEF FreshInv
<1>13. QED
  BY <1>1, <1>2, <1>3, <1>4, <1>5, <1>6, <1>7, <1>8, <1>10, <1>11, <1>12 DEF PNext

(* When every change of a file has been through its hook and the node's    *)
(* newest job is a finished index, the index holds what the disk holds, or *)
(* a request of the node failed or came too late for the job it was        *)
(* coalesced onto, and the file has not been read since (indexing-hooks.ts,*)
(* queue_store.py, index/service.py).                                      *)
THEOREM FreshOrLost ==
  ASSUME AllowOverlap = FALSE
  PROVE  PSpec => []FreshUnlessLost
<1>1. PSpec => [](PipeInv /\ QueueInv)
  BY PipeHolds
<1>2. QED
  BY <1>1, FreshInit, FreshNext, FreshImplies, PTL DEF PSpec

-----------------------------------------------------------------------------
(* A job that is done is older than the one that runs, for the live jobs   *)
(* are the tail of the table with the running one in front.                *)
LEMMA DoneIsOlder ==
  ASSUME QueueInv, NEW i \in Running, NEW j \in DOMAIN jobs, jobs[j].status = "done"
  PROVE  j < i
<1>1. /\ i \in DOMAIN jobs /\ jobs[i].status = "running" /\ jobs \in Seq(Job) /\ LiveTail
  BY DEF QueueInv, ExclusiveInv, Running, TypeOK
<1>2. i \in Nat /\ j \in Nat
  BY <1>1
<1>3. i # j /\ ~(i < j)
  BY <1>1 DEF LiveTail, Live
<1>4. QED
  BY <1>2, <1>3

(* The stores are written in the order of the requests: no job touches a   *)
(* node after a younger one of it was done (index/service.py, bootstrap.py)*)
THEOREM WrittenInTurn ==
  ASSUME AllowOverlap = FALSE
  PROVE  PSpec => WritesInOrder
<1>1. QueueInv /\ PipeInv /\ [PNext]_pvars => [TouchesInOrder]_pvars
  <2> SUFFICES ASSUME QueueInv, PipeInv, PNext PROVE TouchesInOrder
    OBVIOUS
  <2>t. StoreTypes
    BY DEF PipeInv
  <2>1. CASE UNCHANGED stores
    BY <2>1 DEF stores, TouchesInOrder
  <2>2. ASSUME NEW p \in Procs, NEW s \in Steps \ {"idle"}, At(p, s), NEW v,
               doc' = doc \/ doc' = Put(doc, p, v),
               vec' = vec \/ vec' = Put(vec, p, v),
               fts' = fts \/ fts' = Put(fts, p, v)
        PROVE  TouchesInOrder
    <3>1. thread[p] = "exec" /\ step[p] # "idle" /\ JobOf(p).node \in Nodes
      BY <2>2, AtStep
    <3>2. \A n \in Nodes : n # JobOf(p).node =>
            doc'[n] = doc[n] /\ vec'[n] = vec[n] /\ fts'[n] = fts[n]
      BY <2>t, <2>2, <3>1, PutStore DEF StoreTypes
    <3>3. current[p] \in Running
      BY <3>1, Alone DEF PipeInv
    <3>4. \A i \in DOMAIN jobs : jobs[i].status = "done" => i < current[p]
      BY <3>3, DoneIsOlder
    <3>5. QED
      BY <3>1, <3>4 DEF TouchesInOrder
  <2>3. ASSUME NEW p \in Procs, Parse(p) PROVE TouchesInOrder
    BY <2>2, <2>3 DEF Parse, Steps
  <2>4. ASSUME NEW p \in Procs, VecDelete(p) \/ FtsDelete(p) PROVE TouchesInOrder
    BY <2>2, <2>4 DEF VecDelete, FtsDelete, Steps
  <2>5. ASSUME NEW p \in Procs, VecUpsert(p) \/ FtsUpsert(p) PROVE TouchesInOrder
    BY <2>2, <2>5 DEF VecUpsert, FtsUpsert, Steps
  <2>6. ASSUME NEW p \in Procs, RemoveArtifact(p) PROVE TouchesInOrder
    BY <2>2, <2>6 DEF RemoveArtifact, Steps
  <2>7. ASSUME NEW p \in Procs, Embed(p) \/ Boots(p) \/ Claim(p) PROVE UNCHANGED stores
    BY <2>7 DEF Embed, Boots, Claim
  <2>8. ASSUME NEW p \in Procs, Dies(p) \/ Finish(p) \/ Raise(p) PROVE UNCHANGED stores
    BY <2>8 DEF Dies, Finish, Raise, Drop
  <2>9. ASSUME NEW n \in Nodes, \/ Write(n) \/ Remove(n)
                               \/ \E t \in Types : \/ RequestFails(n, t)
                                                   \/ \E p \in Procs : Request(p, n, t)
         PROVE  UNCHANGED stores
    BY <2>9 DEF Write, Remove, RequestFails, Request
  <2>10. QED
    BY <2>1, <2>3, <2>4, <2>5, <2>6, <2>7, <2>8, <2>9 DEF PNext
<1>2. PSpec => [](PipeInv /\ QueueInv)
  BY PipeHolds
<1>3. QED
  BY <1>1, <1>2, PTL DEF PSpec, WritesInOrder

-----------------------------------------------------------------------------
(* The pipeline's own types: the queue's are TypeCorrect of its module.    *)
Versions == 0..MaxEdits
FileTypes == /\ edits \in [Nodes -> Versions] /\ disk \in [Nodes -> Versions]
             /\ due \in [Nodes -> SUBSET Types]
RowTypes == /\ doc \in [Nodes -> Versions] /\ vec \in [Nodes -> Versions]
            /\ fts \in [Nodes -> Versions]
JobTypes == step \in [Procs -> Steps] /\ buf \in [Procs -> Versions]
PipeTypes == FileTypes /\ RowTypes /\ JobTypes /\ lost \in [Nodes -> BOOLEAN]

LEMMA PutTypes ==
  ASSUME NEW S, NEW s \in [Nodes -> S], NEW p, NEW v \in S
  PROVE  Put(s, p, v) \in [Nodes -> S]
<1> DEFINE m == JobOf(p).node
<1>1. Put(s, p, v) = [s EXCEPT ![m] = v]
  BY DEF Put
<1> HIDE DEF m
<1>2. QED
  BY <1>1

LEMMA PutFalse ==
  ASSUME lost \in [Nodes -> BOOLEAN], NEW p
  PROVE  Put(lost, p, FALSE) \in [Nodes -> BOOLEAN]
BY PutTypes, Zenon

LEMMA StepTypes ==
  ASSUME step \in [Procs -> Steps], NEW p, NEW s \in Steps, GoTo(p, s)
  PROVE  step' \in [Procs -> Steps]
BY DEF GoTo

(* A thread that executes has a job of the table, be it alone or not.      *)
HasJob == \A p \in Procs : thread[p] = "exec" => current[p] \in DOMAIN jobs

LEMMA HasJobNext == TypeOK /\ HasJob /\ [Next]_vars => HasJob'
<1> SUFFICES ASSUME TypeOK, HasJob, [Next]_vars PROVE HasJob'
  OBVIOUS
<1>t. /\ jobs \in Seq(Job) /\ current \in [Procs -> Nat]
      /\ thread \in [Procs -> {"none", "boot", "loop", "exec"}]
  BY DEF TypeOK
<1>1. DOMAIN jobs \subseteq DOMAIN jobs'
  <2>1. ASSUME NEW n \in Nodes, NEW t \in Types, InsertJob(n, t)
        PROVE  DOMAIN jobs \subseteq DOMAIN jobs'
    BY <1>t, <2>1, InsertedRow DEF InsertJob
  <2>2. ASSUME NEW S, NEW s \in Status, jobs' = SetStatus(S, s) PROVE DOMAIN jobs' = DOMAIN jobs
    BY <1>t, <2>2, SetStatusRows
  <2>3. ASSUME NEW c \in Wanted, jobs' = Claimed(c) PROVE DOMAIN jobs' = DOMAIN jobs
    BY <1>t, <2>3, ClaimedRows
  <2>4. QED
    BY <2>1, <2>2, <2>3
       DEF Next, vars, store, procs, Launch, Orphan, Stop, Die, Enqueue, Boot, ClaimJob, ClaimNone,
           MarkDone, MarkFailed, Settle, Fault, Status, Live
<1>2. ASSUME NEW p \in Procs, ClaimJob(p) PROVE HasJob'
  <2>1. PICK c \in Wanted : current' = [current EXCEPT ![p] = c]
    BY <1>2 DEF ClaimJob
  <2>2. c \in DOMAIN jobs /\ thread' = [thread EXCEPT ![p] = "exec"]
    BY <1>2, <2>1 DEF ClaimJob, Wanted, Queued
  <2>3. \A q \in Procs : IF q = p THEN current'[q] = c
                         ELSE current'[q] = current[q] /\ thread'[q] = thread[q]
    BY <1>t, <2>1, <2>2
  <2>4. QED
    BY <1>1, <2>2, <2>3 DEF HasJob
<1>3. CASE \A q \in Procs : thread'[q] = "exec" => thread[q] = "exec" /\ current'[q] = current[q]
  BY <1>1, <1>3 DEF HasJob
<1>4. ASSUME NEW p \in Procs, \/ Launch(p) \/ Orphan(p) \/ Stop(p) \/ Die(p) \/ Boot(p)
                              \/ ClaimNone(p) \/ MarkDone(p) \/ MarkFailed(p) \/ Fault(p)
                              \/ \E n \in Nodes, t \in Types : Enqueue(p, n, t)
      PROVE  HasJob'
  <2>1. UNCHANGED current \/ current' = [current EXCEPT ![p] = 0]
    BY <1>4 DEF Launch, Orphan, Stop, Die, Boot, ClaimNone, MarkDone, MarkFailed, Settle, Fault,
                Enqueue, procs
  <2>2. \/ UNCHANGED <<thread, current>>
        \/ \E s \in {"none", "boot", "loop"} : thread' = [thread EXCEPT ![p] = s]
    BY <1>4 DEF Launch, Orphan, Stop, Die, Boot, ClaimNone, MarkDone, MarkFailed, Settle, Fault,
                Enqueue, procs
  <2>3. QED
    BY <1>t, <1>3, <2>1, <2>2
<1>5. CASE UNCHANGED vars
  BY <1>3, <1>5 DEF vars, procs
<1>6. QED
  BY <1>2, <1>4, <1>5 DEF Next

LEMMA PipeTypesNext == PipeTypes /\ TypeOK /\ HasJob /\ [PNext]_pvars => PipeTypes'
<1> SUFFICES ASSUME PipeTypes, TypeOK, HasJob, [PNext]_pvars PROVE PipeTypes'
  OBVIOUS
<1>t. FileTypes /\ RowTypes /\ JobTypes /\ lost \in [Nodes -> BOOLEAN] /\ 0 \in Versions
  BY PipelineAssumption DEF PipeTypes, Versions
<1>1. ASSUME NEW n \in Nodes, Write(n) \/ Remove(n) PROVE PipeTypes'
  <2>1. UNCHANGED <<stores, step, buf, lost>>
    BY <1>1 DEF Write, Remove
  <2>2. edits' \in [Nodes -> Versions] /\ disk' \in [Nodes -> Versions]
    BY <1>1, <1>t, PipelineAssumption DEF Write, Remove, FileTypes, Versions
  <2>3. due' \in [Nodes -> SUBSET Types]
    <3>1. \E t \in Types : due' = [due EXCEPT ![n] = @ \cup {t}]
      BY <1>1 DEF Write, Remove, Types
    <3>2. QED
      BY <1>t, <3>1 DEF FileTypes
  <2>4. QED
    BY <1>t, <2>1, <2>2, <2>3 DEF PipeTypes, FileTypes, RowTypes, JobTypes, stores
<1>2. ASSUME NEW n \in Nodes, NEW t \in Types,
             RequestFails(n, t) \/ \E p \in Procs : Request(p, n, t)
      PROVE  PipeTypes'
  <2>1. UNCHANGED <<edits, disk, stores, step, buf>>
    BY <1>2 DEF Request, RequestFails
  <2>2. due' \in [Nodes -> SUBSET Types]
    <3>1. due' = [due EXCEPT ![n] = @ \ {t}] \/ UNCHANGED due
      BY <1>2 DEF Request, RequestFails
    <3>2. QED
      BY <1>t, <3>1 DEF FileTypes
  <2>3. lost' \in [Nodes -> BOOLEAN]
    <3> DEFINE a == Coalesces(n, t) /\ (lost[n] \/ ReadAlready(n))
    <3>1. lost' = [lost EXCEPT ![n] = a] \/ lost' = [lost EXCEPT ![n] = TRUE]
      BY <1>2, Zenon DEF Request, RequestFails
    <3>2. a \in BOOLEAN
      BY Zenon
    <3> HIDE DEF a
    <3>3. QED
      BY <1>t, <3>1, <3>2, Zenon
  <2>4. QED
    BY <1>t, <2>1, <2>2, <2>3 DEF PipeTypes, FileTypes, RowTypes, JobTypes, stores
<1>3. ASSUME NEW p \in Procs, Boots(p) \/ Claim(p) PROVE PipeTypes'
  <2>1. UNCHANGED <<files, stores, buf, lost>>
    BY <1>3 DEF Boots, Claim
  <2>2. step' \in [Procs -> Steps]
    <3>1. step' = step \/ step' = [step EXCEPT ![p] = "parse"]
                       \/ step' = [step EXCEPT ![p] = "vecDelete"]
      BY <1>3 DEF Boots, Claim
    <3>2. QED
      BY <1>t, <3>1 DEF JobTypes, Steps
  <2>3. QED
    BY <1>t, <2>1, <2>2 DEF PipeTypes, FileTypes, RowTypes, JobTypes, files, stores
<1>4. ASSUME NEW p \in Procs, Dies(p) \/ Finish(p) \/ Raise(p) PROVE PipeTypes'
  <2>1. UNCHANGED <<files, stores, lost>> /\ Drop(p)
    BY <1>4 DEF Dies, Finish, Raise, Drop
  <2>2. step' \in [Procs -> Steps] /\ buf' \in [Procs -> Versions]
    BY <1>t, <2>1 DEF Drop, JobTypes, Steps
  <2>3. QED
    BY <1>t, <2>1, <2>2 DEF PipeTypes, FileTypes, RowTypes, JobTypes, files, stores
\* What a thread writes is a version: the one on the disk, or the one it parsed.
<1>5. ASSUME NEW p \in Procs, Parse(p) PROVE PipeTypes'
  <2>1. /\ At(p, "parse") /\ UNCHANGED <<files, vec, fts>> /\ GoTo(p, "embed")
        /\ buf' = [buf EXCEPT ![p] = disk[JobOf(p).node]]
        /\ doc' = Put(doc, p, disk[JobOf(p).node])
    BY <1>5 DEF Parse
  <2>2. lost' = Put(lost, p, FALSE)
    BY <1>5, Zenon DEF Parse
  <2>3. JobOf(p).node \in Nodes
    <3>1. current[p] \in DOMAIN jobs /\ jobs \in Seq(Job)
      BY <2>1 DEF At, HasJob, TypeOK
    <3>2. JobOf(p) \in Job
      BY <3>1 DEF JobOf
    <3>3. QED
      BY <3>2 DEF Job
  <2>4. disk[JobOf(p).node] \in Versions
    BY <1>t, <2>3 DEF FileTypes
  <2>5. doc' \in [Nodes -> Versions] /\ buf' \in [Procs -> Versions]
    BY <1>t, <2>1, <2>4, PutTypes DEF RowTypes, JobTypes
  <2>6. lost' \in [Nodes -> BOOLEAN]
    BY <1>t, <2>2, PutFalse, Zenon
  <2>7. step' \in [Procs -> Steps]
    BY <1>t, <2>1, StepTypes DEF JobTypes, Steps
  <2>8. QED
    BY <1>t, <2>1, <2>5, <2>6, <2>7 DEF PipeTypes, FileTypes, RowTypes, JobTypes, files
<1>6. ASSUME NEW p \in Procs, \/ Embed(p) \/ VecDelete(p) \/ FtsDelete(p)
                              \/ VecUpsert(p) \/ FtsUpsert(p) \/ RemoveArtifact(p)
      PROVE  PipeTypes'
  <2>1. UNCHANGED <<files, buf, lost>>
    BY <1>6 DEF Embed, VecDelete, FtsDelete, VecUpsert, FtsUpsert, RemoveArtifact, stores
  <2>2. PICK s \in Steps : GoTo(p, s)
    BY <1>6 DEF Embed, VecDelete, FtsDelete, VecUpsert, FtsUpsert, RemoveArtifact, Steps
  <2>3. buf[p] \in Versions
    BY <1>t DEF JobTypes
  <2>4. /\ doc' = doc \/ doc' = Put(doc, p, 0)
        /\ \/ vec' = vec \/ vec' = Put(vec, p, 0) \/ vec' = Put(vec, p, buf[p])
        /\ \/ fts' = fts \/ fts' = Put(fts, p, 0) \/ fts' = Put(fts, p, buf[p])
    BY <1>6 DEF Embed, VecDelete, FtsDelete, VecUpsert, FtsUpsert, RemoveArtifact, stores
  <2>5. RowTypes'
    <3>1. /\ doc \in [Nodes -> Versions] /\ vec \in [Nodes -> Versions]
          /\ fts \in [Nodes -> Versions]
      BY <1>t DEF RowTypes
    <3>2. \A r \in [Nodes -> Versions] : Put(r, p, 0) \in [Nodes -> Versions]
      BY <1>t, PutTypes
    <3>3. \A r \in [Nodes -> Versions] : Put(r, p, buf[p]) \in [Nodes -> Versions]
      BY <2>3, PutTypes
    <3>4. QED
      BY <2>4, <3>1, <3>2, <3>3, Zenon DEF RowTypes
  <2>6. step' \in [Procs -> Steps]
    BY <1>t, <2>2, StepTypes DEF JobTypes
  <2>7. QED
    BY <1>t, <2>1, <2>5, <2>6 DEF PipeTypes, FileTypes, JobTypes, files
<1>7. CASE UNCHANGED pvars
  BY <1>t, <1>7 DEF pvars, files, stores, PipeTypes, FileTypes, RowTypes, JobTypes
<1>8. QED
  BY <1>1, <1>2, <1>3, <1>4, <1>5, <1>6, <1>7 DEF PNext

(* The type invariant of the pipeline: every store holds a version that    *)
(* the file has had, or none (index/service.py, chunk_store.py), also when *)
(* an orphaned process and its successor write to them.                    *)
THEOREM PipelineTypes == PSpec => []PTypeOK
<1>1. PInit => PipeTypes
  BY PipelineAssumption
     DEF PInit, PipeTypes, FileTypes, RowTypes, JobTypes, Versions, Steps
<1>2. PInit => Init /\ HasJob
  BY DEF PInit, Init, HasJob
<1>3. TypeOK /\ PipeTypes => PTypeOK
  BY DEF PTypeOK, PipeTypes, FileTypes, RowTypes, JobTypes, Versions
<1>4. QED
  BY <1>1, <1>2, <1>3, QueueStep, TypeCorrect, HasJobNext, PipeTypesNext, PTL DEF PSpec, Spec
=============================================================================
