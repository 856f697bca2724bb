---------------------------- MODULE ModelService ----------------------------
(***************************************************************************)
(* The four model runtimes of one worker process: service.py of            *)
(* worker/model and the threads that share it. The preparation thread      *)
(* loads the kinds in a fixed order under _ensure_lock and tells waiters   *)
(* through _task_condition; the main thread (a search) and the index       *)
(* worker thread (a job) wait for the embedding and the reranker, and load *)
(* OCR and caption themselves under the same lock when an image needs      *)
(* them.                                                                   *)
(*                                                                         *)
(* Abstracted: what a runtime is, file names and progress, error texts. A  *)
(* download and the load after it end, with success or with an exception:  *)
(* every request of fetch_model_http has a timeout. "start" is the first   *)
(* request of a process and its only one of that method (WorkerTransport). *)
(* The status is written only by the holder of _ensure_lock, so its write  *)
(* is part of the step of the holder that it follows.                      *)
(***************************************************************************)
EXTENDS Naturals, Sequences

CONSTANT MaxCalls   \* bound: searches and index jobs of one process

ASSUME CallsAssumption == MaxCalls \in Nat

Order == <<"embedding", "reranker", "ocr", "caption">>   \* _TASK_KINDS
Kinds == {"embedding", "reranker", "ocr", "caption"}
Awaited == {"embedding", "reranker"}   \* those _wait_for_runtime serves

Callers == {"main", "index"}
Threads == Callers \cup {"prepare"}

\* The getters a thread calls one after the other: IndexService.search, an
\* index job of text, an index job of an image, ensure_required_models.
Uses(t) == CASE t = "main"    -> {<<"embedding", "reranker">>}
             [] t = "index"   -> {<<"embedding">>, <<"ocr", "caption", "embedding">>}
             [] t = "prepare" -> {Order}

VARIABLES
  runtime,      \* runtime[k]: how often a runtime of kind k was set, 0 for None
  inflight,     \* _task_inflight
  errors,       \* errors[k]: _task_errors holds a message for k
  ensureLock,   \* the thread that holds _ensure_lock, or "free"
  step,         \* step[t]: where thread t is; "none" when there is no thread
  wants,        \* wants[t]: kinds thread t has yet to get, the current one first
  status,       \* the model status store: phase, and the state of each task
  calls         \* searches and jobs begun

condition == <<inflight, errors>>
vars == <<runtime, inflight, errors, ensureLock, step, wants, status, calls>>

CallerSteps  == {"none", "idle", "ask", "wait", "lock", "ensure", "download"}
PrepareSteps == {"none", "lock", "begin", "ensure", "download", "finish", "failed",
                 "report", "complete"}
Phases       == {"idle", "verifying", "running", "completed", "failed"}
TaskStates   == {"none", "waiting", "verifying", "downloading", "ready", "failed"}

Kind(t) == Head(wants[t])

Init == /\ runtime = [k \in Kinds |-> 0]
        /\ inflight = [k \in Kinds |-> FALSE]
        /\ errors = [k \in Kinds |-> FALSE]
        /\ ensureLock = "free"
        /\ step = [t \in Threads |-> "none"]
        /\ wants = [t \in Threads |-> <<>>]
        /\ status = [phase |-> "idle", task |-> [k \in Kinds |-> "none"]]
        /\ calls = 0

-----------------------------------------------------------------------------
(* Pieces of the handlers.                                                 *)

\* _update_task_state and _set_task_state.
TaskStatus(k, state, phase) ==
  [phase |-> phase, task |-> [status.task EXCEPT ![k] = state]]

AllTasks(state, phase) == [phase |-> phase, task |-> [k \in Kinds |-> state]]

NotifyNone(s) == s   \* a wrong variant

\* notify_all: every thread in _task_condition.wait looks again.
NotifyAll(s) == [t \in Threads |-> IF s[t] = "wait" THEN "ask" ELSE s[t]]

Getter(k) == IF k \in Awaited THEN "ask" ELSE "lock"

\* Caller t has its runtime: on to the next getter, or the call is over.
Got(t) == /\ wants' = [wants EXCEPT ![t] = Tail(@)]
          /\ step' = [step EXCEPT ![t] = IF Len(wants[t]) = 1 THEN "idle"
                                         ELSE Getter(wants[t][2])]

\* A getter raised. The index worker marks its job failed and goes on; the
\* main thread leaves its loop, and with it the process ends.
Raise(t) ==
  IF t = "index"
  THEN /\ step' = [step EXCEPT !["index"] = "idle"]
       /\ wants' = [wants EXCEPT !["index"] = <<>>]
  ELSE /\ step' = [u \in Threads |-> "none"]
       /\ wants' = [u \in Threads |-> <<>>]

-----------------------------------------------------------------------------
(* _handle_start: configure_runtime resets what Init has reset already;    *)
(* start_required_models starts the thread. The index worker thread comes  *)
(* up after the reply.                                                     *)
Start == /\ \A t \in Threads : step[t] = "none"
         /\ calls = 0
         /\ status.phase = "idle"
         /\ step' = [t \in Threads |-> IF t = "prepare" THEN "lock" ELSE "idle"]
         /\ wants' = [wants EXCEPT !["prepare"] = Order]
         /\ UNCHANGED <<runtime, condition, ensureLock, status, calls>>

Call(t) == /\ step[t] = "idle"
           /\ calls < MaxCalls
           /\ calls' = calls + 1
           /\ \E ks \in Uses(t) : /\ wants' = [wants EXCEPT ![t] = ks]
                                  /\ step' = [step EXCEPT ![t] = Getter(ks[1])]
           /\ UNCHANGED <<runtime, condition, ensureLock, status>>

-----------------------------------------------------------------------------
(* _wait_for_runtime, on a caller's thread.                                *)
AskReady(t) == /\ step[t] = "ask"
               /\ runtime[Kind(t)] # 0
               /\ Got(t)
               /\ UNCHANGED <<runtime, condition, ensureLock, status, calls>>

AskWait(t) == /\ step[t] = "ask"
              /\ runtime[Kind(t)] = 0
              /\ inflight[Kind(t)]
              /\ step' = [step EXCEPT ![t] = "wait"]
              /\ UNCHANGED <<runtime, condition, ensureLock, wants, status, calls>>

\* The last error of the kind, or "runtime is not ready".
AskRaise(t) == /\ step[t] = "ask"
               /\ runtime[Kind(t)] = 0
               /\ ~inflight[Kind(t)]
               /\ Raise(t)
               /\ UNCHANGED <<runtime, condition, ensureLock, status, calls>>

-----------------------------------------------------------------------------
(* _ensure_runtime_for_kind, by the holder of _ensure_lock.                *)
Lock(t) == /\ step[t] = "lock"
           /\ ensureLock = "free"
           /\ ensureLock' = t
           /\ IF t = "prepare"
              THEN /\ step' = [step EXCEPT ![t] = "begin"]
                   /\ status' = AllTasks("waiting", "verifying")
              ELSE /\ step' = [step EXCEPT ![t] = "ensure"]
                   /\ UNCHANGED status
           /\ UNCHANGED <<runtime, condition, wants, calls>>

\* Kind(t) is loaded, or was before: a getter leaves the lock with it, the
\* preparation thread goes on to _finish_task_wait.
Ensured(t) == IF t = "prepare"
              THEN /\ step' = [step EXCEPT !["prepare"] = "finish"]
                   /\ UNCHANGED <<wants, ensureLock>>
              ELSE Got(t) /\ ensureLock' = "free"

Present(t) == /\ step[t] = "ensure"
              /\ runtime[Kind(t)] # 0
              /\ Ensured(t)
              /\ UNCHANGED <<runtime, condition, status, calls>>

\* The artifacts are not complete on disk.
Download(t) == /\ step[t] = "ensure"
               /\ runtime[Kind(t)] = 0
               /\ step' = [step EXCEPT ![t] = "download"]
               /\ status' = TaskStatus(Kind(t), "downloading", "running")
               /\ UNCHANGED <<runtime, condition, ensureLock, wants, calls>>

LoadingUnchecked(t) == step[t] \in {"ensure", "download"}   \* a wrong variant

Loading(t) == \/ step[t] = "ensure" /\ runtime[Kind(t)] = 0
              \/ step[t] = "download"

Load(t) == /\ Loading(t)
           /\ runtime' = [runtime EXCEPT ![Kind(t)] = @ + 1]
           /\ status' = TaskStatus(Kind(t), "ready", "verifying")
           /\ Ensured(t)
           /\ UNCHANGED <<condition, calls>>

\* The download or the loader raises. Only the preparation thread records it.
LoadFails(t) == /\ Loading(t)
                /\ IF t = "prepare"
                   THEN /\ step' = [step EXCEPT !["prepare"] = "failed"]
                        /\ UNCHANGED <<wants, ensureLock>>
                   ELSE Raise(t) /\ ensureLock' = "free"
                /\ UNCHANGED <<runtime, condition, status, calls>>

-----------------------------------------------------------------------------
\* A wrong variant: the loop goes on after a failure.
ReportAndGoOn ==
  /\ step["prepare"] = "report"
  /\ status' = TaskStatus(Kind("prepare"), "failed", "failed")
  /\ wants' = [wants EXCEPT !["prepare"] = Tail(@)]
  /\ step' = [step EXCEPT !["prepare"] =
                IF Len(wants["prepare"]) = 1 THEN "complete" ELSE "begin"]
  /\ UNCHANGED <<runtime, condition, ensureLock, calls>>

-----------------------------------------------------------------------------
(* The loop of ensure_required_models.                                     *)
Begin == LET k == Kind("prepare")
         IN  /\ step["prepare"] = "begin"
             /\ inflight' = [inflight EXCEPT ![k] = TRUE]
             /\ errors' = [errors EXCEPT ![k] = FALSE]
             /\ step' = [NotifyAll(step) EXCEPT !["prepare"] = "ensure"]
             /\ status' = TaskStatus(k, "verifying", "verifying")
             /\ UNCHANGED <<runtime, ensureLock, wants, calls>>

Finish == LET k == Kind("prepare")
          IN  /\ step["prepare"] = "finish"
              /\ inflight' = [inflight EXCEPT ![k] = FALSE]
              /\ errors' = [errors EXCEPT ![k] = FALSE]
              /\ wants' = [wants EXCEPT !["prepare"] = Tail(@)]
              /\ step' = [NotifyAll(step) EXCEPT !["prepare"] =
                            IF Len(wants["prepare"]) = 1 THEN "complete" ELSE "begin"]
              /\ UNCHANGED <<runtime, ensureLock, status, calls>>

Complete == /\ step["prepare"] = "complete"
            /\ status' = AllTasks("ready", "completed")
            /\ ensureLock' = "free"
            /\ step' = [step EXCEPT !["prepare"] = "none"]
            /\ UNCHANGED <<runtime, condition, wants, calls>>

\* The except clause: _finish_task_wait with the error.
Fail == LET k == Kind("prepare")
        IN  /\ step["prepare"] = "failed"
            /\ inflight' = [inflight EXCEPT ![k] = FALSE]
            /\ errors' = [errors EXCEPT ![k] = TRUE]
            /\ step' = [NotifyAll(step) EXCEPT !["prepare"] = "report"]
            /\ UNCHANGED <<runtime, ensureLock, wants, status, calls>>

\* _mark_task_failed, then the lock is left.
ReportAs(state) == /\ step["prepare"] = "report"
                   /\ status' = TaskStatus(Kind("prepare"), state, state)
                   /\ ensureLock' = "free"
                   /\ step' = [step EXCEPT !["prepare"] = "none"]
                   /\ wants' = [wants EXCEPT !["prepare"] = <<>>]
                   /\ UNCHANGED <<runtime, condition, calls>>
ReportError == ReportAs("error")   \* a wrong variant: no state of a task
Report == ReportAs("failed")

-----------------------------------------------------------------------------
CallerStep(t) == \/ Call(t) \/ AskReady(t) \/ AskWait(t) \/ AskRaise(t)

LockStep(t) == \/ Lock(t) \/ Present(t) \/ Download(t) \/ Load(t) \/ LoadFails(t)

PrepareStep == \/ Begin \/ Finish \/ Complete \/ Fail \/ Report

Next == \/ Start
        \/ PrepareStep
        \/ \E t \in Threads : LockStep(t)
        \/ \E t \in Callers : CallerStep(t)

(* Every thread is scheduled, and downloads and loads end one way or the   *)
(* other. Nothing makes the host start the worker or call it.              *)
Fairness == /\ WF_vars(PrepareStep)
            /\ \A t \in Threads : WF_vars(LockStep(t))
            /\ \A t \in Callers : WF_vars(AskReady(t) \/ AskWait(t) \/ AskRaise(t))

Spec     == Init /\ [][Next]_vars
FairSpec == Spec /\ Fairness

-----------------------------------------------------------------------------
TypeOK == /\ runtime \in [Kinds -> Nat]
          /\ condition \in [Kinds -> BOOLEAN] \X [Kinds -> BOOLEAN]
          /\ ensureLock \in Threads \cup {"free"}
          /\ step["prepare"] \in PrepareSteps
          /\ \A t \in Callers : step[t] \in CallerSteps
          /\ \A t \in Threads : wants[t] \in Seq(Kinds)
          /\ status \in [phase : Phases, task : [Kinds -> TaskStates]]
          /\ calls \in 0..MaxCalls

(* A model of gigabytes is loaded once, and no thread holds a runtime that *)
(* another has replaced: OCR and caption are loaded by whichever thread    *)
(* comes first (service.py:134-140, 482-485).                              *)
LoadedOnce == \A k \in Kinds : runtime[k] <= 1

(* The status claims no model that cannot be had: a task is shown ready,   *)
(* and the phase completed, only with the runtimes there.                  *)
StatusIsEarned == /\ \A k \in Kinds : status.task[k] = "ready" => runtime[k] # 0
                  /\ status.phase = "completed" =>
                       \A k \in Kinds : status.task[k] = "ready" /\ ~inflight[k]

(* Every getter returns or raises and the preparation ends: no thread waits *)
(* for ever for the lock, a wakeup or another thread.                      *)
AtRest(t) == step[t] \in {"none", "idle"}
CallsReturn == \A t \in Threads : ~AtRest(t) ~> AtRest(t)
=============================================================================
