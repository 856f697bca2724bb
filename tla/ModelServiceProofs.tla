-------------------------- MODULE ModelServiceProofs --------------------------
(***************************************************************************)
(* Proofs about ModelService, for any number of searches and index jobs:   *)
(* no runtime is loaded twice, and the status shows nothing ready that     *)
(* cannot be had.                                                          *)
(***************************************************************************)
EXTENDS ModelService, TLAPS

-----------------------------------------------------------------------------
(* Steps that are taken with _ensure_lock held.                            *)
Holding == {"begin", "ensure", "download", "finish", "failed", "report", "complete"}
Resting == {"none", "idle", "ask", "wait", "lock"}
Steps == Holding \cup Resting

(* A thread that has found its runtime missing holds the lock until it has *)
(* loaded it, so that nobody else can load it meanwhile. (When a search    *)
(* raises, the process ends, and the lock with it.)                        *)
LoadInv ==
  /\ runtime \in [Kinds -> Nat]
  /\ step \in [Threads -> Steps]
  /\ wants = [t \in Threads |-> wants[t]]
  /\ \A t \in Threads : step[t] \in Holding => ensureLock = t
  /\ \A t \in Threads : step[t] = "download" => runtime[Kind(t)] = 0
  /\ LoadedOnce

LEMMA ThreadNames == /\ Threads = {"main", "index", "prepare"} /\ "free" \notin Threads
                     /\ Callers \subseteq Threads /\ "prepare" \notin Callers
                     /\ \A t \in Threads : t # "prepare" => t \in Callers
BY DEF Threads, Callers

LEMMA StepNames == /\ Holding \cap Resting = {} /\ "download" \in Holding
                   /\ Holding \subseteq Steps /\ Resting \subseteq Steps
BY DEF Steps, Holding, Resting

LEMMA LoadInit == Init => LoadInv
<1> SUFFICES ASSUME Init PROVE LoadInv
  OBVIOUS
<1>1. runtime \in [Kinds -> Nat] /\ LoadedOnce
  BY DEF Init, LoadedOnce
<1>2. step \in [Threads -> Steps] /\ \A t \in Threads : step[t] \notin Holding /\ step[t] # "download"
  BY DEF Init, Steps, Holding, Resting
<1>3. wants = [t \in Threads |-> wants[t]]
  BY DEF Init
<1>4. QED
  BY <1>1, <1>2, <1>3 DEF LoadInv

(* One thread goes from a step to another.                                 *)
LEMMA Moves ==
  ASSUME LoadInv, NEW t \in Threads, NEW s \in Steps, step' = [step EXCEPT ![t] = s]
  PROVE  /\ step' \in [Threads -> Steps] /\ step'[t] = s
         /\ \A u \in Threads : u # t => step'[u] = step[u]
BY DEF LoadInv

LEMMA WantsChange ==
  ASSUME LoadInv, NEW t \in Threads, NEW w, wants' = [wants EXCEPT ![t] = w]
  PROVE  /\ wants' = [u \in Threads |-> wants'[u]]
         /\ \A u \in Threads : u # t => wants'[u] = wants[u]
<1>1. wants = [u \in Threads |-> wants[u]]
  BY DEF LoadInv
<1>2. QED
  BY <1>1

(* A thread that holds nothing goes somewhere else where it holds nothing. *)
LEMMA FreeStep ==
  ASSUME LoadInv, UNCHANGED <<runtime, ensureLock>>,
         step' \in [Threads -> Steps], wants' = [t \in Threads |-> wants'[t]],
         \A t \in Threads : \/ step'[t] \in Resting
                            \/ step'[t] = step[t] /\ wants'[t] = wants[t]
  PROVE  LoadInv'
<1>1. runtime' \in [Kinds -> Nat] /\ LoadedOnce'
  BY DEF LoadInv, LoadedOnce
<1>2. ASSUME NEW t \in Threads, step'[t] \in Holding
      PROVE  ensureLock' = t /\ (step'[t] = "download" => runtime'[Kind(t)'] = 0)
  <2>1. step'[t] = step[t] /\ wants'[t] = wants[t]
    BY <1>2, StepNames
  <2>2. Kind(t)' = Kind(t)
    BY <2>1 DEF Kind
  <2>3. QED
    BY <1>2, <2>1, <2>2 DEF LoadInv
<1>3. QED
  BY <1>1, <1>2, StepNames DEF LoadInv

(* The holder of the lock, or who takes it free, goes on or leaves it.     *)
LEMMA HolderStep ==
  ASSUME LoadInv, NEW t \in Threads, step[t] \in Holding \/ ensureLock = "free",
         step' \in [Threads -> Steps], wants' = [u \in Threads |-> wants'[u]],
         runtime' \in [Kinds -> Nat], LoadedOnce',
         \A u \in Threads : u # t => step'[u] \in Resting \/ step'[u] = step[u],
         step'[t] \in Holding => ensureLock' = t,
         step'[t] = "download" => runtime'[Kind(t)'] = 0
  PROVE  LoadInv'
<1>1. \A u \in Threads : u # t => step[u] \notin Holding
  BY ThreadNames DEF LoadInv
<1>2. \A u \in Threads : u # t => step'[u] \notin Holding
  BY <1>1, StepNames
<1>3. QED
  BY <1>2, StepNames DEF LoadInv

(* A getter that raises leaves its thread, or the process, with nothing.   *)
LEMMA Raises ==
  ASSUME LoadInv, NEW t \in Callers, Raise(t)
  PROVE  /\ step' \in [Threads -> Steps]
         /\ wants' = [u \in Threads |-> wants'[u]]
         /\ step'[t] \in Resting
         /\ \A u \in Threads : \/ step'[u] \in Resting
                               \/ step'[u] = step[u] /\ wants'[u] = wants[u]
<1>0. "none" \in Resting /\ "idle" \in Resting /\ t \in Threads
  BY ThreadNames DEF Resting
<1>1. CASE t = "index"
  <2>1. step' = [step EXCEPT ![t] = "idle"] /\ wants' = [wants EXCEPT ![t] = <<>>]
    BY <1>1 DEF Raise
  <2>2. QED
    BY <1>0, <2>1, Moves, WantsChange, StepNames
<1>2. CASE t # "index"
  <2>1. step' = [u \in Threads |-> "none"] /\ wants' = [u \in Threads |-> <<>>]
    BY <1>2 DEF Raise
  <2>2. QED
    BY <1>0, <2>1, StepNames
<1>3. QED
  BY <1>1, <1>2

(* A getter that returns leaves its thread idle or before the next getter. *)
LEMMA Returns ==
  ASSUME LoadInv, NEW t \in Callers, Got(t)
  PROVE  /\ step' \in [Threads -> Steps]
         /\ wants' = [u \in Threads |-> wants'[u]]
         /\ step'[t] \in Resting
         /\ \A u \in Threads : u # t => step'[u] = step[u] /\ wants'[u] = wants[u]
<1>1. PICK s \in Resting : step' = [step EXCEPT ![t] = s]
  BY DEF Got, Getter, Resting
<1>2. wants' = [wants EXCEPT ![t] = Tail(wants[t])]
  BY DEF Got
<1>3. QED
  BY <1>1, <1>2, ThreadNames, StepNames, Moves, WantsChange

(* notify_all moves sleeping threads only.                                 *)
LEMMA Notified ==
  ASSUME LoadInv, NEW s \in Steps, step' = [NotifyAll(step) EXCEPT !["prepare"] = s]
  PROVE  /\ step' \in [Threads -> Steps] /\ step'["prepare"] = s
         /\ \A u \in Threads : u # "prepare" => step'[u] \in Resting \/ step'[u] = step[u]
<1>1. DEFINE n == NotifyAll(step)
<1>2. \A u \in Threads : n[u] = "ask" \/ n[u] = step[u]
  BY DEF NotifyAll
<1>3. "ask" \in Resting /\ "ask" \in Steps
  BY DEF Resting, Steps
<1>4. n \in [Threads -> Steps]
  BY <1>3 DEF NotifyAll, LoadInv
<1>5. step' = [n EXCEPT !["prepare"] = s] /\ "prepare" \in Threads
  BY ThreadNames
<1> HIDE DEF n
<1>6. /\ step' \in [Threads -> Steps] /\ step'["prepare"] = s
      /\ \A u \in Threads : u # "prepare" => step'[u] = n[u]
  BY <1>4, <1>5
<1>7. QED
  BY <1>2, <1>3, <1>6

-----------------------------------------------------------------------------
LEMMA LoadNext == LoadInv /\ [Next]_vars => LoadInv'
<1> SUFFICES ASSUME LoadInv, [Next]_vars PROVE LoadInv'
  OBVIOUS
<1>i. /\ runtime \in [Kinds -> Nat] /\ step \in [Threads -> Steps]
      /\ wants = [t \in Threads |-> wants[t]] /\ LoadedOnce
  BY DEF LoadInv
<1>h. UNCHANGED runtime => runtime' \in [Kinds -> Nat] /\ LoadedOnce'
  BY <1>i DEF LoadedOnce
<1>w. UNCHANGED wants => wants' = [t \in Threads |-> wants'[t]]
  BY <1>i
<1>p. "prepare" \in Threads
  BY ThreadNames
<1>1. CASE Start
  <2>1. /\ UNCHANGED <<runtime, ensureLock>> /\ wants' = [wants EXCEPT !["prepare"] = Order]
        /\ step' = [t \in Threads |-> IF t = "prepare" THEN "lock" ELSE "idle"]
    BY <1>1 DEF Start
  <2>2. "lock" \in Resting /\ "idle" \in Resting
    BY DEF Resting
  <2>3. step' \in [Threads -> Steps] /\ \A t \in Threads : step'[t] \in Resting
    BY <2>1, <2>2, StepNames
  <2>4. wants' = [t \in Threads |-> wants'[t]]
    BY <1>p, <2>1, WantsChange
  <2>5. QED
    BY <2>1, <2>3, <2>4, FreeStep
<1>2. ASSUME NEW t \in Callers, Call(t) PROVE LoadInv'
  <2>1. PICK ks : /\ wants' = [wants EXCEPT ![t] = ks]
                  /\ step' = [step EXCEPT ![t] = Getter(ks[1])]
    BY <1>2 DEF Call
  <2>2. Getter(ks[1]) \in Resting /\ t \in Threads
    BY ThreadNames DEF Getter, Resting
  <2>3. /\ step' \in [Threads -> Steps] /\ step'[t] \in Resting
        /\ \A u \in Threads : u # t => step'[u] = step[u]
    BY <2>1, <2>2, StepNames, Moves
  <2>4. /\ wants' = [u \in Threads |-> wants'[u]]
        /\ \A u \in Threads : u # t => wants'[u] = wants[u]
    BY <2>1, <2>2, WantsChange
  <2>5. UNCHANGED <<runtime, ensureLock>>
    BY <1>2 DEF Call
  <2>6. QED
    BY <2>3, <2>4, <2>5, FreeStep
<1>3. ASSUME NEW t \in Callers, AskReady(t) PROVE LoadInv'
  <2>1. Got(t) /\ UNCHANGED <<runtime, ensureLock>>
    BY <1>3 DEF AskReady
  <2>2. QED
    BY <2>1, Returns, FreeStep
<1>4. ASSUME NEW t \in Callers, AskWait(t) PROVE LoadInv'
  <2>1. step' = [step EXCEPT ![t] = "wait"] /\ UNCHANGED <<runtime, ensureLock, wants>>
    BY <1>4 DEF AskWait
  <2>2. "wait" \in Resting /\ t \in Threads
    BY ThreadNames DEF Resting
  <2>3. /\ step' \in [Threads -> Steps] /\ step'[t] \in Resting
        /\ \A u \in Threads : u # t => step'[u] = step[u]
    BY <2>1, <2>2, StepNames, Moves
  <2>4. QED
    BY <1>w, <2>1, <2>3, FreeStep
<1>5. ASSUME NEW t \in Callers, AskRaise(t) PROVE LoadInv'
  <2>1. Raise(t) /\ UNCHANGED <<runtime, ensureLock>>
    BY <1>5 DEF AskRaise
  <2>2. QED
    BY <2>1, Raises, FreeStep
<1>6. ASSUME NEW t \in Threads, Lock(t) PROVE LoadInv'
  <2>1. PICK s \in {"begin", "ensure"} : step' = [step EXCEPT ![t] = s]
    BY <1>6 DEF Lock
  <2>2. s \in Steps /\ s # "download"
    BY DEF Steps, Holding
  <2>3. ensureLock = "free" /\ ensureLock' = t /\ UNCHANGED <<runtime, wants>>
    BY <1>6 DEF Lock
  <2>4. /\ step' \in [Threads -> Steps] /\ step'[t] # "download"
        /\ \A u \in Threads : u # t => step'[u] = step[u]
    BY <2>1, <2>2, Moves
  <2>5. QED
    BY <1>h, <1>w, <2>3, <2>4, HolderStep
<1>7. ASSUME NEW t \in Threads, step[t] \in Holding, Ensured(t),
             runtime' \in [Kinds -> Nat], LoadedOnce'
      PROVE  LoadInv'
  <2>1. CASE t = "prepare"
    <3>1. step' = [step EXCEPT ![t] = "finish"] /\ UNCHANGED <<wants, ensureLock>>
      BY <1>7, <2>1 DEF Ensured
    <3>2. ensureLock' = t
      BY <1>7, <3>1 DEF LoadInv
    <3>3. "finish" \in Steps
      BY DEF Steps, Holding
    <3>4. /\ step' \in [Threads -> Steps] /\ step'[t] = "finish"
          /\ \A u \in Threads : u # t => step'[u] = step[u]
      BY <3>1, <3>3, Moves
    <3>5. QED
      BY <1>7, <1>w, <3>1, <3>2, <3>4, HolderStep
  <2>2. CASE t # "prepare"
    <3>1. t \in Callers /\ Got(t)
      BY <1>7, <2>2, ThreadNames DEF Ensured
    <3>2. /\ step' \in [Threads -> Steps] /\ wants' = [u \in Threads |-> wants'[u]]
          /\ step'[t] \notin Holding /\ step'[t] # "download"
          /\ \A u \in Threads : u # t => step'[u] = step[u]
      BY <3>1, Returns, StepNames
    <3>3. QED
      BY <1>7, <3>2, HolderStep
  <2>3. QED
    BY <2>1, <2>2
<1>8. ASSUME NEW t \in Threads, Present(t) PROVE LoadInv'
  <2>1. step[t] \in Holding /\ UNCHANGED runtime /\ Ensured(t)
    BY <1>8 DEF Present, Holding
  <2>2. QED
    BY <1>7, <1>h, <2>1
<1>9. ASSUME NEW t \in Threads, Load(t) PROVE LoadInv'
  <2>1. /\ step[t] \in Holding /\ Ensured(t)
        /\ runtime' = [runtime EXCEPT ![Kind(t)] = @ + 1]
    BY <1>9 DEF Load, Loading, Holding
  <2>2. runtime[Kind(t)] = 0
    BY <1>9 DEF Load, Loading, LoadInv
  <2>3. DEFINE k == Kind(t)
  <2>4. runtime[k] = 0 /\ runtime' = [runtime EXCEPT ![k] = 1]
    BY <2>1, <2>2
  <2> HIDE DEF k
  <2>5. runtime' \in [Kinds -> Nat] /\ \A j \in Kinds : runtime'[j] = IF j = k THEN 1 ELSE runtime[j]
    BY <1>i, <2>4
  <2>6. LoadedOnce'
    BY <1>i, <2>5 DEF LoadedOnce
  <2>7. QED
    BY <1>7, <2>1, <2>5, <2>6
<1>10. ASSUME NEW t \in Threads, Download(t) PROVE LoadInv'
  <2>1. /\ step[t] \in Holding /\ step' = [step EXCEPT ![t] = "download"]
        /\ UNCHANGED <<runtime, wants, ensureLock>> /\ runtime[Kind(t)] = 0
    BY <1>10 DEF Download, Holding
  <2>2. ensureLock' = t
    BY <2>1 DEF LoadInv
  <2>3. runtime'[Kind(t)'] = 0
    BY <2>1 DEF Kind
  <2>4. /\ step' \in [Threads -> Steps]
        /\ \A u \in Threads : u # t => step'[u] = step[u]
    BY <2>1, StepNames, Moves
  <2>5. QED
    BY <1>h, <1>w, <2>1, <2>2, <2>3, <2>4, HolderStep
<1>11. ASSUME NEW t \in Threads, LoadFails(t) PROVE LoadInv'
  <2>1. step[t] \in Holding /\ UNCHANGED runtime
    BY <1>11 DEF LoadFails, Loading, Holding
  <2>2. CASE t = "prepare"
    <3>1. step' = [step EXCEPT ![t] = "failed"] /\ UNCHANGED <<wants, ensureLock>>
      BY <1>11, <2>2 DEF LoadFails
    <3>2. ensureLock' = t
      BY <2>1, <3>1 DEF LoadInv
    <3>3. "failed" \in Steps
      BY DEF Steps, Holding
    <3>4. /\ step' \in [Threads -> Steps] /\ step'[t] = "failed"
          /\ \A u \in Threads : u # t => step'[u] = step[u]
      BY <3>1, <3>3, Moves
    <3>5. QED
      BY <1>h, <1>w, <2>1, <3>1, <3>2, <3>4, HolderStep
  <2>3. CASE t # "prepare"
    <3>1. t \in Callers /\ Raise(t)
      BY <1>11, <2>3, ThreadNames DEF LoadFails
    <3>2. /\ step' \in [Threads -> Steps] /\ wants' = [u \in Threads |-> wants'[u]]
          /\ step'[t] \notin Holding /\ step'[t] # "download"
          /\ \A u \in Threads : step'[u] \in Resting \/ step'[u] = step[u]
      BY <3>1, Raises, StepNames
    <3>3. QED
      BY <1>h, <2>1, <3>2, HolderStep
  <2>4. QED
    BY <2>2, <2>3
(* The steps of the preparation thread alone: it holds the lock.           *)
<1>12. ASSUME step["prepare"] \in Holding, UNCHANGED runtime,
              NEW s \in Steps, s # "download",
              \/ step' = [NotifyAll(step) EXCEPT !["prepare"] = s]
              \/ step' = [step EXCEPT !["prepare"] = s],
              s \in Holding => UNCHANGED ensureLock,
              wants' = [t \in Threads |-> wants'[t]]
       PROVE  LoadInv'
  <2>1. /\ step' \in [Threads -> Steps] /\ step'["prepare"] = s
        /\ \A u \in Threads : u # "prepare" => step'[u] \in Resting \/ step'[u] = step[u]
    BY <1>12, <1>p, Notified, Moves
  <2>2. s \in Holding => ensureLock' = "prepare"
    BY <1>12, <1>p DEF LoadInv
  <2>3. QED
    BY <1>12, <1>h, <1>p, <2>1, <2>2, HolderStep
<1>13. CASE Begin
  <2>1. /\ step["prepare"] \in Holding /\ UNCHANGED <<runtime, wants, ensureLock>>
        /\ step' = [NotifyAll(step) EXCEPT !["prepare"] = "ensure"]
    BY <1>13 DEF Begin, Holding
  <2>2. "ensure" \in Steps
    BY DEF Steps, Holding
  <2>3. QED
    BY <1>12, <1>w, <2>1, <2>2
<1>14. CASE Finish
  <2>1. PICK s \in {"begin", "complete"} : step' = [NotifyAll(step) EXCEPT !["prepare"] = s]
    BY <1>14 DEF Finish
  <2>2. /\ step["prepare"] \in Holding /\ UNCHANGED <<runtime, ensureLock>>
        /\ wants' = [wants EXCEPT !["prepare"] = Tail(wants["prepare"])]
    BY <1>14 DEF Finish, Holding
  <2>3. wants' = [t \in Threads |-> wants'[t]]
    BY <1>p, <2>2, WantsChange
  <2>4. s \in Steps /\ s # "download"
    BY DEF Steps, Holding
  <2>5. QED
    BY <1>12, <2>1, <2>2, <2>3, <2>4
<1>15. CASE Complete
  <2>1. /\ step["prepare"] \in Holding /\ UNCHANGED <<runtime, wants>>
        /\ step' = [step EXCEPT !["prepare"] = "none"]
    BY <1>15 DEF Complete, Holding
  <2>2. "none" \in Steps /\ "none" \notin Holding
    BY DEF Steps, Resting, Holding
  <2>3. QED
    BY <1>12, <1>w, <2>1, <2>2
<1>16. CASE Fail
  <2>1. /\ step["prepare"] \in Holding /\ UNCHANGED <<runtime, wants, ensureLock>>
        /\ step' = [NotifyAll(step) EXCEPT !["prepare"] = "report"]
    BY <1>16 DEF Fail, Holding
  <2>2. "report" \in Steps
    BY DEF Steps, Holding
  <2>3. QED
    BY <1>12, <1>w, <2>1, <2>2
<1>17. CASE Report
  <2>1. /\ step["prepare"] \in Holding /\ UNCHANGED runtime
        /\ wants' = [wants EXCEPT !["prepare"] = <<>>]
        /\ step' = [step EXCEPT !["prepare"] = "none"]
    BY <1>17 DEF Report, ReportAs, Holding
  <2>2. "none" \in Steps /\ "none" \notin Holding
    BY DEF Steps, Resting, Holding
  <2>3. wants' = [t \in Threads |-> wants'[t]]
    BY <1>p, <2>1, WantsChange
  <2>4. QED
    BY <1>12, <2>1, <2>2, <2>3
<1>18. CASE UNCHANGED vars
  <2>1. UNCHANGED <<runtime, ensureLock, step, wants>>
    BY <1>18 DEF vars
  <2>2. QED
    BY <1>i, <1>w, <2>1, FreeStep
<1>19. QED
  BY <1>1, <1>2, <1>3, <1>4, <1>5, <1>6, <1>8, <1>9, <1>10, <1>11, <1>13, <1>14, <1>15, <1>16,
     <1>17, <1>18 DEF Next, PrepareStep, LockStep, CallerStep

(* No model is loaded twice, whichever thread comes first                  *)
(* (service.py ensure_required_models, _ensure_runtime_for_kind).          *)
THEOREM NoneLoadedTwice == Spec => []LoadedOnce
<1>1. LoadInv => LoadedOnce
  BY DEF LoadInv
<1>2. QED
  BY <1>1, LoadInit, LoadNext, PTL DEF Spec

-----------------------------------------------------------------------------
(* The preparation has had every kind that is not left on its list: its    *)
(* runtime is there and nobody waits for it any more.                      *)
Tails == {<<"embedding", "reranker", "ocr", "caption">>, <<"reranker", "ocr", "caption">>,
          <<"ocr", "caption">>, <<"caption">>, <<>>}
Left(w) == {w[i] : i \in DOMAIN w}

Had(k) == runtime[k] # 0 /\ ~inflight[k]

Preparing(s, w) == /\ w \in Tails
                   /\ (w = <<>> <=> s = "complete")
                   /\ \A k \in Kinds \ Left(w) : Had(k)
                   /\ s = "finish" => runtime[Head(w)] # 0

Statuses == [phase : Phases, task : [Kinds -> TaskStates]]

EarnedInv ==
  /\ status \in Statuses /\ inflight = [k \in Kinds |-> inflight[k]]
  /\ \A k \in Kinds : status.task[k] = "ready" => runtime[k] # 0
  /\ status.phase = "completed" => /\ step["prepare"] = "none"
                                   /\ \A k \in Kinds : status.task[k] = "ready" /\ Had(k)
  /\ step["prepare"] # "none" => Preparing(step["prepare"], wants["prepare"])

LEMMA TailNames ==
  ASSUME NEW w \in Tails, w # <<>>
  PROVE  /\ Tail(w) \in Tails /\ Head(w) \in Kinds /\ Head(w) \in Left(w)
         /\ (Len(w) = 1 <=> Tail(w) = <<>>)
         /\ \A k \in Kinds \ Left(Tail(w)) : k = Head(w) \/ k \notin Left(w)
<1>1. CASE w = <<"caption">>
  <2>1. Head(w) = "caption" /\ Tail(w) = <<>> /\ Len(w) = 1 /\ Left(w) = {"caption"}
    BY <1>1 DEF Left
  <2>2. QED
    BY <2>1 DEF Tails, Kinds
<1>2. CASE w = <<"ocr", "caption">>
  <2>1. /\ Head(w) = "ocr" /\ Tail(w) = <<"caption">> /\ Len(w) = 2
        /\ Left(w) = {"ocr", "caption"} /\ Left(Tail(w)) = {"caption"}
    BY <1>2 DEF Left
  <2>2. QED
    BY <2>1 DEF Tails, Kinds
<1>3. CASE w = <<"reranker", "ocr", "caption">>
  <2>1. /\ Head(w) = "reranker" /\ Tail(w) = <<"ocr", "caption">> /\ Len(w) = 3
        /\ Left(w) = {"reranker", "ocr", "caption"} /\ Left(Tail(w)) = {"ocr", "caption"}
    BY <1>3 DEF Left
  <2>2. QED
    BY <2>1 DEF Tails, Kinds
<1>4. CASE w = <<"embedding", "reranker", "ocr", "caption">>
  <2>1. /\ Head(w) = "embedding" /\ Tail(w) = <<"reranker", "ocr", "caption">> /\ Len(w) = 4
        /\ Left(w) = {"embedding", "reranker", "ocr", "caption"}
        /\ Left(Tail(w)) = {"reranker", "ocr", "caption"}
    BY <1>4 DEF Left
  <2>2. QED
    BY <2>1 DEF Tails, Kinds
<1>5. QED
  BY <1>1, <1>2, <1>3, <1>4 DEF Tails

LEMMA EarnedInit == Init => EarnedInv
<1> SUFFICES ASSUME Init PROVE EarnedInv
  OBVIOUS
<1>1. status.phase = "idle" /\ \A k \in Kinds : status.task[k] = "none"
  BY DEF Init
<1>2. status \in Statuses
  BY DEF Init, Statuses, Phases, TaskStates
<1>3. inflight = [k \in Kinds |-> inflight[k]] /\ step["prepare"] = "none"
  BY ThreadNames DEF Init
<1>4. QED
  BY <1>1, <1>2, <1>3 DEF EarnedInv

(* What a thread other than the preparation's does, seen from there.       *)
LEMMA Beside ==
  ASSUME EarnedInv, UNCHANGED inflight,
         \A k \in Kinds : runtime[k] # 0 => runtime'[k] # 0,
         \/ step'["prepare"] = "none"
         \/ step'["prepare"] = step["prepare"] /\ wants'["prepare"] = wants["prepare"],
         \/ UNCHANGED status
         \/ /\ status' \in Statuses /\ status'.phase # "completed"
            /\ \A k \in Kinds : status'.task[k] = "ready" => runtime'[k] # 0
  PROVE  EarnedInv'
<1>1. \A k \in Kinds : Had(k) => Had(k)'
  BY DEF Had
<1>2. step'["prepare"] # "none" => Preparing(step["prepare"], wants["prepare"])'
  <2> SUFFICES ASSUME step'["prepare"] # "none"
               PROVE  Preparing(step["prepare"], wants["prepare"])'
    OBVIOUS
  <2>1. /\ step'["prepare"] = step["prepare"] /\ wants'["prepare"] = wants["prepare"]
        /\ Preparing(step["prepare"], wants["prepare"])
    BY DEF EarnedInv
  <2>2. wants["prepare"] # <<>> => Head(wants["prepare"]) \in Kinds
    BY <2>1, TailNames DEF Preparing
  <2>3. step["prepare"] = "finish" => wants["prepare"] # <<>>
    BY <2>1 DEF Preparing
  <2>4. QED
    BY <1>1, <2>1, <2>2, <2>3 DEF Preparing
<1>3. /\ status' \in Statuses /\ \A k \in Kinds : status'.task[k] = "ready" => runtime'[k] # 0
  BY DEF EarnedInv
<1>4. status'.phase = "completed" => /\ step'["prepare"] = "none"
                                     /\ \A k \in Kinds : status'.task[k] = "ready" /\ Had(k)'
  BY <1>1 DEF EarnedInv
<1>5. QED
  BY <1>2, <1>3, <1>4 DEF EarnedInv

(* The preparation goes on from w, with its list and the runtimes as they  *)
(* are, and writes any state but ready.                                    *)
LEMMA TaskWritten ==
  ASSUME EarnedInv, NEW k, NEW s \in TaskStates, NEW ph \in Phases, ph # "completed",
         status' = TaskStatus(k, s, ph), \A j \in Kinds : runtime[j] # 0 => runtime'[j] # 0,
         s = "ready" /\ k \in Kinds => runtime'[k] # 0
  PROVE  /\ status' \in Statuses /\ status'.phase # "completed"
         /\ \A j \in Kinds : status'.task[j] = "ready" => runtime'[j] # 0
<1>1. status.task \in [Kinds -> TaskStates]
  BY DEF EarnedInv, Statuses
<1>2. status'.phase = ph /\ status'.task = [status.task EXCEPT ![k] = s]
      /\ status' = [phase |-> ph, task |-> [status.task EXCEPT ![k] = s]]
  BY DEF TaskStatus
<1>3. [status.task EXCEPT ![k] = s] \in [Kinds -> TaskStates]
  BY <1>1
<1>4. \A j \in Kinds : status'.task[j] = IF j = k THEN s ELSE status.task[j]
  BY <1>1, <1>2
<1>5. QED
  BY <1>2, <1>3, <1>4 DEF Statuses, EarnedInv

-----------------------------------------------------------------------------
LEMMA EarnedNext == LoadInv /\ EarnedInv /\ [Next]_vars => EarnedInv'
<1> SUFFICES ASSUME LoadInv, EarnedInv, [Next]_vars PROVE EarnedInv'
  OBVIOUS
<1>i. /\ runtime \in [Kinds -> Nat] /\ step \in [Threads -> Steps]
      /\ wants = [t \in Threads |-> wants[t]] /\ "prepare" \in Threads
      /\ status \in Statuses /\ inflight = [k \in Kinds |-> inflight[k]]
  BY ThreadNames DEF LoadInv, EarnedInv
<1>1. CASE Start
  <2>1. /\ UNCHANGED <<runtime, inflight, status>> /\ status.phase # "completed"
        /\ wants'["prepare"] = Order /\ step'["prepare"] = "lock"
    BY <1>1, <1>i DEF Start, condition
  <2>2. Order \in Tails /\ Order # <<>> /\ Left(Order) = Kinds
    BY DEF Order, Tails, Left, Kinds
  <2>3. Preparing(step["prepare"], wants["prepare"])'
    BY <2>1, <2>2 DEF Preparing
  <2>4. QED
    BY <2>1, <2>3 DEF EarnedInv
(* The callers, and whoever raises.                                        *)
<1>2. ASSUME NEW t \in Callers, Got(t) \/ Raise(t)
      PROVE  \/ step'["prepare"] = "none"
             \/ step'["prepare"] = step["prepare"] /\ wants'["prepare"] = wants["prepare"]
  <2>1. CASE Got(t)
    BY <1>i, <2>1, Returns, ThreadNames
  <2>2. CASE Raise(t) /\ t = "index"
    BY <1>i, <2>2 DEF Raise
  <2>3. CASE Raise(t) /\ t # "index"
    BY <1>i, <2>3 DEF Raise
  <2>4. QED
    BY <1>2, <2>1, <2>2, <2>3
<1>3. ASSUME NEW t \in Callers, AskReady(t) \/ AskRaise(t) PROVE EarnedInv'
  <2>1. UNCHANGED <<runtime, inflight, status>> /\ (Got(t) \/ Raise(t))
    BY <1>3 DEF AskReady, AskRaise, condition
  <2>2. QED
    BY <1>2, <2>1, Beside
<1>4. ASSUME NEW t \in Callers, AskWait(t) \/ Call(t) PROVE EarnedInv'
  <2>1. UNCHANGED <<runtime, inflight, status>> /\ t # "prepare"
    BY <1>4, ThreadNames DEF AskWait, Call, condition
  <2>2. step'["prepare"] = step["prepare"] /\ wants'["prepare"] = wants["prepare"]
    BY <1>4, <1>i, <2>1 DEF AskWait, Call
  <2>3. QED
    BY <2>1, <2>2, Beside
<1>5. ASSUME NEW t \in Callers, Lock(t) \/ Download(t) PROVE EarnedInv'
  <2>1. UNCHANGED <<runtime, inflight, wants>> /\ t # "prepare"
    BY <1>5, ThreadNames DEF Lock, Download, condition
  <2>2. step'["prepare"] = step["prepare"]
    BY <1>5, <1>i, <2>1 DEF Lock, Download
  <2>3. UNCHANGED status \/ status' = TaskStatus(Kind(t), "downloading", "running")
    BY <1>5, <2>1 DEF Lock, Download
  <2>4. "downloading" \in TaskStates /\ "running" \in Phases
    BY DEF TaskStates, Phases
  <2>5. QED
    BY <2>1, <2>2, <2>3, <2>4, TaskWritten, Beside
<1>6. ASSUME NEW t \in Callers, Present(t) \/ LoadFails(t) PROVE EarnedInv'
  <2>1. UNCHANGED <<runtime, inflight, status>> /\ (Got(t) \/ Raise(t))
    BY <1>6, ThreadNames DEF Present, LoadFails, Ensured, condition
  <2>2. QED
    BY <1>2, <2>1, Beside
<1>7. ASSUME NEW t \in Threads, Load(t)
      PROVE  /\ \A k \in Kinds : runtime[k] # 0 => runtime'[k] # 0
             /\ Kind(t) \in Kinds => runtime'[Kind(t)] # 0
             /\ status' \in Statuses /\ status'.phase # "completed"
             /\ \A k \in Kinds : status'.task[k] = "ready" => runtime'[k] # 0
  <2> DEFINE k == Kind(t)
  <2>1. /\ runtime' = [runtime EXCEPT ![k] = runtime[k] + 1]
        /\ status' = TaskStatus(k, "ready", "verifying")
    BY <1>7 DEF Load
  <2>2. "ready" \in TaskStates /\ "verifying" \in Phases
    BY DEF TaskStates, Phases
  <2> HIDE DEF k
  <2>3. /\ \A j \in Kinds : runtime[j] # 0 => runtime'[j] # 0
        /\ k \in Kinds => runtime'[k] # 0
    BY <1>i, <2>1
  <2>4. /\ status' \in Statuses /\ status'.phase # "completed"
        /\ \A j \in Kinds : status'.task[j] = "ready" => runtime'[j] # 0
    BY <2>1, <2>2, <2>3, TaskWritten
  <2>5. QED
    BY <2>3, <2>4 DEF k
<1>8. ASSUME NEW t \in Callers, Load(t) PROVE EarnedInv'
  <2>1. UNCHANGED inflight /\ Got(t)
    BY <1>8, ThreadNames DEF Load, Ensured, condition
  <2>2. t \in Threads
    BY ThreadNames
  <2>3. QED
    BY <1>2, <1>7, <1>8, <2>1, <2>2, Beside
(* The preparation, between two kinds.                                     *)
<1>9. ASSUME UNCHANGED <<wants, inflight>>, step["prepare"] \notin {"none", "complete"},
             step'["prepare"] \notin {"none", "complete"},
             step'["prepare"] = "finish" => runtime'[Kind("prepare")] # 0,
             \A k \in Kinds : runtime[k] # 0 => runtime'[k] # 0,
             \/ UNCHANGED status
             \/ /\ status' \in Statuses /\ status'.phase # "completed"
                /\ \A k \in Kinds : status'.task[k] = "ready" => runtime'[k] # 0
      PROVE  EarnedInv'
  <2>1. Preparing(step["prepare"], wants["prepare"]) /\ status.phase # "completed"
    BY <1>9 DEF EarnedInv
  <2>2. Preparing(step["prepare"], wants["prepare"])'
    BY <1>9, <2>1 DEF Preparing, Had, Kind
  <2>3. QED
    BY <1>9, <2>1, <2>2 DEF EarnedInv
<1>10. CASE Lock("prepare")
  <2>1. /\ UNCHANGED <<runtime, inflight, wants>> /\ step["prepare"] = "lock"
        /\ step'["prepare"] = "begin" /\ status' = AllTasks("waiting", "verifying")
    BY <1>10, <1>i DEF Lock, condition
  <2>2. /\ status' \in Statuses /\ status'.phase # "completed"
        /\ \A k \in Kinds : status'.task[k] # "ready"
    BY <2>1 DEF AllTasks, Statuses, Phases, TaskStates
  <2>3. QED
    BY <1>9, <2>1, <2>2
<1>11. CASE Download("prepare")
  <2>1. /\ UNCHANGED <<runtime, inflight, wants>> /\ step["prepare"] = "ensure"
        /\ step'["prepare"] = "download"
        /\ status' = TaskStatus(Kind("prepare"), "downloading", "running")
    BY <1>11, <1>i DEF Download, condition
  <2>2. "downloading" \in TaskStates /\ "running" \in Phases
    BY DEF TaskStates, Phases
  <2>3. QED
    BY <1>9, <2>1, <2>2, TaskWritten
<1>12. CASE Present("prepare")
  <2>1. /\ UNCHANGED <<runtime, inflight, status, wants>> /\ step["prepare"] = "ensure"
        /\ step'["prepare"] = "finish" /\ runtime[Kind("prepare")] # 0
    BY <1>12, <1>i DEF Present, Ensured, condition
  <2>2. QED
    BY <1>9, <2>1
<1>13. CASE Load("prepare")
  <2>1. /\ UNCHANGED <<inflight, wants>> /\ step["prepare"] \in {"ensure", "download"}
        /\ step'["prepare"] = "finish"
    BY <1>13, <1>i DEF Load, Loading, Ensured, condition
  <2>2. Kind("prepare") \in Kinds
    BY <2>1, TailNames DEF EarnedInv, Preparing, Kind
  <2>3. QED
    BY <1>7, <1>9, <1>13, <1>i, <2>1, <2>2
<1>14. CASE LoadFails("prepare") \/ Fail
  <2>1. step["prepare"] \notin {"none", "complete"} /\ UNCHANGED <<runtime, status, wants>>
    BY <1>14 DEF LoadFails, Loading, Fail
  <2>2. CASE LoadFails("prepare")
    <3>1. UNCHANGED inflight /\ step'["prepare"] = "failed"
      BY <1>i, <2>2 DEF LoadFails, condition
    <3>2. QED
      BY <1>9, <2>1, <3>1
  <2>3. CASE Fail
    <3>1. step'["prepare"] = "report"
      BY <1>i, <2>3, Notified DEF Fail, Steps, Holding
    <3>2. inflight' = [inflight EXCEPT ![Kind("prepare")] = FALSE]
      BY <2>3, Zenon DEF Fail
    <3>3. Preparing(step["prepare"], wants["prepare"]) /\ status.phase # "completed"
      BY <2>1 DEF EarnedInv
    <3>4. \A k \in Kinds : Had(k) => Had(k)'
      <4> DEFINE h == Kind("prepare")
      <4> HIDE DEF h
      <4>1. inflight' = [inflight EXCEPT ![h] = FALSE]
        BY <3>2 DEF h
      <4>2. \A k \in Kinds : inflight'[k] => inflight[k]
        BY <1>i, <4>1, Zenon
      <4>3. QED
        BY <2>1, <4>2, Zenon DEF Had
    <3>5. Preparing(step["prepare"], wants["prepare"])'
      BY <2>1, <3>1, <3>3, <3>4 DEF Preparing
    <3>6. inflight' = [k \in Kinds |-> inflight'[k]]
      BY <1>i, <3>2, Zenon
    <3>7. QED
      BY <2>1, <3>3, <3>5, <3>6 DEF EarnedInv
  <2>4. QED
    BY <1>14, <2>2, <2>3
<1>15. CASE Begin
  <2> DEFINE h == Kind("prepare")
  <2>1. /\ step["prepare"] = "begin" /\ UNCHANGED <<runtime, wants>>
        /\ status' = TaskStatus(h, "verifying", "verifying")
    BY <1>15 DEF Begin
  <2>2. inflight' = [inflight EXCEPT ![h] = TRUE]
    BY <1>15, Zenon DEF Begin
  <2>3. step'["prepare"] = "ensure"
    BY <1>15, Notified DEF Begin, Steps, Holding
  <2>4. Preparing(step["prepare"], wants["prepare"])
    BY <2>1 DEF EarnedInv
  <2>5. h \in Left(wants["prepare"])
    BY <2>1, <2>4, TailNames DEF Preparing, Kind
  <2> HIDE DEF h
  <2>6. \A k \in Kinds : k # h /\ Had(k) => Had(k)'
    <3>1. \A k \in Kinds : k # h => inflight'[k] = inflight[k]
      BY <1>i, <2>2, Zenon
    <3>2. QED
      BY <2>1, <3>1, Zenon DEF Had
  <2>7. \A k \in Kinds \ Left(wants["prepare"]) : Had(k)'
    BY <2>4, <2>5, <2>6 DEF Preparing
  <2>8. Preparing(step["prepare"], wants["prepare"])'
    BY <2>1, <2>3, <2>4, <2>7 DEF Preparing
  <2>9. inflight' = [k \in Kinds |-> inflight'[k]]
    BY <1>i, <2>2, Zenon
  <2>10. "verifying" \in TaskStates /\ "verifying" \in Phases
    BY DEF TaskStates, Phases
  <2>11. /\ status' \in Statuses /\ status'.phase # "completed"
         /\ \A k \in Kinds : status'.task[k] = "ready" => runtime'[k] # 0
    BY <2>1, <2>10, TaskWritten
  <2>12. QED
    BY <2>8, <2>9, <2>11 DEF EarnedInv
<1>16. CASE Finish
  <2> DEFINE w == wants["prepare"]
             h == Head(w)
  <2>1. /\ step["prepare"] = "finish" /\ UNCHANGED <<runtime, status>>
        /\ wants' = [wants EXCEPT !["prepare"] = Tail(w)]
    BY <1>16 DEF Finish
  <2>2. inflight' = [inflight EXCEPT ![h] = FALSE]
    BY <1>16, Zenon DEF Finish, Kind
  <2>3. Preparing("finish", w) /\ status.phase # "completed"
    BY <2>1 DEF EarnedInv
  <2>4. /\ w \in Tails /\ w # <<>> /\ runtime[h] # 0
        /\ \A k \in Kinds \ Left(w) : Had(k)
    BY <2>3 DEF Preparing
  <2>5. step'["prepare"] = IF Len(w) = 1 THEN "complete" ELSE "begin"
    <3>1. (IF Len(w) = 1 THEN "complete" ELSE "begin") \in Steps
      BY DEF Steps, Holding
    <3>2. QED
      BY <1>16, <3>1, Notified DEF Finish
  <2>6. wants'["prepare"] = Tail(w)
    BY <1>i, <2>1
  <2>7. /\ Tail(w) \in Tails /\ (Len(w) = 1 <=> Tail(w) = <<>>)
        /\ \A k \in Kinds \ Left(Tail(w)) : k = h \/ k \notin Left(w)
    BY <2>4, TailNames
  <2> HIDE DEF h
  <2>8. /\ \A k \in Kinds : inflight'[k] => inflight[k]
        /\ inflight' = [k \in Kinds |-> inflight'[k]]
        /\ h \in Kinds => ~inflight'[h]
    BY <1>i, <2>2, Zenon
  <2>9. \A k \in Kinds : k = h \/ Had(k) => Had(k)'
    BY <2>1, <2>4, <2>8, Zenon DEF Had
  <2>10. \A k \in Kinds \ Left(Tail(w)) : Had(k)'
    BY <2>4, <2>7, <2>9, Zenon
  <2>11. Preparing(step["prepare"], wants["prepare"])'
    <3> DEFINE r == Tail(w)
    <3>1. /\ r \in Tails /\ (r = <<>> <=> step'["prepare"] = "complete")
          /\ \A k \in Kinds \ Left(r) : Had(k)'
          /\ step'["prepare"] # "finish"
      BY <2>5, <2>7, <2>10
    <3>2. wants'["prepare"] = r
      BY <2>6
    <3> HIDE DEF r
    <3>3. QED
      BY <3>1, <3>2 DEF Preparing
  <2>12. QED
    BY <2>1, <2>3, <2>8, <2>11 DEF EarnedInv
<1>17. CASE Complete
  <2>1. /\ step["prepare"] = "complete" /\ UNCHANGED <<runtime, inflight, wants>>
        /\ status' = AllTasks("ready", "completed") /\ step'["prepare"] = "none"
    BY <1>17, <1>i DEF Complete, condition
  <2>2. Preparing("complete", wants["prepare"])
    BY <2>1 DEF EarnedInv
  <2>3. Left(<<>>) = {}
    BY DEF Left
  <2>4. \A k \in Kinds : Had(k)
    BY <2>2, <2>3 DEF Preparing
  <2>5. \A k \in Kinds : Had(k)' /\ runtime'[k] # 0
    BY <2>1, <2>4, Zenon DEF Had
  <2>6. status' \in Statuses /\ \A k \in Kinds : status'.task[k] = "ready"
    BY <2>1 DEF AllTasks, Statuses, Phases, TaskStates
  <2>7. QED
    BY <2>1, <2>5, <2>6, <1>i DEF EarnedInv
<1>18. CASE Report
  <2>1. /\ UNCHANGED <<runtime, inflight>> /\ step'["prepare"] = "none"
        /\ status' = TaskStatus(Kind("prepare"), "failed", "failed")
    BY <1>18, <1>i DEF Report, ReportAs, condition
  <2>2. "failed" \in TaskStates /\ "failed" \in Phases
    BY DEF TaskStates, Phases
  <2>3. QED
    BY <2>1, <2>2, TaskWritten, Beside
<1>19. CASE UNCHANGED vars
  BY <1>19, Beside DEF vars, condition
<1>20. ASSUME NEW t \in Threads, LockStep(t) PROVE EarnedInv'
  <2>1. CASE t \in Callers
    BY <1>5, <1>6, <1>8, <1>20, <2>1 DEF LockStep
  <2>2. CASE t = "prepare"
    BY <1>10, <1>11, <1>12, <1>13, <1>14, <1>20, <2>2 DEF LockStep
  <2>3. QED
    BY <2>1, <2>2, ThreadNames
<1>21. ASSUME NEW t \in Callers, CallerStep(t) PROVE EarnedInv'
  BY <1>3, <1>4, <1>21 DEF CallerStep
<1>22. CASE PrepareStep
  BY <1>14, <1>15, <1>16, <1>17, <1>18, <1>22 DEF PrepareStep
<1>23. QED
  BY <1>1, <1>19, <1>20, <1>21, <1>22 DEF Next

(* A task is shown ready, and the phase completed, only when the runtimes  *)
(* are there and nobody waits for them, whatever fails and whoever loads   *)
(* first (service.py:110-160, 285-309).                                     *)
THEOREM ReadyIsLoaded == Spec => []StatusIsEarned
<1>1. EarnedInv => StatusIsEarned
  BY DEF EarnedInv, StatusIsEarned, Had
<1>2. QED
  BY <1>1, LoadInit, LoadNext, EarnedInit, EarnedNext, PTL DEF Spec

-----------------------------------------------------------------------------
(* A caller that is in a getter has that getter on its list.               *)
Typed(t, s, w) ==
  /\ w \in Seq(Kinds)
  /\ t = "prepare" => s \in PrepareSteps
  /\ t # "prepare" => s \in CallerSteps /\ (s \notin {"none", "idle"} => w # <<>>)

ThreadTypes == \A t \in Threads : Typed(t, step[t], wants[t])

TableTypes == /\ inflight \in [Kinds -> BOOLEAN] /\ errors \in [Kinds -> BOOLEAN]
              /\ ensureLock \in Threads \cup {"free"} /\ calls \in 0..MaxCalls

\* One thread goes on; the others stay, or are woken up.
LEMMA OneGoes ==
  ASSUME ThreadTypes, NEW t \in Threads, Typed(t, step'[t], wants'[t]),
         \A u \in Threads : u # t => /\ wants'[u] = wants[u]
                                     /\ \/ step'[u] = step[u]
                                        \/ step[u] = "wait" /\ step'[u] = "ask"
  PROVE  ThreadTypes'
<1>1. ASSUME NEW u \in Threads, u # t PROVE Typed(u, step'[u], wants'[u])
  BY <1>1 DEF ThreadTypes, Typed, CallerSteps, PrepareSteps
<1>2. ASSUME NEW u \in Threads PROVE Typed(u, step'[u], wants'[u])
  BY <1>1
<1>3. QED
  BY <1>2 DEF ThreadTypes, Typed

LEMMA KindLists ==
  /\ <<>> \in Seq(Kinds) /\ Order \in Seq(Kinds) /\ Order # <<>>
  /\ \A w \in Seq(Kinds) : w # <<>> => Tail(w) \in Seq(Kinds)
  /\ \A w \in Seq(Kinds) : w # <<>> /\ Len(w) # 1 => Tail(w) # <<>>
<1>1. <<>> \in Seq(Kinds) /\ Order \in Seq(Kinds) /\ Order # <<>>
  BY DEF Order, Kinds
<1>2. ASSUME NEW w \in Seq(Kinds), w # <<>>
      PROVE  Tail(w) \in Seq(Kinds) /\ (Len(w) # 1 => Tail(w) # <<>>)
  <2>1. Tail(w) \in Seq(Kinds)
    BY <1>2
  <2>2. Len(w) \in Nat /\ Len(Tail(w)) = Len(w) - 1
    BY <1>2
  <2>3. \A r : r = <<>> => Len(r) = 0
    OBVIOUS
  <2>4. ASSUME Tail(w) = <<>> PROVE Len(w) = 1
    <3>1. Len(Tail(w)) = 0
      BY <2>3, <2>4, Zenon
    <3>2. QED
      BY <2>2, <3>1
  <2>5. QED
    BY <2>1, <2>4, Zenon
<1>3. QED
  BY <1>1, <1>2

LEMMA UsesTyped ==
  ASSUME NEW t \in Callers, NEW ks \in Uses(t)
  PROVE  Typed(t, Getter(ks[1]), ks)
<1>1. Getter(ks[1]) \in {"ask", "lock"}
  BY DEF Getter
<1>2. ks \in {<<"embedding", "reranker">>, <<"embedding">>, <<"ocr", "caption", "embedding">>}
  BY DEF Uses, Callers
<1>3. ks \in Seq(Kinds) /\ ks # <<>>
  <2>1. /\ "embedding" \in Kinds /\ "reranker" \in Kinds /\ "ocr" \in Kinds
        /\ "caption" \in Kinds
    BY DEF Kinds
  <2>2. CASE ks = <<"embedding", "reranker">>
    BY <2>1, <2>2
  <2>3. CASE ks = <<"embedding">>
    BY <2>1, <2>3
  <2>4. CASE ks = <<"ocr", "caption", "embedding">>
    BY <2>1, <2>4
  <2>5. QED
    BY <1>2, <2>2, <2>3, <2>4
<1> HIDE DEF Getter
<1>4. QED
  BY <1>1, <1>3, ThreadNames DEF Typed, CallerSteps

LEMMA GotTyped ==
  ASSUME LoadInv, ThreadTypes, NEW t \in Callers, step[t] \notin {"none", "idle"}, Got(t)
  PROVE  ThreadTypes'
<1> DEFINE w == wants[t]
<1>1. t \in Threads /\ t # "prepare"
  BY ThreadNames
<1>2. w \in Seq(Kinds) /\ w # <<>>
  BY <1>1 DEF ThreadTypes, Typed
<1>3. PICK s \in {"idle", "ask", "lock"} :
        (Len(w) # 1 \/ s = "idle") /\ step' = [step EXCEPT ![t] = s]
  BY DEF Got, Getter
<1>4. wants' = [wants EXCEPT ![t] = Tail(w)]
  BY DEF Got
<1>5. s \in Steps
  BY DEF Steps, Resting
<1>6. step'[t] = s
  BY <1>1, <1>3, <1>5, Moves
<1>7. wants'[t] = Tail(w)
  BY <1>1, <1>4 DEF LoadInv
<1>8. Typed(t, s, Tail(w))
  BY <1>1, <1>2, <1>3, KindLists DEF Typed, CallerSteps
<1>9. \A u \in Threads : u # t => step'[u] = step[u] /\ wants'[u] = wants[u]
  BY Returns
<1> HIDE DEF w
<1>10. QED
  BY <1>1, <1>6, <1>7, <1>8, <1>9, OneGoes

LEMMA RaiseTyped ==
  ASSUME LoadInv, ThreadTypes, NEW t \in Callers, Raise(t)
  PROVE  ThreadTypes'
<1>1. CASE t = "index"
  <2>1. step' = [step EXCEPT ![t] = "idle"] /\ wants' = [wants EXCEPT ![t] = <<>>]
    BY <1>1 DEF Raise
  <2>2. t \in Threads /\ t # "prepare" /\ "idle" \in Steps
    BY ThreadNames DEF Steps, Resting
  <2>3. step'[t] = "idle" /\ \A u \in Threads : u # t => step'[u] = step[u]
    BY <2>1, <2>2, Moves
  <2>4. wants'[t] = <<>> /\ \A u \in Threads : u # t => wants'[u] = wants[u]
    BY <2>1, <2>2, WantsChange DEF LoadInv
  <2>5. Typed(t, step'[t], wants'[t])
    BY <2>2, <2>3, <2>4, KindLists DEF Typed, CallerSteps
  <2>6. QED
    BY <2>2, <2>3, <2>4, <2>5, OneGoes
<1>2. CASE t # "index"
  <2>1. \A u \in Threads : step'[u] = "none" /\ wants'[u] = <<>>
    BY <1>2 DEF Raise
  <2>2. \A u : Typed(u, "none", <<>>)
    BY KindLists DEF Typed, CallerSteps, PrepareSteps
  <2>3. \A u \in Threads : Typed(u, step'[u], wants'[u])
    BY <2>1, <2>2
  <2>4. QED
    BY <2>3 DEF ThreadTypes, Typed
<1>3. QED
  BY <1>1, <1>2

\* A thread goes to another step of the same getter.
LEMMA StepTyped ==
  ASSUME LoadInv, ThreadTypes, NEW t \in Threads, UNCHANGED wants,
         NEW s \in Steps, step' = [step EXCEPT ![t] = s],
         t = "prepare" => s \in PrepareSteps,
         t # "prepare" => s \in CallerSteps /\ step[t] \notin {"none", "idle"}
  PROVE  ThreadTypes'
<1>1. step'[t] = s /\ \A u \in Threads : u # t => step'[u] = step[u]
  BY Moves
<1>2. Typed(t, step'[t], wants'[t])
  BY <1>1 DEF ThreadTypes, Typed
<1>3. QED
  BY <1>1, <1>2, OneGoes

LEMMA PrepareTyped ==
  ASSUME LoadInv, ThreadTypes, NEW s \in Steps \cap PrepareSteps, NEW w \in Seq(Kinds),
         \/ step' = [NotifyAll(step) EXCEPT !["prepare"] = s]
         \/ step' = [step EXCEPT !["prepare"] = s],
         UNCHANGED wants \/ wants' = [wants EXCEPT !["prepare"] = w]
  PROVE  ThreadTypes'
<1> DEFINE t == "prepare"
<1>1. t \in Threads
  BY ThreadNames
<1>2. /\ step'[t] = s
      /\ \A u \in Threads : u # t => \/ step'[u] = step[u]
                                     \/ step[u] = "wait" /\ step'[u] = "ask"
  <2>1. CASE step' = [step EXCEPT ![t] = s]
    BY <1>1, <2>1, Moves
  <2>2. CASE step' = [NotifyAll(step) EXCEPT ![t] = s]
    BY <1>1, <2>2 DEF NotifyAll
  <2>3. QED
    BY <2>1, <2>2
<1>3. /\ wants'[t] = wants[t] \/ wants'[t] = w
      /\ \A u \in Threads : u # t => wants'[u] = wants[u]
  BY <1>1 DEF LoadInv
<1>4. Typed(t, step'[t], wants'[t])
  BY <1>1, <1>2, <1>3 DEF ThreadTypes, Typed
<1>5. QED
  BY <1>1, <1>2, <1>3, <1>4, OneGoes

LEMMA ThreadsNext ==
  ASSUME LoadInv, EarnedInv, ThreadTypes, [Next]_vars PROVE ThreadTypes'
<1>p. "prepare" \in Threads /\ wants["prepare"] \in Seq(Kinds)
  BY ThreadNames DEF ThreadTypes, Typed
<1>n. {"lock", "begin", "ensure", "download", "finish", "failed", "report", "complete", "none",
       "wait", "ask", "idle"} \subseteq Steps
  BY DEF Steps, Holding, Resting
<1>1. CASE Start
  <2>1. /\ step' = [t \in Threads |-> IF t = "prepare" THEN "lock" ELSE "idle"]
        /\ wants' = [wants EXCEPT !["prepare"] = Order]
    BY <1>1 DEF Start
  <2>2. wants'["prepare"] = Order /\ \A u \in Threads : u # "prepare" => wants'[u] = wants[u]
    BY <1>p, <2>1 DEF LoadInv
  <2>3. ASSUME NEW t \in Threads PROVE Typed(t, step'[t], wants'[t])
    BY <1>p, <2>1, <2>2, KindLists DEF ThreadTypes, Typed, CallerSteps, PrepareSteps
  <2>4. QED
    BY <2>3 DEF ThreadTypes, Typed
<1>2. ASSUME NEW t \in Callers, Call(t) PROVE ThreadTypes'
  <2>1. PICK ks \in Uses(t) : /\ wants' = [wants EXCEPT ![t] = ks]
                              /\ step' = [step EXCEPT ![t] = Getter(ks[1])]
    BY <1>2 DEF Call
  <2>2. t \in Threads /\ Getter(ks[1]) \in Steps
    BY <1>n, ThreadNames DEF Getter
  <2>3. step'[t] = Getter(ks[1]) /\ \A u \in Threads : u # t => step'[u] = step[u]
    BY <2>1, <2>2, Moves
  <2>4. wants'[t] = ks /\ \A u \in Threads : u # t => wants'[u] = wants[u]
    BY <2>1, <2>2 DEF LoadInv
  <2>5. Typed(t, step'[t], wants'[t])
    BY <2>3, <2>4, UsesTyped
  <2>6. QED
    BY <2>2, <2>3, <2>4, <2>5, OneGoes
<1>3. ASSUME NEW t \in Callers, AskReady(t) \/ AskRaise(t) PROVE ThreadTypes'
  BY <1>3, GotTyped, RaiseTyped DEF AskReady, AskRaise
<1>4. ASSUME NEW t \in Callers, AskWait(t) PROVE ThreadTypes'
  BY <1>4, <1>n, StepTyped, ThreadNames DEF AskWait, CallerSteps
<1>5. ASSUME NEW t \in Threads, Lock(t) \/ Download(t) PROVE ThreadTypes'
  BY <1>5, <1>n, StepTyped DEF Lock, Download, CallerSteps, PrepareSteps
<1>6. ASSUME NEW t \in Threads, step[t] \in {"ensure", "download"}, Ensured(t)
      PROVE  ThreadTypes'
  <2>1. CASE t = "prepare"
    BY <1>6, <1>n, <2>1, StepTyped DEF Ensured, PrepareSteps
  <2>2. CASE t # "prepare"
    BY <1>6, <2>2, GotTyped, ThreadNames DEF Ensured
  <2>3. QED
    BY <2>1, <2>2
<1>7. ASSUME NEW t \in Threads, Present(t) \/ Load(t) PROVE ThreadTypes'
  BY <1>6, <1>7 DEF Present, Load, Loading
<1>8. ASSUME NEW t \in Threads, LoadFails(t) PROVE ThreadTypes'
  <2>1. CASE t = "prepare"
    BY <1>8, <1>n, <2>1, StepTyped DEF LoadFails, PrepareSteps
  <2>2. CASE t # "prepare"
    BY <1>8, <2>2, RaiseTyped, ThreadNames DEF LoadFails
  <2>3. QED
    BY <2>1, <2>2
<1>9. CASE Begin \/ Complete \/ Fail
  <2>1. PICK s \in {"ensure", "none", "report"} :
          /\ \/ step' = [NotifyAll(step) EXCEPT !["prepare"] = s]
             \/ step' = [step EXCEPT !["prepare"] = s]
          /\ UNCHANGED wants
    BY <1>9 DEF Begin, Complete, Fail
  <2>2. s \in Steps \cap PrepareSteps
    BY <1>n DEF PrepareSteps
  <2>3. QED
    BY <1>p, <2>1, <2>2, PrepareTyped
<1>10. CASE Finish
  <2>1. PICK s \in {"begin", "complete"} : step' = [NotifyAll(step) EXCEPT !["prepare"] = s]
    BY <1>10 DEF Finish
  <2>2. /\ step["prepare"] = "finish"
        /\ wants' = [wants EXCEPT !["prepare"] = Tail(wants["prepare"])]
    BY <1>10 DEF Finish
  <2>3. wants["prepare"] # <<>>
    BY <2>2 DEF EarnedInv, Preparing
  <2>4. s \in Steps \cap PrepareSteps
    BY <1>n DEF PrepareSteps
  <2>5. Tail(wants["prepare"]) \in Seq(Kinds)
    BY <1>p, <2>3, KindLists
  <2>6. QED
    BY <2>1, <2>2, <2>4, <2>5, PrepareTyped
<1>11. CASE Report
  <2>1. /\ step' = [step EXCEPT !["prepare"] = "none"]
        /\ wants' = [wants EXCEPT !["prepare"] = <<>>]
    BY <1>11 DEF Report, ReportAs
  <2>2. "none" \in Steps \cap PrepareSteps
    BY <1>n DEF PrepareSteps
  <2>3. QED
    BY <2>1, <2>2, KindLists, PrepareTyped
<1>12. CASE UNCHANGED vars
  BY <1>12 DEF vars, ThreadTypes, Typed
<1>13. QED
  BY <1>1, <1>2, <1>3, <1>4, <1>5, <1>7, <1>8, <1>9, <1>10, <1>11, <1>12
     DEF Next, PrepareStep, LockStep, CallerStep

LEMMA TablesNext ==
  ASSUME LoadInv, TableTypes, [Next]_vars PROVE TableTypes'
<1>1. inflight \in [Kinds -> BOOLEAN] /\ errors \in [Kinds -> BOOLEAN]
  BY DEF TableTypes
<1>2. UNCHANGED <<inflight, errors>> \/ Begin \/ Finish \/ Fail
  BY DEF Next, vars, condition, Start, PrepareStep, LockStep, CallerStep, Complete, Report,
         ReportAs, Lock, Present, Download, Load, LoadFails, Call, AskReady, AskWait, AskRaise
<1>3. ASSUME Begin \/ Finish \/ Fail
      PROVE  inflight' \in [Kinds -> BOOLEAN] /\ errors' \in [Kinds -> BOOLEAN]
  <2> DEFINE k == Kind("prepare")
  <2>1. \E b \in BOOLEAN, c \in BOOLEAN : /\ inflight' = [inflight EXCEPT ![k] = b]
                                          /\ errors' = [errors EXCEPT ![k] = c]
    BY <1>3, Zenon DEF Begin, Finish, Fail
  <2> HIDE DEF k
  <2>2. QED
    BY <1>1, <2>1, Zenon
<1>4. inflight' \in [Kinds -> BOOLEAN] /\ errors' \in [Kinds -> BOOLEAN]
  BY <1>1, <1>2, <1>3, Zenon
<1>5. ensureLock' \in {ensureLock, "free"} \cup Threads
  BY ThreadNames
     DEF Next, vars, Start, PrepareStep, LockStep, CallerStep, Begin, Finish, Fail, Complete,
         Report, ReportAs, Lock, Present, Download, Load, LoadFails, Ensured, Call, AskReady,
         AskWait, AskRaise
<1>6. calls' = calls \/ (calls < MaxCalls /\ calls' = calls + 1)
  BY DEF Next, vars, Start, PrepareStep, LockStep, CallerStep, Begin, Finish, Fail, Complete,
         Report, ReportAs, Lock, Present, Download, Load, LoadFails, Call, AskReady, AskWait,
         AskRaise
<1>7. ensureLock' \in Threads \cup {"free"}
  BY <1>5 DEF TableTypes
<1>8. calls' \in 0..MaxCalls
  BY <1>6, CallsAssumption DEF TableTypes
<1>9. QED
  BY <1>4, <1>7, <1>8 DEF TableTypes

(* The type invariant of the model service (worker/model/service.py).      *)
THEOREM TypeCorrect == Spec => []TypeOK
<1>1. Init => ThreadTypes /\ TableTypes
  <2> SUFFICES ASSUME Init PROVE ThreadTypes /\ TableTypes
    OBVIOUS
  <2>1. \A t \in Threads : step[t] = "none" /\ wants[t] = <<>>
    BY DEF Init
  <2>2. ThreadTypes
    BY <2>1, KindLists DEF ThreadTypes, Typed, CallerSteps, PrepareSteps
  <2>3. TableTypes
    BY CallsAssumption DEF Init, TableTypes
  <2>4. QED
    BY <2>2, <2>3
<1>2. LoadInv /\ EarnedInv /\ ThreadTypes /\ TableTypes => TypeOK
  <2> SUFFICES ASSUME LoadInv, EarnedInv, ThreadTypes, TableTypes PROVE TypeOK
    OBVIOUS
  <2>1. /\ step["prepare"] \in PrepareSteps /\ \A t \in Callers : step[t] \in CallerSteps
        /\ \A t \in Threads : wants[t] \in Seq(Kinds)
    BY ThreadNames DEF ThreadTypes, Typed
  <2>2. condition \in [Kinds -> BOOLEAN] \X [Kinds -> BOOLEAN]
    BY Zenon DEF TableTypes, condition
  <2>3. /\ runtime \in [Kinds -> Nat] /\ ensureLock \in Threads \cup {"free"}
        /\ status \in [phase : Phases, task : [Kinds -> TaskStates]] /\ calls \in 0..MaxCalls
    BY DEF LoadInv, EarnedInv, TableTypes, Statuses
  <2>4. QED
    BY <2>1, <2>2, <2>3, Zenon DEF TypeOK
<1>3. LoadInv /\ EarnedInv /\ ThreadTypes /\ TableTypes /\ [Next]_vars
        => ThreadTypes' /\ TableTypes'
  BY ThreadsNext, TablesNext
<1>4. QED
  BY <1>1, <1>2, <1>3, LoadInit, LoadNext, EarnedInit, EarnedNext, PTL DEF Spec

=============================================================================
