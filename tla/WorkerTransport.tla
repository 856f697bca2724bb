--------------------------- MODULE WorkerTransport ---------------------------
(***************************************************************************)
(* The host's side of the Python worker: transport.ts (one child process,  *)
(* newline-framed requests, replies and events, the map of pending         *)
(* promises), runtime.ts (start, bounded restart, stop), the status store  *)
(* of status.ts, and their callers in index.ts and startup.ts; and what    *)
(* the window shows of the models' status, which it loads once and is then *)
(* told of (App.tsx, app-startup.ts, renderer-rpc.ts).                     *)
(*                                                                         *)
(* The host is one event loop: each action is one macrotask or microtask.  *)
(* A macrotask waits until no continuation of an await is left, except     *)
(* that one chunk of stdout may hold several lines.                        *)
(*                                                                         *)
(* Abstracted: payloads; which hook or search a client call is; the other  *)
(* statuses, which the window polls. A request written to a process that   *)
(* has died is lost.                                                       *)
(***************************************************************************)
EXTENDS Naturals, Sequences, FiniteSets

CONSTANTS MaxRestarts,  \* maxRestarts of createPythonWorkerRuntime
          MaxCalls,     \* bound: hook and search requests
          MaxFrames     \* bound: unread lines in one stdout pipe, replies apart

ASSUME TransportAssumption == MaxRestarts \in Nat /\ MaxCalls \in Nat /\ MaxFrames \in Nat

Children == 1..(MaxRestarts + 1)

VARIABLES
  spawned,      \* processes spawned so far; the latest is process number spawned
  proc,         \* proc[k]: "none", "alive", "killed" (signalled), "dead" (its exit
                \* event is queued) or "gone" (the event was handled)
  child,        \* the transport's child, 0 for null
  requests,     \* every request sent, in order of its id, and its promise
  stdin,        \* stdin[k]: ids the process has not read yet
  stdout,       \* stdout[k]: lines the host has not read yet
  torn,         \* stdoutBuffer ends with a part of a line of a dead process
  micro,        \* ids whose await continues next
  runtime,      \* runtime.ts: stopping, started, restartCount
  boot,         \* startBackgroundServices: "new", "worker" (awaits it) or "vfs"
  quit,         \* shutdown() has run
  view,         \* the store's model status: "fallback", or "worker" for what one said
  window        \* ready: the host saw dom-ready; load: of the initial state, and the
                \* answer it had; model: the status shown; heard, history: the last
                \* status the host sent was received, and no older answer replaced it

pipes == <<stdin, stdout, torn>>
vars  == <<spawned, proc, child, requests, pipes, micro, runtime, boot, quit, view,
           window>>

Request == [method : {"start", "snapshot", "call"}, by : {"boot", "restart", "client"},
            to : Children, state : {"pending", "resolved", "rejected"}]
\* Each spawn and restart sends "start" and may send "get_status_snapshot".
Ids == 1..(MaxCalls + 2 * (MaxRestarts + 1))
Frame == [kind : {"result", "error"}, id : Ids] \cup [kind : {"event", "noise", "torn"}]

Running == {k \in Children : proc[k] \in {"alive", "killed"}}
Idle == micro = <<>>

Init == /\ spawned = 0
        /\ proc = [k \in Children |-> "none"]
        /\ child = 0
        /\ requests = <<>>
        /\ stdin = [k \in Children |-> <<>>]
        /\ stdout = [k \in Children |-> <<>>]
        /\ torn = FALSE
        /\ micro = <<>>
        /\ runtime = [stopping |-> FALSE, started |-> FALSE, restartCount |-> 0]
        /\ boot = "new"
        /\ quit = FALSE
        /\ view = "fallback"
        /\ window = [ready |-> FALSE, load |-> "new", answer |-> "fallback",
                     model |-> "fallback", heard |-> TRUE]

-----------------------------------------------------------------------------
(* Pieces of the transport. Each step that sends or settles first works on *)
(* the table of requests it is given, and then assigns the result.         *)

Settled(reqs, S, s) == [i \in DOMAIN reqs |-> IF i \in S THEN [reqs[i] EXCEPT !.state = s] ELSE reqs[i]]

\* The ids of S whose promise startWorker awaits, oldest first.
Awaited(reqs, S) ==
  LET ids[i \in 0..Len(reqs)] ==
        IF i = 0 THEN <<>>
        ELSE IF i \in S /\ reqs[i].by # "client" THEN Append(ids[i - 1], i) ELSE ids[i - 1]
  IN  ids[Len(reqs)]

Pending == {i \in DOMAIN requests : requests[i].state = "pending"}

\* transport.request to process k, on a table where it gets the next id.
Send(reqs, method, by, k, alive) ==
  /\ requests' = Append(reqs, [method |-> method, by |-> by, to |-> k, state |-> "pending"])
  /\ stdin' = IF alive THEN [stdin EXCEPT ![k] = Append(@, Len(reqs) + 1)] ELSE stdin

(* startWorker up to its first await: transport.start spawns a process     *)
(* only when there is no child; "start" goes to the child there is.        *)
StartWorker(reqs, by, procs) ==
  IF child # 0
  THEN /\ Send(reqs, "start", by, child, procs[child] \in {"alive", "killed"})
       /\ proc' = procs
       /\ UNCHANGED spawned
  ELSE /\ spawned' = spawned + 1
       /\ proc' = [procs EXCEPT ![spawned + 1] = "alive"]
       /\ Send(reqs, "start", by, spawned + 1, TRUE)

(* The host sends the window a status, if it saw dom-ready; the window     *)
(* shows it, if its bridge is there, and the answer it loads gets old.     *)
Receives == window.ready /\ window.load # "new"
Sent(s) == [window EXCEPT !.load  = IF @ = "answered" THEN "overtaken" ELSE @,
                          !.model = IF Receives THEN s ELSE @,
                          !.heard = Receives]

\* Wrong variants, here and below: a status only stored, pending promises
\* forgotten, a restart during shutdown, one that leaves "start" to the next
\* caller.
ShownUnsent(s) == IF quit THEN UNCHANGED <<view, window>> ELSE view' = s /\ UNCHANGED window

\* The store has a new model status; nobody listens any more after shutdown.
Shown(s) == IF quit THEN UNCHANGED <<view, window>> ELSE view' = s /\ window' = Sent(s)

-----------------------------------------------------------------------------
(* The host.                                                               *)

Boot == /\ boot = "new"
        /\ StartWorker(requests, "boot", proc)
        /\ child' = spawned'
        /\ runtime' = [stopping |-> FALSE, started |-> TRUE, restartCount |-> 0]
        /\ boot' = "worker"
        /\ UNCHANGED <<stdout, torn, micro, quit, view, window>>

\* An indexing hook or a search; without a child the call throws at once.
Call == /\ Idle /\ boot # "new" /\ child # 0
        /\ Cardinality({i \in DOMAIN requests : requests[i].by = "client"}) < MaxCalls
        /\ Send(requests, "call", "client", child, child \in Running)
        /\ UNCHANGED <<spawned, proc, child, stdout, torn, micro, runtime, boot, quit, view, window>>

QuitMarkingStopped ==
  /\ Idle /\ boot # "new" /\ ~quit /\ child # 0
  /\ quit' = TRUE
  /\ runtime' = [runtime EXCEPT !.stopping = TRUE, !.started = FALSE]
  /\ proc' = [proc EXCEPT ![child] = "stopped"]
  /\ child' = 0
  /\ UNCHANGED <<spawned, requests, pipes, micro, boot, view, window>>

\* transport.stop, with or without a child.
Signals == /\ proc' = [k \in Children |->
                         IF k = child /\ proc[k] = "alive" THEN "killed" ELSE proc[k]]
           /\ child' = 0

\* runtime.stop.
RuntimeStops == /\ runtime' = [runtime EXCEPT !.stopping = TRUE, !.started = FALSE]
                /\ IF runtime.started THEN Signals ELSE UNCHANGED <<proc, child>>

\* shutdown(): the subscriptions end, and the runtime is stopped.
Quit == /\ Idle /\ boot # "new" /\ ~quit
        /\ quit' = TRUE
        /\ RuntimeStops
        /\ UNCHANGED <<spawned, requests, pipes, micro, boot, view, window>>

\* The continuation of an await in startWorker, and of its caller.
FlowEnds(by) == boot' = IF by = "boot" THEN "vfs" ELSE boot

Continue ==
  /\ micro # <<>>
  /\ micro' = Tail(micro)
  /\ LET r == requests[Head(micro)]
     IN  IF r.state = "resolved" /\ r.method = "start" /\ child # 0
         THEN /\ Send(requests, "snapshot", r.by, child, child \in Running)
              /\ UNCHANGED <<boot, view, window>>
         ELSE /\ FlowEnds(r.by)
              /\ IF r.state = "resolved" /\ r.method = "snapshot" THEN Shown("worker")
                 ELSE UNCHANGED <<view, window>>
              /\ UNCHANGED <<requests, stdin>>
  /\ UNCHANGED <<spawned, proc, child, stdout, torn, runtime, quit>>

-----------------------------------------------------------------------------
(* What reaches the host from a process.                                   *)

Rejected == Settled(requests, Pending, "rejected")

\* The runtime's listener restarts a bounded number of times, never at the end.
GivesUp == runtime.stopping \/ runtime.restartCount >= MaxRestarts

ExitKeepingPending(k) ==
  /\ Idle /\ proc[k] = "dead"
  /\ proc' = [proc EXCEPT ![k] = "gone"]
  /\ child' = 0
  /\ Shown("fallback")
  /\ UNCHANGED <<spawned, requests, pipes, micro, runtime, boot, quit>>

ExitRestarting(k, clear, method) ==
  /\ Idle /\ proc[k] = "dead"
  /\ runtime.restartCount < MaxRestarts
  /\ spawned' = spawned + 1
  /\ proc' = [proc EXCEPT ![k] = "gone", ![spawned + 1] = "alive"]
  /\ Send(Rejected, method, "restart", spawned + 1, TRUE)
  /\ runtime' = [runtime EXCEPT !.restartCount = @ + 1, !.started = TRUE]
  /\ micro' = Awaited(requests, Pending)
  /\ child' = IF clear THEN 0 ELSE spawned + 1
  /\ Shown("fallback")
  /\ UNCHANGED <<stdout, torn, boot, quit>>
ExitIgnoringStop(k)     == ExitRestarting(k, TRUE, "start")
ExitWithoutHandshake(k) == ~runtime.stopping /\ ExitRestarting(k, FALSE, "snapshot")

(* The "exit" handler of the child, or "error" when it could not be        *)
(* spawned: every pending promise is rejected, the runtime's listener may  *)
(* restart, the application's listener resets the statuses, and only then  *)
(* the child is forgotten.                                                 *)
Exit(k) ==
  /\ Idle /\ proc[k] = "dead"
  /\ LET gone == [proc EXCEPT ![k] = "gone"]
     IN  IF GivesUp
         THEN /\ requests' = Rejected
              /\ proc' = gone
              /\ UNCHANGED <<spawned, stdin, runtime>>
         ELSE /\ StartWorker(Rejected, "restart", gone)
              /\ runtime' = [runtime EXCEPT !.restartCount = @ + 1, !.started = TRUE]
  /\ micro' = Awaited(requests, Pending)
  /\ child' = 0
  /\ Shown("fallback")
  /\ UNCHANGED <<stdout, torn, boot, quit>>

\* A line that is no frame fails every pending request.
BadLine == /\ requests' = Rejected
           /\ micro' = micro \o Awaited(requests, Pending)
           /\ UNCHANGED <<view, window>>

ReplyLine(f) ==
  /\ LET S == {f.id} \cap Pending
     IN  /\ requests' = Settled(requests, S, IF f.kind = "result" THEN "resolved" ELSE "rejected")
         /\ micro' = micro \o Awaited(requests, S)
  /\ UNCHANGED <<view, window>>

\* model_status_changed, or an event of another status.
EventLine == /\ Shown("worker") \/ UNCHANGED <<view, window>>
             /\ UNCHANGED <<requests, micro>>

(* The next line of stdout. It may arrive after the exit event, and the    *)
(* rest of a line that a dead process began makes the next one invalid.    *)
Data(k) ==
  /\ stdout[k] # <<>>
  /\ Idle \/ proc[k] # "gone"
  /\ stdout' = [stdout EXCEPT ![k] = Tail(@)]
  /\ LET f == Head(stdout[k])
     IN  /\ torn' = (f.kind = "torn")
         /\ CASE f.kind = "torn" -> UNCHANGED <<requests, micro, view, window>>
              [] f.kind = "noise" \/ (torn /\ f.kind # "torn") -> BadLine
              [] f.kind = "event" /\ ~torn -> EventLine
              [] f.kind \in {"result", "error"} /\ ~torn -> ReplyLine(f)
  /\ UNCHANGED <<spawned, proc, child, stdin, runtime, boot, quit>>

-----------------------------------------------------------------------------
(* The worker process.                                                     *)

Emit(k, f) == stdout' = [stdout EXCEPT ![k] = Append(@, f)]

(* WorkerRuntime.run answers the requests in order; only "start" answers   *)
(* with an error, any other handler that raises ends the process.          *)
Handle(k) ==
  /\ k \in Running /\ stdin[k] # <<>>
  /\ stdin' = [stdin EXCEPT ![k] = Tail(@)]
  /\ \/ Emit(k, [kind |-> "result", id |-> Head(stdin[k])])
     \/ /\ requests[Head(stdin[k])].method = "start"
        /\ Emit(k, [kind |-> "error", id |-> Head(stdin[k])])
  /\ UNCHANGED <<spawned, proc, child, requests, torn, micro, runtime, boot, quit, view, window>>

\* A status event of one of its threads, or text a library prints.
Chatter(k) == /\ k \in Running
              /\ Len(stdout[k]) < MaxFrames
              /\ \E kind \in {"event", "noise"} : Emit(k, [kind |-> kind])
              /\ UNCHANGED <<spawned, proc, child, requests, stdin, torn, micro, runtime,
                             boot, quit, view, window>>

\* It ends: a signal, an exception, or it could not be spawned at all.
Die(k) == /\ k \in Running
          /\ proc' = [proc EXCEPT ![k] = "dead"]
          /\ stdin' = [stdin EXCEPT ![k] = <<>>]
          /\ Emit(k, [kind |-> "torn"]) \/ UNCHANGED stdout
          /\ UNCHANGED <<spawned, child, requests, torn, micro, runtime, boot, quit, view, window>>

-----------------------------------------------------------------------------
(* The window.                                                             *)

host == <<spawned, proc, child, requests, pipes, micro, runtime, boot, quit, view>>

DomReady == /\ Idle /\ ~window.ready
            /\ window' = [window EXCEPT !.ready = TRUE]
            /\ UNCHANGED host

\* The bridge is there: the window asks for the four statuses, ...
AsksStatus == /\ window.load = "new"
              /\ window' = [window EXCEPT !.load = "asked"]
              /\ UNCHANGED host

\* ... the host answers each from its store, ...
TellsStatus == /\ Idle /\ window.load = "asked"
               /\ window' = [window EXCEPT !.load = "answered", !.answer = view]
               /\ UNCHANGED host

\* ... and with the last answer all are shown, or, if one was not had, none.
StatusLoaded ==
  /\ \/ /\ window.load \in {"answered", "overtaken"}
        /\ window' = [window EXCEPT !.load = "done", !.model = window.answer,
                                    !.heard = window.load = "answered"]
     \/ /\ window.load \in {"asked", "answered", "overtaken"}
        /\ window' = [window EXCEPT !.load = "done", !.model = "fallback", !.heard = FALSE]
  /\ UNCHANGED host

-----------------------------------------------------------------------------
Next == \/ Boot \/ Call \/ Quit \/ Continue
        \/ DomReady \/ AsksStatus \/ TellsStatus \/ StatusLoaded
        \/ \E k \in Children : Exit(k) \/ Data(k) \/ Handle(k) \/ Chatter(k) \/ Die(k)

(* The event loop runs what is queued, a signalled process ends, and a     *)
(* handler of the worker returns or takes the process with it. Nothing     *)
(* makes a process die by itself, or the user call or quit.                *)
Fairness == /\ WF_vars(Boot) /\ WF_vars(Continue)
            /\ \A k \in Children : /\ WF_vars(Exit(k)) /\ WF_vars(Data(k))
                                   /\ WF_vars(Handle(k))
                                   /\ WF_vars(proc[k] = "killed" /\ Die(k))

Spec == Init /\ [][Next]_vars /\ Fairness

-----------------------------------------------------------------------------
TypeOK == /\ spawned \in 0..(MaxRestarts + 1)
          /\ proc \in [Children -> {"none", "alive", "killed", "dead", "gone"}]
          /\ child \in 0..(MaxRestarts + 1)
          /\ requests \in Seq(Request) /\ DOMAIN requests \subseteq Ids
          /\ stdin \in [Children -> Seq(Ids)]
          /\ stdout \in [Children -> Seq(Frame)]
          /\ torn \in BOOLEAN
          /\ micro \in Seq(Ids)
          /\ runtime \in [stopping : BOOLEAN, started : BOOLEAN, restartCount : 0..MaxRestarts]
          /\ boot \in {"new", "worker", "vfs"}
          /\ quit \in BOOLEAN
          /\ view \in {"fallback", "worker"}
          /\ window \in [ready : BOOLEAN,
                         load : {"new", "asked", "answered", "overtaken", "done"},
                         answer : {"fallback", "worker"}, model : {"fallback", "worker"},
                         heard : BOOLEAN]

(* A worker reads "start" before any other request: no search and no       *)
(* index_node reaches services that have no storage path and no models.    *)
(* (Of the one process there ever is: see RestartSpawns.)                  *)
FirstTo(k) == {i \in DOMAIN requests : requests[i].to = k
                                       /\ \A j \in 1..(i - 1) : requests[j].to # k}
StartFirst == \A k \in Children : \A i \in FirstTo(k) : requests[i].method = "start"

(* After shutdown no worker is left running: not when it dies, answers or  *)
(* is restarted around the moment of the quit.                             *)
NoWorkerAfterQuit == quit => child = 0 /\ \A k \in Children : proc[k] # "alive"

(* The window shows the models' status the host has, of whatever worker,   *)
(* and what a dead one said is taken back (index.ts, App.tsx), unless the  *)
(* last status was sent before the window could hear it, or was replaced   *)
(* by what a load came to that was older or failed: what is shown may then *)
(* be wrong, until the next status is sent or loaded.                      *)
WindowFollows == window.heard => window.model = view

(* Every hook and search request is answered or rejected: there comes a    *)
(* time when none is pending, and, calls being bounded, each is settled.   *)
CallPending == \E i \in Pending : requests[i].by = "client"
CallsSettle == CallPending ~> ~CallPending

(* A restart of the runtime is a new process: "restarts after unexpected   *)
(* exit and rehydrates snapshot".                                          *)
RestartSpawns == boot # "new" => spawned = runtime.restartCount + 1
=============================================================================
