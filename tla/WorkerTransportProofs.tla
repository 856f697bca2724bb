------------------------ MODULE WorkerTransportProofs ------------------------
(***************************************************************************)
(* Proofs about WorkerTransport, for any number of restarts, calls and     *)
(* lines: shutdown leaves no worker running, a process reads "start"       *)
(* first, the window follows the status the host has, and the ids suffice. *)
(***************************************************************************)
EXTENDS WorkerTransport, FiniteSetTheorems, WellFoundedInduction, TLAPS

Lively == {"alive", "killed", "dead"}   \* a process whose exit event is to come

BeforeBoot == boot = "new" => /\ spawned = 0 /\ child = 0 /\ micro = <<>>
                              /\ \A k \in Children : proc[k] = "none" /\ stdout[k] = <<>>

(* Until shutdown the runtime counts as started and the transport holds    *)
(* the one process there is: a restart, which finds the dead child still   *)
(* in its place, spawns none (RestartSpawns).                              *)
HostInv ==
  /\ proc \in [Children -> {"none", "alive", "killed", "dead", "gone"}]
  /\ BeforeBoot
  /\ quit => boot # "new"
  /\ quit <=> runtime.stopping
  /\ boot = "new" \/ quit \/ runtime.started
  /\ quit \/ \A k \in Children : proc[k] \in Lively => child = k
  /\ NoWorkerAfterQuit
  /\ runtime \in [stopping : BOOLEAN, started : BOOLEAN, restartCount : Nat]

LEMMA HostInit == Init => HostInv
<1> SUFFICES ASSUME Init PROVE HostInv
  OBVIOUS
<1>1. runtime \in [stopping : BOOLEAN, started : BOOLEAN, restartCount : Nat]
  BY DEF Init
<1>2. ~quit /\ ~runtime.stopping /\ boot = "new"
  BY DEF Init
<1>3. proc \in [Children -> {"none", "alive", "killed", "dead", "gone"}] /\ BeforeBoot
  BY DEF Init, BeforeBoot
<1>4. \A k \in Children : proc[k] \notin Lively
  BY DEF Init, Lively
<1>5. QED
  BY <1>1, <1>2, <1>3, <1>4 DEF HostInv, NoWorkerAfterQuit

(* What sets the counters of the runtime leaves stopping as it is.         *)
LEMMA Restarted ==
  ASSUME runtime \in [stopping : BOOLEAN, started : BOOLEAN, restartCount : Nat],
         runtime' = [runtime EXCEPT !.restartCount = @ + 1, !.started = TRUE]
  PROVE  /\ runtime' \in [stopping : BOOLEAN, started : BOOLEAN, restartCount : Nat]
         /\ runtime'.stopping = runtime.stopping /\ runtime'.started = TRUE
<1>1. /\ runtime.stopping \in BOOLEAN /\ runtime.started \in BOOLEAN
      /\ runtime.restartCount \in Nat
  OBVIOUS
<1>2. runtime' = [stopping |-> runtime.stopping, started |-> TRUE,
                  restartCount |-> runtime.restartCount + 1]
  OBVIOUS
<1>3. runtime'.stopping = runtime.stopping /\ runtime'.started = TRUE
  BY <1>2, Zenon
<1>4. ASSUME NEW a \in BOOLEAN, NEW b \in BOOLEAN, NEW n \in Nat
      PROVE  [stopping |-> a, started |-> b, restartCount |-> n]
               \in [stopping : BOOLEAN, started : BOOLEAN, restartCount : Nat]
  OBVIOUS
<1>5. runtime.restartCount + 1 \in Nat
  BY <1>1
<1>6. QED
  BY <1>1, <1>2, <1>3, <1>4, <1>5, Zenon

LEMMA Stopped ==
  ASSUME runtime \in [stopping : BOOLEAN, started : BOOLEAN, restartCount : Nat],
         runtime' = [runtime EXCEPT !.stopping = TRUE, !.started = FALSE]
  PROVE  /\ runtime' \in [stopping : BOOLEAN, started : BOOLEAN, restartCount : Nat]
         /\ runtime'.stopping = TRUE
OBVIOUS

(* A step after boot that leaves the processes and the runtime alone.      *)
LEMMA Apart ==
  ASSUME HostInv, boot # "new", boot' # "new", UNCHANGED <<proc, child, quit, runtime>>
  PROVE  HostInv'
BY DEF HostInv, BeforeBoot, NoWorkerAfterQuit

(* Nothing runs before boot: no handler of a process has anything to do.   *)
LEMMA Running1 ==
  ASSUME HostInv, NEW k \in Children, proc[k] # "none" \/ stdout[k] # <<>> \/ micro # <<>>
  PROVE  boot # "new"
BY DEF HostInv, BeforeBoot

-----------------------------------------------------------------------------
LEMMA HostNext == HostInv /\ [Next]_vars => HostInv'
<1> SUFFICES ASSUME HostInv, [Next]_vars PROVE HostInv'
  OBVIOUS
<1>t. /\ proc \in [Children -> {"none", "alive", "killed", "dead", "gone"}]
      /\ runtime \in [stopping : BOOLEAN, started : BOOLEAN, restartCount : Nat]
  BY DEF HostInv
<1>c. 1 \in Children /\ 0 \notin Children
  BY TransportAssumption DEF Children
<1>1. CASE Boot
  <2>1. /\ spawned = 0 /\ child = 0 /\ boot' = "worker" /\ UNCHANGED quit /\ ~quit
        /\ \A k \in Children : proc[k] = "none"
        /\ runtime' = [stopping |-> FALSE, started |-> TRUE, restartCount |-> 0]
    BY <1>1 DEF Boot, HostInv, BeforeBoot
  <2>2. spawned' = 1 /\ proc' = [proc EXCEPT ![1] = "alive"] /\ child' = 1
    BY <1>1, <2>1 DEF Boot, StartWorker
  <2>3. /\ proc' \in [Children -> {"none", "alive", "killed", "dead", "gone"}]
        /\ \A k \in Children : proc'[k] \in Lively => k = 1
    BY <1>t, <1>c, <2>1, <2>2 DEF Lively
  <2>4. /\ runtime' \in [stopping : BOOLEAN, started : BOOLEAN, restartCount : Nat]
        /\ runtime'.stopping = FALSE /\ runtime'.started = TRUE
    BY <2>1
  <2>5. QED
    BY <2>1, <2>2, <2>3, <2>4 DEF HostInv, BeforeBoot, NoWorkerAfterQuit
<1>2. CASE Call
  BY <1>2, Apart DEF Call
<1>3. CASE Quit
  <2>1. boot # "new" /\ ~quit /\ quit' = TRUE /\ UNCHANGED boot /\ RuntimeStops
    BY <1>3 DEF Quit
  <2>2. runtime.started /\ \A k \in Children : proc[k] \in Lively => child = k
    BY <2>1 DEF HostInv
  <2>3. /\ runtime' = [runtime EXCEPT !.stopping = TRUE, !.started = FALSE] /\ child' = 0
        /\ proc' = [k \in Children |->
                      IF k = child /\ proc[k] = "alive" THEN "killed" ELSE proc[k]]
    BY <2>1, <2>2 DEF RuntimeStops, Signals
  <2>4. /\ proc' \in [Children -> {"none", "alive", "killed", "dead", "gone"}]
        /\ \A k \in Children : proc'[k] # "alive"
    BY <1>t, <2>2, <2>3 DEF Lively
  <2>5. /\ runtime' \in [stopping : BOOLEAN, started : BOOLEAN, restartCount : Nat]
        /\ runtime'.stopping = TRUE
    BY <1>t, <2>3, Stopped
  <2>6. QED
    BY <2>1, <2>3, <2>4, <2>5 DEF HostInv, BeforeBoot, NoWorkerAfterQuit
<1>4. CASE Continue
  <2>1. boot # "new" /\ UNCHANGED <<proc, child, quit, runtime>>
    BY <1>4 DEF Continue, HostInv, BeforeBoot
  <2>2. boot' = boot \/ boot' = "vfs"
    BY <1>4 DEF Continue, FlowEnds
  <2>3. QED
    BY <2>1, <2>2, Apart
<1>5. ASSUME NEW k \in Children, Exit(k) PROVE HostInv'
  <2>1. proc[k] = "dead" /\ boot # "new" /\ UNCHANGED <<boot, quit>> /\ child' = 0
    BY <1>5 DEF Exit, HostInv, BeforeBoot
  <2>2. ~GivesUp => ~quit /\ child = k
    BY <2>1 DEF GivesUp, HostInv, Lively
  <2>3. proc' = [proc EXCEPT ![k] = "gone"]
    BY <1>5, <1>c, <2>2 DEF Exit, StartWorker
  <2>4. /\ proc' \in [Children -> {"none", "alive", "killed", "dead", "gone"}]
        /\ proc'[k] = "gone" /\ \A j \in Children : j # k => proc'[j] = proc[j]
    BY <1>t, <2>3
  <2>5. \/ UNCHANGED runtime
        \/ runtime' = [runtime EXCEPT !.restartCount = @ + 1, !.started = TRUE]
    BY <1>5 DEF Exit
  <2>6. /\ runtime' \in [stopping : BOOLEAN, started : BOOLEAN, restartCount : Nat]
        /\ runtime'.stopping = runtime.stopping /\ (runtime.started => runtime'.started)
    BY <1>t, <2>5, Restarted
  <2>7. quit' \/ \A j \in Children : proc'[j] \notin Lively
    BY <2>1, <2>4 DEF HostInv, Lively
  <2>8. NoWorkerAfterQuit'
    BY <2>1, <2>4 DEF HostInv, NoWorkerAfterQuit
  <2>9. QED
    BY <2>1, <2>4, <2>6, <2>7, <2>8 DEF HostInv, BeforeBoot
<1>6. ASSUME NEW k \in Children, Data(k) PROVE HostInv'
  <2>1. boot # "new" /\ UNCHANGED <<proc, child, quit, runtime, boot>>
    BY <1>6, Running1 DEF Data
  <2>2. QED
    BY <2>1, Apart
<1>7. ASSUME NEW k \in Children, Handle(k) \/ Chatter(k) PROVE HostInv'
  <2>1. proc[k] # "none" /\ UNCHANGED <<proc, child, quit, runtime, boot>>
    BY <1>7 DEF Handle, Chatter, Running
  <2>2. QED
    BY <2>1, Running1, Apart
<1>8. ASSUME NEW k \in Children, Die(k) PROVE HostInv'
  <2>1. /\ proc[k] \in {"alive", "killed"} /\ UNCHANGED <<child, quit, runtime, boot>>
        /\ proc' = [proc EXCEPT ![k] = "dead"]
    BY <1>8 DEF Die, Running
  <2>2. boot # "new"
    BY <2>1, Running1
  <2>3. /\ proc' \in [Children -> {"none", "alive", "killed", "dead", "gone"}]
        /\ proc'[k] = "dead" /\ \A j \in Children : j # k => proc'[j] = proc[j]
    BY <1>t, <2>1
  <2>4. quit' \/ \A j \in Children : proc'[j] \in Lively => child' = j
    BY <2>1, <2>3 DEF HostInv, Lively
  <2>5. NoWorkerAfterQuit'
    BY <2>1, <2>3 DEF HostInv, NoWorkerAfterQuit
  <2>6. QED
    BY <2>1, <2>2, <2>3, <2>4, <2>5 DEF HostInv, BeforeBoot
<1>9. CASE UNCHANGED host
  BY <1>9 DEF host, pipes, HostInv, BeforeBoot, NoWorkerAfterQuit
<1>10. CASE DomReady \/ AsksStatus \/ TellsStatus \/ StatusLoaded
  BY <1>9, <1>10 DEF DomReady, AsksStatus, TellsStatus, StatusLoaded
<1>11. CASE UNCHANGED vars
  BY <1>9, <1>11 DEF vars, host
<1>12. QED
  BY <1>1, <1>2, <1>3, <1>4, <1>5, <1>6, <1>7, <1>8, <1>10, <1>11 DEF Next

(* After shutdown no worker is left running, whatever it was doing and     *)
(* however often it had died (runtime.ts stop, transport.ts stop, exit).   *)
THEOREM NoneRunsAfterQuit == Spec => []NoWorkerAfterQuit
<1>1. HostInv => NoWorkerAfterQuit
  BY DEF HostInv
<1>2. QED
  BY <1>1, HostInit, HostNext, PTL DEF Spec

-----------------------------------------------------------------------------
(* The requests and the pipes. Every request goes to the one process that  *)
(* is ever spawned, and the first one is "start".                          *)
Line == [kind : {"result", "error"}, id : Nat] \cup [kind : {"event", "noise", "torn"}]

Entry(r) == /\ r = [method |-> r.method, by |-> r.by, to |-> r.to, state |-> r.state]
            /\ r.to = 1

Table(reqs) == /\ Len(reqs) \in Nat /\ reqs = [i \in 1..Len(reqs) |-> reqs[i]]
               /\ \A i \in 1..Len(reqs) : Entry(reqs[i])
               /\ Len(reqs) > 0 => reqs[1].method = "start"

PipesInv == /\ Table(requests)
            /\ boot = "new" \/ Len(requests) > 0
            /\ child \in {0, 1}
            /\ stdin \in [Children -> Seq(Nat)]
            /\ stdout \in [Children -> Seq(Line)]

LEMMA SettledTable ==
  ASSUME NEW reqs, Table(reqs), NEW S, NEW s
  PROVE  Table(Settled(reqs, S, s)) /\ Len(Settled(reqs, S, s)) = Len(reqs)
<1> DEFINE n == Len(reqs)
           new == Settled(reqs, S, s)
<1>1. n \in Nat /\ DOMAIN reqs = 1..n /\ \A i \in 1..n : Entry(reqs[i])
  BY DEF Table
<1>2. new = [i \in 1..n |-> IF i \in S THEN [reqs[i] EXCEPT !.state = s] ELSE reqs[i]]
  BY <1>1 DEF Settled
<1>3. Len(new) = n
  BY <1>1, <1>2
<1>4. ASSUME NEW i \in 1..n PROVE Entry(new[i]) /\ new[i].method = reqs[i].method
  <2>1. Entry(reqs[i])
    BY <1>1
  <2>2. [reqs[i] EXCEPT !.state = s] =
          [method |-> reqs[i].method, by |-> reqs[i].by, to |-> reqs[i].to, state |-> s]
    BY <2>1 DEF Entry
  <2>3. new[i] = reqs[i] \/ new[i] = [method |-> reqs[i].method, by |-> reqs[i].by,
                                      to |-> reqs[i].to, state |-> s]
    BY <1>2, <2>2
  <2>4. QED
    BY <2>1, <2>3 DEF Entry
<1> HIDE DEF new
<1>5. new = [i \in 1..n |-> new[i]]
  BY <1>2
<1>6. n > 0 => new[1].method = "start"
  BY <1>1, <1>4 DEF Table
<1>7. QED
  BY <1>1, <1>3, <1>4, <1>5, <1>6 DEF Table, new

LEMMA SentTable ==
  ASSUME NEW reqs, Table(reqs), stdin \in [Children -> Seq(Nat)], 1 \in Children,
         NEW m, NEW b, NEW a, Len(reqs) > 0 \/ m = "start", Send(reqs, m, b, 1, a)
  PROVE  /\ Table(requests') /\ Len(requests') > 0
         /\ stdin' \in [Children -> Seq(Nat)]
<1> DEFINE n == Len(reqs)
           e == [method |-> m, by |-> b, to |-> 1, state |-> "pending"]
           E == {reqs[i] : i \in 1..n} \cup {e}
<1>1. n \in Nat /\ reqs = [i \in 1..n |-> reqs[i]] /\ \A i \in 1..n : Entry(reqs[i])
  BY DEF Table
<1>2. requests' = Append(reqs, e)
  BY DEF Send
<1>3. Entry(e) /\ e.method = m
  BY DEF Entry
<1> HIDE DEF e
<1>4. reqs \in [1..n -> E] /\ e \in E
  BY <1>1
<1>5. reqs \in Seq(E)
  BY <1>1, <1>4
<1>6. /\ Len(requests') = n + 1 /\ requests' = [i \in 1..(n + 1) |-> requests'[i]]
      /\ requests'[n + 1] = e /\ \A i \in 1..n : requests'[i] = reqs[i]
  <2> HIDE DEF E
  <2>1. requests' \in Seq(E) /\ Len(requests') = n + 1
    BY <1>2, <1>4, <1>5
  <2>2. requests'[n + 1] = e /\ \A i \in 1..n : requests'[i] = reqs[i]
    BY <1>2, <1>4, <1>5
  <2>3. requests' = [i \in 1..(n + 1) |-> requests'[i]]
    BY <2>1
  <2>4. QED
    BY <2>1, <2>2, <2>3
<1>7. \A i \in 1..(n + 1) : Entry(requests'[i])
  BY <1>1, <1>3, <1>6
<1>8. requests'[1].method = "start"
  <2>1. CASE n = 0
    BY <1>3, <1>6, <2>1
  <2>2. CASE n > 0
    <3>1. reqs[1].method = "start"
      BY <2>2 DEF Table
    <3>2. 1 \in 1..n
      BY <1>1, <2>2
    <3>3. QED
      BY <1>6, <3>1, <3>2
  <2>3. QED
    BY <1>1, <2>1, <2>2
<1>9. stdin' \in [Children -> Seq(Nat)]
  BY <1>1 DEF Send
<1>10. QED
  BY <1>1, <1>6, <1>7, <1>8, <1>9 DEF Table

LEMMA Emitted ==
  ASSUME PipesInv, NEW k \in Children, NEW f \in Line, Emit(k, f)
  PROVE  stdout' \in [Children -> Seq(Line)]
BY DEF PipesInv, Emit

(* A line the host takes settles requests, or tells a status, or nothing.  *)
LEMMA LineTaken ==
  ASSUME NEW k \in Children, Data(k), Head(stdout[k]) \in Line
  PROVE  \/ UNCHANGED <<requests, micro, view, window>>
         \/ BadLine \/ EventLine \/ ReplyLine(Head(stdout[k]))
<1> DEFINE f == Head(stdout[k])
<1>1. f.kind \in {"result", "error", "event", "noise", "torn"}
  BY DEF Line
<1>2. /\ f.kind = "torn" => UNCHANGED <<requests, micro, view, window>>
      /\ f.kind # "torn" /\ (torn \/ f.kind = "noise") => BadLine
      /\ f.kind = "event" /\ ~torn => EventLine
      /\ f.kind \in {"result", "error"} /\ ~torn => ReplyLine(f)
  BY DEF Data
<1>3. QED
  BY <1>1, <1>2

LEMMA PipesInit == Init => PipesInv
<1> SUFFICES ASSUME Init PROVE PipesInv
  OBVIOUS
<1>1. requests = <<>> /\ boot = "new" /\ child = 0
  BY DEF Init
<1>2. Table(requests)
  BY <1>1 DEF Table
<1>3. stdin \in [Children -> Seq(Nat)] /\ stdout \in [Children -> Seq(Line)]
  BY DEF Init
<1>4. QED
  BY <1>1, <1>2, <1>3 DEF PipesInv

LEMMA PipesNext == HostInv /\ PipesInv /\ [Next]_vars => PipesInv'
<1> SUFFICES ASSUME HostInv, PipesInv, [Next]_vars PROVE PipesInv'
  OBVIOUS
<1>t. /\ Table(requests) /\ stdin \in [Children -> Seq(Nat)]
      /\ stdout \in [Children -> Seq(Line)] /\ child \in {0, 1}
  BY DEF PipesInv
<1>c. 1 \in Children
  BY TransportAssumption DEF Children
<1>1. CASE Boot
  <2>1. /\ spawned = 0 /\ child = 0 /\ StartWorker(requests, "boot", proc)
        /\ child' = spawned' /\ UNCHANGED stdout
    BY <1>1 DEF Boot, HostInv, BeforeBoot
  <2>2. Send(requests, "start", "boot", 1, TRUE) /\ child' = 1
    BY <2>1 DEF StartWorker, Send
  <2>3. /\ Table(requests') /\ Len(requests') > 0 /\ stdin' \in [Children -> Seq(Nat)]
    BY <1>t, <1>c, <2>2, SentTable
  <2>4. QED
    BY <1>t, <2>1, <2>2, <2>3 DEF PipesInv
<1>2. CASE Call
  <2>1. /\ child = 1 /\ Len(requests) > 0 /\ UNCHANGED <<child, stdout, boot>>
        /\ Send(requests, "call", "client", 1, child \in Running)
    BY <1>t, <1>2 DEF Call, PipesInv
  <2>2. Table(requests') /\ Len(requests') > 0 /\ stdin' \in [Children -> Seq(Nat)]
    BY <1>t, <1>c, <2>1, SentTable
  <2>3. QED
    BY <1>t, <2>1, <2>2 DEF PipesInv
<1>3. CASE Quit
  BY <1>3 DEF Quit, RuntimeStops, Signals, pipes, PipesInv
<1>4. CASE Continue
  <2>1. Len(requests) > 0 /\ UNCHANGED <<child, stdout>>
    BY <1>4 DEF Continue, HostInv, BeforeBoot, PipesInv
  <2>2. \/ UNCHANGED <<requests, stdin>>
        \/ child = 1 /\ \E b : Send(requests, "snapshot", b, 1, child \in Running)
    BY <1>t, <1>4 DEF Continue
  <2>3. Table(requests') /\ Len(requests') > 0 /\ stdin' \in [Children -> Seq(Nat)]
    BY <1>t, <1>c, <2>1, <2>2, SentTable
  <2>4. QED
    BY <1>t, <2>1, <2>3 DEF PipesInv
<1>5. ASSUME NEW k \in Children, Exit(k) PROVE PipesInv'
  <2>1. proc[k] = "dead" /\ boot # "new" /\ child' = 0 /\ UNCHANGED stdout
    BY <1>5 DEF Exit, HostInv, BeforeBoot
  <2>2. ~GivesUp => child = 1
    BY <1>t, <2>1, TransportAssumption DEF GivesUp, HostInv, Lively, Children
  <2>3. Table(Rejected) /\ Len(Rejected) = Len(requests) /\ Len(requests) > 0
    BY <1>t, <2>1, SettledTable DEF Rejected, PipesInv
  <2>4. \/ requests' = Rejected /\ UNCHANGED stdin
        \/ \E a : Send(Rejected, "start", "restart", 1, a)
    <3>1. \/ requests' = Rejected /\ UNCHANGED stdin
          \/ ~GivesUp /\ StartWorker(Rejected, "restart", [proc EXCEPT ![k] = "gone"])
      BY <1>5 DEF Exit
    <3>2. ASSUME child = 1, StartWorker(Rejected, "restart", [proc EXCEPT ![k] = "gone"])
          PROVE  \E a : Send(Rejected, "start", "restart", 1, a)
      BY <3>2 DEF StartWorker
    <3>3. QED
      BY <2>2, <3>1, <3>2
  <2>5. Table(requests') /\ Len(requests') > 0 /\ stdin' \in [Children -> Seq(Nat)]
    BY <1>t, <1>c, <2>3, <2>4, SentTable
  <2>6. QED
    BY <1>t, <2>1, <2>5 DEF PipesInv
<1>6. ASSUME NEW k \in Children, Data(k) PROVE PipesInv'
  <2>1. /\ stdout[k] \in Seq(Line) /\ stdout[k] # <<>>
        /\ stdout' = [stdout EXCEPT ![k] = Tail(@)] /\ UNCHANGED <<stdin, child, boot>>
    BY <1>t, <1>6 DEF Data
  <2>2. Head(stdout[k]) \in Line /\ stdout' \in [Children -> Seq(Line)]
    BY <1>t, <2>1
  <2>3. UNCHANGED requests \/ \E S, s : requests' = Settled(requests, S, s)
    BY <1>6, <2>2, LineTaken DEF BadLine, EventLine, ReplyLine, Rejected
  <2>4. Table(requests') /\ Len(requests') = Len(requests)
    BY <1>t, <2>3, SettledTable
  <2>5. QED
    BY <1>t, <2>1, <2>2, <2>4 DEF PipesInv
<1>7. ASSUME NEW k \in Children, Handle(k) PROVE PipesInv'
  <2>1. /\ stdin[k] \in Seq(Nat) /\ stdin[k] # <<>> /\ stdin' = [stdin EXCEPT ![k] = Tail(@)]
        /\ UNCHANGED <<requests, child, boot>>
        /\ \E kind \in {"result", "error"} : Emit(k, [kind |-> kind, id |-> Head(stdin[k])])
    BY <1>t, <1>7 DEF Handle
  <2>2. Head(stdin[k]) \in Nat /\ stdin' \in [Children -> Seq(Nat)]
    BY <1>t, <2>1
  <2>3. stdout' \in [Children -> Seq(Line)]
    BY <2>1, <2>2, Emitted DEF Line
  <2>4. QED
    BY <2>1, <2>2, <2>3 DEF PipesInv
<1>8. ASSUME NEW k \in Children, Chatter(k) \/ Die(k) PROVE PipesInv'
  <2>1. /\ UNCHANGED <<requests, child, boot>>
        /\ stdin' = stdin \/ stdin' = [stdin EXCEPT ![k] = <<>>]
    BY <1>8 DEF Chatter, Die
  <2>a. stdin' \in [Children -> Seq(Nat)]
    <3>1. <<>> \in Seq(Nat)
      OBVIOUS
    <3>2. ASSUME NEW e \in Seq(Nat) PROVE [stdin EXCEPT ![k] = e] \in [Children -> Seq(Nat)]
      BY <1>t
    <3>3. QED
      BY <1>t, <2>1, <3>1, <3>2
  <2>2. UNCHANGED stdout \/ \E f \in Line : Emit(k, f)
    BY <1>8 DEF Chatter, Die, Line
  <2>3. stdout' \in [Children -> Seq(Line)]
    BY <1>t, <2>2, Emitted
  <2>4. QED
    BY <2>1, <2>a, <2>3 DEF PipesInv
<1>9. CASE UNCHANGED host
  BY <1>9 DEF host, pipes, PipesInv
<1>10. CASE DomReady \/ AsksStatus \/ TellsStatus \/ StatusLoaded
  BY <1>9, <1>10 DEF DomReady, AsksStatus, TellsStatus, StatusLoaded
<1>11. CASE UNCHANGED vars
  BY <1>9, <1>11 DEF vars, host
<1>12. QED
  BY <1>1, <1>2, <1>3, <1>4, <1>5, <1>6, <1>7, <1>8, <1>10, <1>11 DEF Next

(* A worker reads "start" before anything else (transport.ts start and     *)
(* request, runtime.ts startWorker), after a restart as well, for then     *)
(* there is no other worker to read anything.                              *)
THEOREM StartIsFirst == Spec => []StartFirst
<1>1. PipesInv => StartFirst
  <2> SUFFICES ASSUME PipesInv, NEW k \in Children, NEW i \in FirstTo(k)
               PROVE  requests[i].method = "start"
    BY DEF StartFirst
  <2>1. /\ Len(requests) \in Nat /\ DOMAIN requests = 1..Len(requests)
        /\ \A j \in 1..Len(requests) : requests[j].to = 1
        /\ Len(requests) > 0 => requests[1].method = "start"
    BY DEF PipesInv, Table, Entry
  <2>2. /\ i \in 1..Len(requests) /\ requests[i].to = k
        /\ \A j \in 1..(i - 1) : requests[j].to # k
    BY <2>1 DEF FirstTo
  <2>3. i = 1
    BY <2>1, <2>2
  <2>4. QED
    BY <2>1, <2>2, <2>3
<1>2. QED
  BY <1>1, HostInit, HostNext, PipesInit, PipesNext, PTL DEF Spec

-----------------------------------------------------------------------------
(* The window. What it heard is what the store has, and so is the answer   *)
(* of its load until a status overtakes it.                                *)
Status  == {"fallback", "worker"}
Windows == [ready : BOOLEAN, load : {"new", "asked", "answered", "overtaken", "done"},
            answer : Status, model : Status, heard : BOOLEAN]

WindowInv == /\ window \in Windows /\ view \in Status
             /\ window.heard => window.model = view
             /\ window.load = "answered" => window.answer = view

LEMMA WindowInit == Init => WindowInv
BY DEF Init, WindowInv, Windows, Status

(* A new status of the store, wherever the window is in its load.          *)
LEMMA WindowTold ==
  ASSUME WindowInv, NEW s \in Status, Shown(s)
  PROVE  WindowInv'
<1>1. CASE quit
  BY <1>1 DEF Shown, WindowInv
<1>2. CASE ~quit
  <2> DEFINE l == IF window.load = "answered" THEN "overtaken" ELSE window.load
             m == IF Receives THEN s ELSE window.model
             h == Receives
  <2>1. view' = s /\ window' = [window EXCEPT !.load = l, !.model = m, !.heard = h]
    BY <1>2 DEF Shown, Sent
  <2>2. window \in Windows /\ l \in {"new", "asked", "overtaken", "done"} /\ m \in Status
    BY DEF WindowInv, Windows
  <2>3. h \in BOOLEAN
    BY Zenon DEF Receives, WindowInv, Windows
  <2>4. h => m = s
    OBVIOUS
  <2> HIDE DEF l, m, h
  <2>5. /\ window' = [ready |-> window.ready, load |-> l, answer |-> window.answer,
                      model |-> m, heard |-> h]
    BY <2>1, <2>2, Zenon DEF Windows
  <2>6. window' \in Windows
    BY <2>2, <2>3, <2>5 DEF Windows
  <2>7. window'.heard = h /\ window'.model = m /\ window'.load = l
    BY <2>5
  <2>8. QED
    BY <2>1, <2>2, <2>4, <2>6, <2>7 DEF WindowInv
<1>3. QED
  BY <1>1, <1>2

LEMMA WindowNext == PipesInv /\ WindowInv /\ [Next]_vars => WindowInv'
<1> SUFFICES ASSUME PipesInv, WindowInv, [Next]_vars PROVE WindowInv'
  OBVIOUS
<1>1. CASE UNCHANGED <<view, window>>
  BY <1>1 DEF WindowInv
<1>2. CASE Continue
  <2>1. Shown("worker") \/ UNCHANGED <<view, window>>
    BY <1>2 DEF Continue
  <2>2. QED
    BY <1>1, <2>1, WindowTold DEF Status
<1>3. ASSUME NEW k \in Children, Exit(k) PROVE WindowInv'
  BY <1>3, WindowTold DEF Exit, Status
<1>4. ASSUME NEW k \in Children, Data(k) PROVE WindowInv'
  <2>1. Head(stdout[k]) \in Line
    BY <1>4 DEF Data, PipesInv
  <2>2. Shown("worker") \/ UNCHANGED <<view, window>>
    BY <1>4, <2>1, LineTaken DEF BadLine, EventLine, ReplyLine
  <2>3. QED
    BY <1>1, <2>2, WindowTold DEF Status
<1>w. window \in Windows /\ view \in Status
  BY DEF WindowInv
<1>5. CASE DomReady
  <2>1. UNCHANGED view /\ window' = [window EXCEPT !.ready = TRUE]
    BY <1>5 DEF DomReady, host
  <2>2. QED
    BY <1>w, <2>1 DEF WindowInv, Windows
<1>6. CASE AsksStatus
  <2>1. UNCHANGED view /\ window' = [window EXCEPT !.load = "asked"]
    BY <1>6 DEF AsksStatus, host
  <2>2. QED
    BY <1>w, <2>1 DEF WindowInv, Windows
<1>7. CASE TellsStatus
  <2>1. UNCHANGED view /\ window' = [window EXCEPT !.load = "answered", !.answer = view]
    BY <1>7 DEF TellsStatus, host
  <2>2. QED
    BY <1>w, <2>1 DEF WindowInv, Windows
<1>8. CASE StatusLoaded
  <2>1. UNCHANGED view
    BY <1>8 DEF StatusLoaded, host
  <2>2. CASE window' = [window EXCEPT !.load = "done", !.model = "fallback", !.heard = FALSE]
    BY <1>w, <2>1, <2>2 DEF WindowInv, Windows, Status
  <2> DEFINE h == window.load = "answered"
  <2>3. CASE window' = [window EXCEPT !.load = "done", !.model = window.answer, !.heard = h]
    <3>1. h \in BOOLEAN /\ window.answer \in Status /\ (h => window.answer = view)
      BY <1>w DEF WindowInv, Windows
    <3> HIDE DEF h
    <3>2. /\ window' = [ready |-> window.ready, load |-> "done", answer |-> window.answer,
                        model |-> window.answer, heard |-> h]
      BY <1>w, <2>3, Zenon DEF Windows
    <3>3. window' \in Windows
      BY <1>w, <3>1, <3>2 DEF Windows
    <3>4. window'.heard = h /\ window'.model = window.answer /\ window'.load = "done"
      BY <3>2
    <3>5. QED
      BY <1>w, <2>1, <3>1, <3>3, <3>4 DEF WindowInv
  <2>4. QED
    BY <1>8, <2>2, <2>3 DEF StatusLoaded
<1>9. CASE Boot \/ Call \/ Quit \/ \E k \in Children : Handle(k) \/ Chatter(k) \/ Die(k)
  BY <1>1, <1>9 DEF Boot, Call, Quit, Handle, Chatter, Die
<1>10. CASE UNCHANGED vars
  BY <1>1, <1>10 DEF vars
<1>11. QED
  BY <1>2, <1>3, <1>4, <1>5, <1>6, <1>7, <1>8, <1>9, <1>10 DEF Next

(* The window shows the models' status the host has (index.ts, App.tsx),   *)
(* unless the last status came too early or was replaced by an older one.  *)
THEOREM WindowIsTold == Spec => []WindowFollows
<1>1. WindowInv => WindowFollows
  BY DEF WindowInv, WindowFollows
<1>2. QED
  BY <1>1, HostInit, HostNext, PipesInit, PipesNext, WindowInit, WindowNext, PTL DEF Spec

-----------------------------------------------------------------------------
(* Types. What is hard in them is that the ids do not run out: there are   *)
(* as many "start" as restarts, at most one "get_status_snapshot" for each *)
(* "start", and a bounded number of calls.                                 *)

(* Induction, by a least counterexample.                                   *)
LEMMA UpTo ==
  ASSUME NEW S, NEW n \in Nat, 0 \in S, \A i \in 1..n : i - 1 \in S => i \in S
  PROVE  \A i \in 0..n : i \in S
<1> SUFFICES ASSUME NEW i \in 0..n, i \notin S PROVE FALSE
  OBVIOUS
<1> DEFINE F == {j \in 0..n : j \notin S}
           R == OpToRel(<, Nat)
<1>1. F \subseteq Nat /\ F # {}
  OBVIOUS
<1>2. IsWellFoundedOn(R, Nat)
  BY NatLessThanWellFounded, Zenon
<1>3. \A x, y \in F : y < x => <<y, x>> \in R
  BY DEF OpToRel
<1>4. PICK j \in F : \A y \in F : <<y, j>> \notin R
  <2> HIDE DEF F, R
  <2>1. QED
    BY <1>1, <1>2, WFMin, Zenon
<1>5. j \in 1..n /\ j - 1 \in 0..n /\ j - 1 < j /\ j \notin S
  <2> HIDE DEF R
  <2>1. j \in 0..n /\ j \notin S
    BY <1>4
  <2>2. j # 0
    BY <2>1
  <2>3. QED
    BY <2>1, <2>2
<1>6. j - 1 \notin F
  <2> HIDE DEF F, R
  <2>1. QED
    BY <1>3, <1>4, <1>5
<1>7. j - 1 \in S
  <2> HIDE DEF R
  <2>1. QED
    BY <1>5, <1>6
<1>8. QED
  <2> HIDE DEF F, R
  <2>1. QED
    BY <1>5, <1>7

(* Awaited as it is computed: k[i] is what the first i requests leave.     *)
AwaitedStep(reqs, S, k, i) ==
  IF i = 0 THEN <<>>
  ELSE IF i \in S /\ reqs[i].by # "client" THEN Append(k[i - 1], i) ELSE k[i - 1]
AwaitedUpTo(reqs, S, n, k) == k = [i \in 0..n |-> AwaitedStep(reqs, S, k, i)]

LEMMA AwaitedExists ==
  ASSUME NEW reqs, NEW S, NEW n \in Nat
  PROVE  \E k : AwaitedUpTo(reqs, S, n, k)
<1> DEFINE G == {m \in Nat : \E k : AwaitedUpTo(reqs, S, m, k)}
<1>1. 0 \in G
  <2>1. AwaitedUpTo(reqs, S, 0, [i \in 0..0 |-> <<>>])
    BY DEF AwaitedUpTo, AwaitedStep
  <2>2. QED
    BY <2>1
<1>2. ASSUME NEW m \in 1..n, m - 1 \in G PROVE m \in G
  <2>1. PICK k : AwaitedUpTo(reqs, S, m - 1, k)
    BY <1>2
  <2> DEFINE h == [i \in 0..m |-> IF i = m THEN AwaitedStep(reqs, S, k, m) ELSE k[i]]
  <2>2. h = [i \in 0..m |-> h[i]]
    OBVIOUS
  <2>3. h[m] = AwaitedStep(reqs, S, k, m) /\ \A i \in 0..(m - 1) : h[i] = k[i]
    OBVIOUS
  <2>4. \A i \in 0..(m - 1) : k[i] = AwaitedStep(reqs, S, k, i)
    BY <2>1 DEF AwaitedUpTo
  <2> HIDE DEF h
  <2>5. \A i \in 0..m : h[i] = AwaitedStep(reqs, S, h, i)
    BY <2>3, <2>4 DEF AwaitedStep
  <2>6. AwaitedUpTo(reqs, S, m, h)
    BY <2>2, <2>5 DEF AwaitedUpTo
  <2>7. QED
    BY <2>6
<1> HIDE DEF G
<1>3. n \in G
  BY <1>1, <1>2, UpTo
<1>4. QED
  BY <1>3 DEF G

(* Ids, each of them once.                                                 *)
Once(ids) == ids \in Seq(Nat) /\ \A i, j \in 1..Len(ids) : ids[i] = ids[j] => i = j
Members(ids) == {ids[i] : i \in 1..Len(ids)}

LEMMA OnceAppended ==
  ASSUME NEW ids, Once(ids), NEW x \in Nat, x \notin Members(ids)
  PROVE  Once(Append(ids, x)) /\ Members(Append(ids, x)) = Members(ids) \cup {x}
<1> DEFINE n == Len(ids)
           r == Append(ids, x)
<1>1. /\ ids \in Seq(Nat) /\ n \in Nat /\ \A i, j \in 1..n : ids[i] = ids[j] => i = j
      /\ \A i \in 1..n : ids[i] # x
  <2>1. \A i \in 1..n : ids[i] # x
    BY DEF Members
  <2>2. ids \in Seq(Nat) /\ \A i, j \in 1..n : ids[i] = ids[j] => i = j
    BY DEF Once
  <2>3. n \in Nat
    BY <2>2
  <2>4. QED
    BY <2>1, <2>2, <2>3
<1>2. r \in Seq(Nat) /\ Len(r) = n + 1 /\ r[n + 1] = x /\ \A i \in 1..n : r[i] = ids[i]
  BY <1>1
<1> HIDE DEF r
<1>3. \A i, j \in 1..(n + 1) : r[i] = r[j] => i = j
  <2> SUFFICES ASSUME NEW i \in 1..(n + 1), NEW j \in 1..(n + 1), r[i] = r[j] PROVE i = j
    OBVIOUS
  <2>1. CASE i \in 1..n /\ j \in 1..n
    BY <1>1, <1>2, <2>1
  <2>2. ASSUME NEW a \in 1..(n + 1), NEW b \in 1..(n + 1), r[a] = r[b], a = n + 1 PROVE a = b
    <3>1. b \notin 1..n
      BY <1>1, <1>2, <2>2
    <3>2. QED
      BY <1>1, <2>2, <3>1
  <2>3. QED
    <3>1. i = n + 1 => i = j
      BY <2>2
    <3>2. j = n + 1 => j = i
      BY <2>2
    <3>3. QED
      BY <1>1, <2>1, <3>1, <3>2
<1>4. Members(r) = Members(ids) \cup {x}
  <2>1. \A y \in Members(r) : y \in Members(ids) \cup {x}
    <3>1. SUFFICES ASSUME NEW i \in 1..(n + 1) PROVE r[i] \in Members(ids) \cup {x}
      BY <1>2 DEF Members
    <3>2. i = n + 1 \/ i \in 1..n
      BY <1>1
    <3>3. i \in 1..n => ids[i] \in Members(ids)
      BY DEF Members
    <3>4. QED
      BY <1>2, <3>2, <3>3
  <2>2. \A y \in Members(ids) : y \in Members(r)
    <3>1. SUFFICES ASSUME NEW i \in 1..n PROVE ids[i] \in Members(r)
      BY DEF Members
    <3>2. i \in 1..(n + 1) /\ r[i] = ids[i]
      BY <1>1, <1>2
    <3>3. QED
      BY <1>2, <3>2 DEF Members
  <2>3. x \in Members(r)
    BY <1>1, <1>2 DEF Members
  <2>4. QED
    BY <2>1, <2>2, <2>3
<1>5. QED
  BY <1>2, <1>3, <1>4 DEF Once, r

LEMMA AwaitedIds ==
  ASSUME NEW reqs, Len(reqs) \in Nat, NEW S
  PROVE  /\ Once(Awaited(reqs, S))
         /\ Members(Awaited(reqs, S)) \subseteq {i \in 1..Len(reqs) : i \in S /\ reqs[i].by # "client"}
<1> DEFINE n == Len(reqs)
           k == CHOOSE k : AwaitedUpTo(reqs, S, n, k)
           P(m) == {i \in 1..m : i \in S /\ reqs[i].by # "client"}
<1>1. Awaited(reqs, S) = k[n]
  BY DEF Awaited, AwaitedUpTo, AwaitedStep
<1>2. AwaitedUpTo(reqs, S, n, k)
  BY AwaitedExists, Zenon
<1> HIDE DEF k
<1> DEFINE T == {i \in 0..n : Once(k[i]) /\ Members(k[i]) \subseteq P(i)}
<1>3. \A i \in 0..n : k[i] = AwaitedStep(reqs, S, k, i)
  BY <1>2 DEF AwaitedUpTo
<1>4. 0 \in T
  <2>1. k[0] = <<>> /\ 0 \in 0..n
    BY <1>3 DEF AwaitedStep
  <2>2. Once(<<>>) /\ Members(<<>>) = {}
    BY DEF Once, Members
  <2>3. QED
    BY <2>1, <2>2
<1>5. ASSUME NEW i \in 1..n, i - 1 \in T PROVE i \in T
  <2> DEFINE b == k[i - 1]
  <2>1. Once(b) /\ Members(b) \subseteq P(i - 1)
    BY <1>5
  <2>2. k[i] = IF i \in S /\ reqs[i].by # "client" THEN Append(b, i) ELSE b
    BY <1>3 DEF AwaitedStep
  <2>3. i \notin P(i - 1) /\ P(i - 1) \subseteq P(i) /\ i \in Nat
    OBVIOUS
  <2>4. i \in S /\ reqs[i].by # "client" => i \in P(i)
    OBVIOUS
  <2> HIDE DEF b, P
  <2>5. Once(k[i]) /\ Members(k[i]) \subseteq P(i)
    <3>1. CASE i \in S /\ reqs[i].by # "client"
      <4>1. i \notin Members(b)
        BY <2>1, <2>3
      <4>2. Once(Append(b, i)) /\ Members(Append(b, i)) = Members(b) \cup {i}
        BY <2>1, <2>3, <4>1, OnceAppended
      <4>3. QED
        BY <2>1, <2>2, <2>3, <2>4, <3>1, <4>2
    <3>2. CASE ~(i \in S /\ reqs[i].by # "client")
      BY <2>1, <2>2, <2>3, <3>2
    <3>3. QED
      BY <3>1, <3>2
  <2>6. QED
    BY <2>5
<1> HIDE DEF T
<1>6. n \in T
  <2>1. \A i \in 1..n : i - 1 \in T => i \in T
    BY <1>5
  <2>2. \A i \in 0..n : i \in T
    BY <1>4, <2>1, UpTo
  <2>3. QED
    BY <2>2
<1>7. Once(k[n]) /\ Members(k[n]) \subseteq P(n)
  BY <1>6 DEF T
<1>8. QED
  BY <1>1, <1>7

(* What an await leaves of the queue, and what is queued behind it.        *)
LEMMA OnceTail ==
  ASSUME NEW ids, Once(ids), ids # <<>>
  PROVE  /\ Once(Tail(ids)) /\ Head(ids) \in Members(ids)
         /\ Members(Tail(ids)) \subseteq Members(ids) \ {Head(ids)}
<1> DEFINE n == Len(ids)
           r == Tail(ids)
<1>1. /\ ids \in Seq(Nat) /\ n \in Nat \ {0} /\ Head(ids) = ids[1]
      /\ \A i, j \in 1..n : ids[i] = ids[j] => i = j
  BY DEF Once
<1>2. /\ r \in Seq(Nat) /\ Len(r) = n - 1
      /\ \A i \in 1..(n - 1) : r[i] = ids[i + 1]
  BY <1>1
<1> HIDE DEF r
<1>3. Once(r)
  <2>1. \A i, j \in 1..(n - 1) : r[i] = r[j] => i = j
    <3> SUFFICES ASSUME NEW i \in 1..(n - 1), NEW j \in 1..(n - 1), r[i] = r[j] PROVE i = j
      OBVIOUS
    <3>a. i + 1 \in 1..n /\ j + 1 \in 1..n
      BY <1>1
    <3>b. r[i] = ids[i + 1] /\ r[j] = ids[j + 1]
      BY <1>2
    <3>1. i + 1 \in 1..n /\ j + 1 \in 1..n /\ ids[i + 1] = ids[j + 1]
      BY <3>a, <3>b
    <3>2. i + 1 = j + 1
      BY <1>1, <3>1
    <3>3. QED
      BY <1>1, <3>2
  <2>2. QED
    BY <1>2, <2>1 DEF Once
<1>4. Head(ids) \in Members(ids)
  BY <1>1 DEF Members
<1>5. \A x \in Members(r) : x \in Members(ids) /\ x # Head(ids)
  <2> SUFFICES ASSUME NEW i \in 1..(n - 1) PROVE r[i] \in Members(ids) /\ r[i] # ids[1]
    BY <1>1, <1>2 DEF Members
  <2>1. i + 1 \in 1..n /\ i + 1 # 1 /\ r[i] = ids[i + 1]
    BY <1>1, <1>2
  <2>2. QED
    BY <1>1, <2>1 DEF Members
<1>6. QED
  BY <1>3, <1>4, <1>5 DEF r

LEMMA OnceJoined ==
  ASSUME NEW a, Once(a), NEW b, Once(b), Members(a) \cap Members(b) = {}
  PROVE  Once(a \o b) /\ Members(a \o b) \subseteq Members(a) \cup Members(b)
<1> DEFINE n == Len(a)
           m == Len(b)
           r == a \o b
<1>1. /\ a \in Seq(Nat) /\ n \in Nat /\ \A i, j \in 1..n : a[i] = a[j] => i = j
      /\ b \in Seq(Nat) /\ m \in Nat /\ \A i, j \in 1..m : b[i] = b[j] => i = j
  BY DEF Once
<1>2. \A i \in 1..n, j \in 1..m : a[i] # b[j]
  BY DEF Members
<1>3. /\ r \in Seq(Nat) /\ Len(r) = n + m
      /\ \A i \in 1..(n + m) : r[i] = IF i <= n THEN a[i] ELSE b[i - n]
  BY <1>1
<1> HIDE DEF r
<1>4. \A i \in 1..(n + m) : (i \in 1..n /\ r[i] = a[i]) \/ (i - n \in 1..m /\ r[i] = b[i - n])
  BY <1>1, <1>3
<1>5. \A i, j \in 1..(n + m) : r[i] = r[j] => i = j
  <2> SUFFICES ASSUME NEW i \in 1..(n + m), NEW j \in 1..(n + m), r[i] = r[j] PROVE i = j
    OBVIOUS
  <2>1. CASE i <= n /\ j <= n
    <3>1. i \in 1..n /\ j \in 1..n /\ a[i] = a[j]
      BY <1>1, <1>3, <2>1
    <3>2. QED
      BY <1>1, <3>1
  <2>2. CASE i <= n /\ ~(j <= n)
    <3>1. i \in 1..n /\ j - n \in 1..m
      BY <1>1, <2>2
    <3>2. r[i] = a[i] /\ r[j] = b[j - n]
      BY <1>3, <2>2
    <3>3. QED
      BY <1>2, <3>1, <3>2
  <2>3. CASE ~(i <= n) /\ j <= n
    <3>1. j \in 1..n /\ i - n \in 1..m
      BY <1>1, <2>3
    <3>2. r[j] = a[j] /\ r[i] = b[i - n]
      BY <1>3, <2>3
    <3>3. QED
      BY <1>2, <3>1, <3>2
  <2>4. CASE ~(i <= n) /\ ~(j <= n)
    <3>a. i - n \in 1..m /\ j - n \in 1..m
      BY <1>1, <2>4
    <3>b. r[i] = b[i - n] /\ r[j] = b[j - n]
      BY <1>3, <2>4
    <3>1. i - n \in 1..m /\ j - n \in 1..m /\ b[i - n] = b[j - n]
      BY <3>a, <3>b
    <3>2. i - n = j - n
      BY <1>1, <3>1
    <3>3. QED
      BY <1>1, <3>2
  <2>5. QED
    BY <2>1, <2>2, <2>3, <2>4
<1>6. \A x \in Members(r) : x \in Members(a) \cup Members(b)
  BY <1>3, <1>4 DEF Members
<1>7. QED
  BY <1>3, <1>5, <1>6 DEF Once, r

(* The requests of one method, and the "start" whose answer is still to    *)
(* come, or still to be taken up: no "get_status_snapshot" followed it yet. *)
OfMethod(reqs, m) == {i \in 1..Len(reqs) : reqs[i].method = m}
OpenStarts(reqs, mic) ==
  {i \in OfMethod(reqs, "start") : reqs[i].state = "pending" \/ i \in Members(mic)}

(* The table reqs, with the queue mic of continuations, after n "start".   *)
Counted(reqs, mic, n) ==
  /\ reqs \in Seq(Request)
  /\ \A i \in 1..Len(reqs) : reqs[i].by = "client" <=> reqs[i].method = "call"
  /\ Once(mic)
  /\ \A i \in Members(mic) :
       i \in 1..Len(reqs) /\ reqs[i].state # "pending" /\ reqs[i].by # "client"
  /\ Cardinality(OfMethod(reqs, "start")) <= n
  /\ Cardinality(OfMethod(reqs, "snapshot")) + Cardinality(OpenStarts(reqs, mic))
       <= Cardinality(OfMethod(reqs, "start"))
  /\ Cardinality(OfMethod(reqs, "call")) <= MaxCalls

LEMMA Finite ==
  ASSUME NEW n \in Nat, NEW S \in SUBSET (1..n)
  PROVE  IsFiniteSet(S) /\ Cardinality(S) \in Nat
<1>1. IsFiniteSet(1..n)
  BY FS_Interval
<1>2. IsFiniteSet(S)
  BY <1>1, FS_Subset
<1>3. QED
  BY <1>2, FS_CardinalityType

LEMMA Smaller ==
  ASSUME NEW n \in Nat, NEW S \in SUBSET (1..n), NEW T \in SUBSET S
  PROVE  IsFiniteSet(T) /\ Cardinality(T) \in Nat /\ Cardinality(T) <= Cardinality(S)
<1>1. IsFiniteSet(S)
  BY Finite
<1>2. IsFiniteSet(T) /\ Cardinality(T) <= Cardinality(S)
  BY <1>1, FS_Subset
<1>3. QED
  BY <1>2, FS_CardinalityType

(* The ids are enough.                                                     *)
LEMMA IdsSuffice ==
  ASSUME NEW reqs, NEW mic, NEW n \in Nat, Counted(reqs, mic, n), n <= MaxRestarts + 1
  PROVE  /\ Len(reqs) \in Nat /\ 1..Len(reqs) \subseteq Ids
         /\ mic \in Seq(Ids)
<1> DEFINE l == Len(reqs)
           A == OfMethod(reqs, "start")
           B == OfMethod(reqs, "snapshot")
           C == OfMethod(reqs, "call")
<1>1. reqs \in Seq(Request) /\ l \in Nat
  BY DEF Counted
<1>2. A \in SUBSET (1..l) /\ B \in SUBSET (1..l) /\ C \in SUBSET (1..l)
  BY DEF OfMethod
<1>3. A \cup B \cup C = 1..l
  <2>1. \A i \in 1..l : reqs[i].method \in {"start", "snapshot", "call"}
    <3>1. \A r \in Request : r.method \in {"start", "snapshot", "call"}
      BY DEF Request
    <3>2. \A i \in 1..l : reqs[i] \in Request
      BY <1>1
    <3>3. QED
      BY <3>1, <3>2
  <2>2. QED
    BY <2>1 DEF OfMethod
<1>4. OpenStarts(reqs, mic) \in SUBSET (1..l)
  BY DEF OpenStarts, OfMethod
<1>5. /\ Cardinality(A) <= n
      /\ Cardinality(B) + Cardinality(OpenStarts(reqs, mic)) <= Cardinality(A)
      /\ Cardinality(C) <= MaxCalls
  BY DEF Counted
<1> HIDE DEF A, B, C
<1>6. /\ IsFiniteSet(A) /\ Cardinality(A) \in Nat /\ IsFiniteSet(B) /\ Cardinality(B) \in Nat
      /\ IsFiniteSet(C) /\ Cardinality(C) \in Nat /\ Cardinality(OpenStarts(reqs, mic)) \in Nat
  BY <1>1, <1>2, <1>4, Finite
<1>7. /\ IsFiniteSet(A \cup B) /\ Cardinality(A \cup B) \in Nat
      /\ Cardinality(A \cup B) <= Cardinality(A) + Cardinality(B)
  <2>1. A \cup B \in SUBSET (1..l) /\ A \cap B \in SUBSET (1..l)
    BY <1>2
  <2>2. IsFiniteSet(A \cup B) /\ Cardinality(A \cup B) \in Nat /\ Cardinality(A \cap B) \in Nat
    BY <1>1, <2>1, Finite
  <2>3. Cardinality(A \cup B) = Cardinality(A) + Cardinality(B) - Cardinality(A \cap B)
    BY <1>6, FS_Union
  <2>4. QED
    BY <1>6, <2>2, <2>3
<1>8. l <= Cardinality(A \cup B) + Cardinality(C)
  <2>1. (A \cup B) \cap C \in SUBSET (1..l)
    BY <1>2
  <2>2. Cardinality((A \cup B) \cap C) \in Nat
    BY <1>1, <2>1, Finite
  <2>3. Cardinality((A \cup B) \cup C) =
          Cardinality(A \cup B) + Cardinality(C) - Cardinality((A \cup B) \cap C)
    BY <1>6, <1>7, FS_Union
  <2>4. Cardinality(1..l) = l
    <3>1. 1 \in Int /\ l \in Int
      BY <1>1
    <3>2. Cardinality(1..l) = IF 1 > l THEN 0 ELSE l - 1 + 1
      BY <3>1, FS_Interval, Zenon
    <3>3. QED
      BY <1>1, <3>2
  <2>5. Cardinality((A \cup B) \cup C) = l
    BY <1>3, <2>4
  <2>6. QED
    BY <1>6, <1>7, <2>2, <2>3, <2>5
<1>9. l <= MaxCalls + 2 * (MaxRestarts + 1)
  BY <1>1, <1>5, <1>6, <1>7, <1>8, TransportAssumption
<1>10. 1..l \subseteq Ids
  BY <1>1, <1>9, TransportAssumption DEF Ids
<1>11. mic \in Seq(Ids)
  <2>1. mic \in Seq(Nat) /\ \A i \in 1..Len(mic) : mic[i] \in Ids
    BY <1>10 DEF Counted, Once, Members
  <2>2. QED
    BY <2>1
<1>12. QED
  BY <1>1, <1>10, <1>11

(* Requests are settled: what was pending and is awaited goes on.          *)
LEMMA SettledCounted ==
  ASSUME NEW reqs, NEW mic, NEW n \in Nat, Counted(reqs, mic, n),
         NEW S, \A i \in S : i \in 1..Len(reqs) /\ reqs[i].state = "pending",
         NEW s \in {"resolved", "rejected"}
  PROVE  Counted(Settled(reqs, S, s), mic \o Awaited(reqs, S), n)
<1> DEFINE l == Len(reqs)
           new == Settled(reqs, S, s)
           more == mic \o Awaited(reqs, S)
<1>1. reqs \in Seq(Request) /\ l \in Nat /\ DOMAIN reqs = 1..l
  BY DEF Counted
<1>2. new = [i \in 1..l |-> IF i \in S THEN [reqs[i] EXCEPT !.state = s] ELSE reqs[i]]
  BY <1>1 DEF Settled
<1>3. \A r \in Request : LET q == [r EXCEPT !.state = s]
                         IN  q \in Request /\ q.method = r.method /\ q.by = r.by /\ q.state = s
  BY DEF Request
<1>4. /\ new \in Seq(Request) /\ Len(new) = l
      /\ \A i \in 1..l : /\ new[i].method = reqs[i].method /\ new[i].by = reqs[i].by
                         /\ new[i].state = IF i \in S THEN s ELSE reqs[i].state
  <2>1. ASSUME NEW i \in 1..l
        PROVE  /\ new[i] \in Request /\ new[i].method = reqs[i].method /\ new[i].by = reqs[i].by
               /\ new[i].state = IF i \in S THEN s ELSE reqs[i].state
    <3>1. reqs[i] \in Request
      BY <1>1
    <3>2. CASE i \in S
      BY <1>2, <1>3, <3>1, <3>2
    <3>3. CASE i \notin S
      BY <1>2, <3>1, <3>3
    <3>4. QED
      BY <3>2, <3>3
  <2> HIDE DEF new
  <2>2. new = [i \in 1..l |-> new[i]]
    BY <1>2
  <2>3. QED
    BY <1>1, <2>1, <2>2
<1> HIDE DEF new
<1>5. \A m : OfMethod(new, m) = OfMethod(reqs, m)
  BY <1>4 DEF OfMethod
<1>6. /\ Once(Awaited(reqs, S))
      /\ Members(Awaited(reqs, S)) \subseteq {i \in 1..l : i \in S /\ reqs[i].by # "client"}
  BY <1>1, AwaitedIds
<1>7. /\ Once(mic)
      /\ \A i \in Members(mic) : i \in 1..l /\ reqs[i].state # "pending" /\ reqs[i].by # "client"
  BY DEF Counted
<1>8. Once(more) /\ Members(more) \subseteq Members(mic) \cup Members(Awaited(reqs, S))
  <2>1. Members(mic) \cap Members(Awaited(reqs, S)) = {}
    BY <1>6, <1>7
  <2>2. QED
    BY <1>6, <1>7, <2>1, OnceJoined
<1> HIDE DEF more
<1>9. \A i \in Members(more) : i \in 1..l /\ new[i].state # "pending" /\ new[i].by # "client"
  <2> SUFFICES ASSUME NEW i \in Members(more)
               PROVE  i \in 1..l /\ new[i].state # "pending" /\ new[i].by # "client"
    OBVIOUS
  <2>1. CASE i \in Members(mic)
    BY <1>4, <1>7, <2>1
  <2>2. CASE i \in Members(Awaited(reqs, S))
    BY <1>4, <1>6, <2>2
  <2>3. QED
    BY <1>8, <2>1, <2>2
<1>10. OpenStarts(new, more) \subseteq OpenStarts(reqs, mic)
  <2> SUFFICES ASSUME NEW i \in OpenStarts(new, more) PROVE i \in OpenStarts(reqs, mic)
    OBVIOUS
  <2>1. i \in OfMethod(reqs, "start") /\ i \in 1..l /\ (new[i].state = "pending" \/ i \in Members(more))
    BY <1>4, <1>5 DEF OpenStarts, OfMethod
  <2>2. CASE new[i].state = "pending"
    <3>1. reqs[i].state = "pending"
      BY <1>4, <2>1, <2>2
    <3>2. QED
      BY <2>1, <3>1 DEF OpenStarts
  <2>3. CASE i \in Members(mic)
    BY <2>1, <2>3 DEF OpenStarts
  <2>4. CASE i \in Members(Awaited(reqs, S))
    <3>1. reqs[i].state = "pending"
      BY <1>6, <2>4
    <3>2. QED
      BY <2>1, <3>1 DEF OpenStarts
  <2>5. QED
    BY <1>8, <2>1, <2>2, <2>3, <2>4
<1>11. Cardinality(OpenStarts(new, more)) <= Cardinality(OpenStarts(reqs, mic))
       /\ Cardinality(OpenStarts(new, more)) \in Nat /\ Cardinality(OpenStarts(reqs, mic)) \in Nat
  <2>1. OpenStarts(reqs, mic) \in SUBSET (1..l)
    BY DEF OpenStarts, OfMethod
  <2>2. QED
    BY <1>1, <1>10, <2>1, Smaller, Finite
<1>12. /\ Cardinality(OfMethod(reqs, "snapshot")) \in Nat /\ Cardinality(OfMethod(reqs, "start")) \in Nat
  <2>1. \A m : OfMethod(reqs, m) \in SUBSET (1..l)
    BY DEF OfMethod
  <2>2. QED
    BY <1>1, <2>1, Finite
<1>13. /\ Cardinality(OfMethod(reqs, "start")) <= n
       /\ Cardinality(OfMethod(reqs, "snapshot")) + Cardinality(OpenStarts(reqs, mic))
            <= Cardinality(OfMethod(reqs, "start"))
       /\ Cardinality(OfMethod(reqs, "call")) <= MaxCalls
       /\ \A i \in 1..l : reqs[i].by = "client" <=> reqs[i].method = "call"
  BY DEF Counted
<1>14. Cardinality(OfMethod(new, "snapshot")) + Cardinality(OpenStarts(new, more))
         <= Cardinality(OfMethod(new, "start"))
  BY <1>5, <1>11, <1>12, <1>13
<1>15. QED
  BY <1>4, <1>5, <1>8, <1>9, <1>13, <1>14 DEF Counted, new, more

(* A request is sent: it joins those of its method.                        *)
LEMMA Appended ==
  ASSUME NEW reqs \in Seq(Request), NEW e \in Request
  PROVE  LET new == Append(reqs, e)
         IN  /\ Len(reqs) \in Nat /\ new \in Seq(Request) /\ Len(new) = Len(reqs) + 1
             /\ \A i \in 1..Len(reqs) : new[i] = reqs[i]
             /\ new[Len(reqs) + 1] = e
             /\ \A m : /\ IsFiniteSet(OfMethod(reqs, m))
                       /\ Cardinality(OfMethod(reqs, m)) \in Nat
                       /\ Cardinality(OfMethod(new, m)) =
                            Cardinality(OfMethod(reqs, m)) + (IF e.method = m THEN 1 ELSE 0)
<1> DEFINE l == Len(reqs)
           new == Append(reqs, e)
<1>1. /\ l \in Nat /\ new \in Seq(Request) /\ Len(new) = l + 1
      /\ \A i \in 1..l : new[i] = reqs[i]
      /\ new[l + 1] = e
  OBVIOUS
<1> HIDE DEF new
<1>2. ASSUME NEW m
      PROVE  /\ IsFiniteSet(OfMethod(reqs, m))
             /\ Cardinality(OfMethod(reqs, m)) \in Nat
             /\ Cardinality(OfMethod(new, m)) =
                  Cardinality(OfMethod(reqs, m)) + (IF e.method = m THEN 1 ELSE 0)
  <2>1. OfMethod(reqs, m) \in SUBSET (1..l)
    BY DEF OfMethod
  <2>2. IsFiniteSet(OfMethod(reqs, m)) /\ Cardinality(OfMethod(reqs, m)) \in Nat
    BY <1>1, <2>1, Finite
  <2>3. l + 1 \notin OfMethod(reqs, m)
    BY <1>1, <2>1
  <2>4. CASE e.method = m
    <3>1. OfMethod(new, m) = OfMethod(reqs, m) \cup {l + 1}
      BY <1>1, <2>4 DEF OfMethod
    <3>2. Cardinality(OfMethod(new, m)) = Cardinality(OfMethod(reqs, m)) + 1
      BY <2>2, <2>3, <3>1, FS_AddElement
    <3>3. QED
      BY <2>2, <2>4, <3>2
  <2>5. CASE e.method # m
    <3>1. OfMethod(new, m) = OfMethod(reqs, m)
      BY <1>1, <2>5 DEF OfMethod
    <3>2. QED
      BY <2>2, <2>5, <3>1
  <2>6. QED
    BY <2>4, <2>5
<1>3. QED
  BY <1>1, <1>2 DEF new

(* One more request, after which, of those in mic and this one, at most    *)
(* the given ones are open.                                                *)
LEMMA SentCounted ==
  ASSUME NEW reqs, NEW mic, NEW n \in Nat, Counted(reqs, mic, n),
         NEW e \in Request, e.by = "client" <=> e.method = "call",
         NEW left, Once(left), Members(left) \subseteq Members(mic),
         NEW p \in Nat, p >= n,
         LET s == Cardinality(OfMethod(reqs, "start"))
             o == Cardinality(OpenStarts(Append(reqs, e), left))
         IN  /\ e.method = "start" => p = n + 1 /\ o <= Cardinality(OpenStarts(reqs, mic)) + 1
             /\ e.method = "snapshot" => o + 1 <= Cardinality(OpenStarts(reqs, mic))
             /\ e.method = "call" => /\ o <= Cardinality(OpenStarts(reqs, mic))
                                     /\ Cardinality(OfMethod(reqs, "call")) < MaxCalls
  PROVE  Counted(Append(reqs, e), left, p)
<1> DEFINE l == Len(reqs)
           new == Append(reqs, e)
           s == Cardinality(OfMethod(reqs, "start"))
           t == Cardinality(OfMethod(reqs, "snapshot"))
           c == Cardinality(OfMethod(reqs, "call"))
           o == Cardinality(OpenStarts(reqs, mic))
           q == Cardinality(OpenStarts(new, left))
<1>1. reqs \in Seq(Request)
  BY DEF Counted
<1>2. /\ l \in Nat /\ new \in Seq(Request) /\ Len(new) = l + 1
      /\ \A i \in 1..l : new[i] = reqs[i]
      /\ new[l + 1] = e
  BY <1>1, Appended
<1>3. /\ s \in Nat /\ t \in Nat /\ c \in Nat
      /\ Cardinality(OfMethod(new, "start")) = s + (IF e.method = "start" THEN 1 ELSE 0)
      /\ Cardinality(OfMethod(new, "snapshot")) = t + (IF e.method = "snapshot" THEN 1 ELSE 0)
      /\ Cardinality(OfMethod(new, "call")) = c + (IF e.method = "call" THEN 1 ELSE 0)
  BY <1>1, Appended
<1>4. /\ s <= n /\ t + o <= s /\ c <= MaxCalls
      /\ \A i \in 1..l : reqs[i].by = "client" <=> reqs[i].method = "call"
      /\ \A i \in Members(mic) : i \in 1..l /\ reqs[i].state # "pending" /\ reqs[i].by # "client"
  BY DEF Counted
<1>5. o \in Nat /\ q \in Nat
  <2>1. OpenStarts(reqs, mic) \in SUBSET (1..l) /\ OpenStarts(new, left) \in SUBSET (1..(l + 1))
    BY <1>2 DEF OpenStarts, OfMethod
  <2>2. l + 1 \in Nat
    BY <1>2
  <2>3. QED
    BY <1>2, <2>1, <2>2, Finite
<1>6. /\ e.method = "start" => p = n + 1 /\ q <= o + 1
      /\ e.method = "snapshot" => q + 1 <= o
      /\ e.method = "call" => q <= o /\ c < MaxCalls
  OBVIOUS
<1>7. e.method \in {"start", "snapshot", "call"}
  BY DEF Request
<1> HIDE DEF new, s, t, c, o, q
<1>8. /\ Cardinality(OfMethod(new, "start")) <= p
      /\ Cardinality(OfMethod(new, "snapshot")) + q <= Cardinality(OfMethod(new, "start"))
      /\ Cardinality(OfMethod(new, "call")) <= MaxCalls
  <2>1. CASE e.method = "start"
    BY <1>3, <1>4, <1>5, <1>6, <2>1, TransportAssumption
  <2>2. CASE e.method = "snapshot"
    BY <1>3, <1>4, <1>5, <1>6, <2>2, TransportAssumption
  <2>3. CASE e.method = "call"
    BY <1>3, <1>4, <1>5, <1>6, <2>3, TransportAssumption
  <2>4. QED
    BY <1>7, <2>1, <2>2, <2>3
<1>9. \A i \in 1..(l + 1) : new[i].by = "client" <=> new[i].method = "call"
  <2> SUFFICES ASSUME NEW i \in 1..(l + 1) PROVE new[i].by = "client" <=> new[i].method = "call"
    OBVIOUS
  <2>1. i \in 1..l \/ i = l + 1
    BY <1>2
  <2>2. QED
    BY <1>2, <1>4, <2>1
<1>10. \A i \in Members(left) : i \in 1..(l + 1) /\ new[i].state # "pending" /\ new[i].by # "client"
  <2> SUFFICES ASSUME NEW i \in Members(left)
               PROVE  i \in 1..(l + 1) /\ new[i].state # "pending" /\ new[i].by # "client"
    OBVIOUS
  <2>1. i \in 1..l /\ reqs[i].state # "pending" /\ reqs[i].by # "client"
    BY <1>4
  <2>2. i \in 1..(l + 1) /\ new[i] = reqs[i]
    BY <1>2, <2>1
  <2>3. QED
    BY <2>1, <2>2
<1>11. QED
  BY <1>2, <1>8, <1>9, <1>10 DEF Counted, new, q

Asks(m, b, k) == [method |-> m, by |-> b, to |-> k, state |-> "pending"]

LEMMA OpenAfter ==
  ASSUME NEW reqs \in Seq(Request), NEW left, NEW e \in Request
  PROVE  OpenStarts(Append(reqs, e), left) \subseteq
           (OpenStarts(reqs, left) \cup
            (IF e.method = "start" THEN {Len(reqs) + 1} ELSE {}))
<1> DEFINE l == Len(reqs)
           new == Append(reqs, e)
<1>1. /\ l \in Nat /\ Len(new) = l + 1
      /\ \A i \in 1..l : new[i] = reqs[i]
      /\ new[l + 1] = e
  OBVIOUS
<1> HIDE DEF new
<1>2. SUFFICES ASSUME NEW i \in OpenStarts(new, left)
               PROVE  i \in OpenStarts(reqs, left) \/ (e.method = "start" /\ i = l + 1)
  BY DEF new
<1>3. /\ i \in 1..(l + 1) /\ new[i].method = "start"
      /\ new[i].state = "pending" \/ i \in Members(left)
  BY <1>1 DEF OpenStarts, OfMethod
<1>4. CASE i = l + 1
  BY <1>1, <1>3, <1>4
<1>5. CASE i \in 1..l
  BY <1>1, <1>3, <1>5 DEF OpenStarts, OfMethod
<1>6. QED
  BY <1>1, <1>3, <1>4, <1>5

(* "start" is sent, a hook or a search is, and "get_status_snapshot" is    *)
(* when the await of "start" continues.                                    *)
LEMMA StartCounted ==
  ASSUME NEW reqs, NEW mic, NEW n \in Nat, Counted(reqs, mic, n),
         NEW b \in {"boot", "restart"}, NEW k \in Children
  PROVE  Counted(Append(reqs, Asks("start", b, k)), mic, n + 1)
<1> DEFINE e == Asks("start", b, k)
           l == Len(reqs)
           A == OpenStarts(reqs, mic)
           B == OpenStarts(Append(reqs, e), mic)
<1>1. e \in Request /\ e.by # "client" /\ e.method = "start"
  BY DEF Asks, Request
<1>2. reqs \in Seq(Request) /\ l \in Nat /\ Once(mic)
  BY DEF Counted
<1> HIDE DEF e
<1>3. A \in SUBSET (1..l) /\ B \subseteq A \cup {l + 1}
  <2>1. A \in SUBSET (1..l)
    BY DEF OpenStarts, OfMethod
  <2>2. QED
    BY <1>1, <1>2, <2>1, OpenAfter
<1>4. IsFiniteSet(A) /\ Cardinality(A) \in Nat
  BY <1>2, <1>3, Finite
<1> HIDE DEF A, B
<1>5. Cardinality(B) \in Nat /\ Cardinality(B) <= Cardinality(A) + 1
  <2>1. /\ IsFiniteSet(A \cup {l + 1})
        /\ Cardinality(A \cup {l + 1}) = Cardinality(A) + 1
    <3>1. l + 1 \notin A
      BY <1>2, <1>3
    <3>2. QED
      BY <1>4, <3>1, FS_AddElement
  <2>2. IsFiniteSet(B) /\ Cardinality(B) <= Cardinality(A \cup {l + 1})
    BY <1>3, <2>1, FS_Subset
  <2>3. Cardinality(B) \in Nat
    BY <2>2, FS_CardinalityType
  <2>4. QED
    BY <2>1, <2>2, <2>3
<1>6. Members(mic) \subseteq Members(mic) /\ n + 1 \in Nat /\ n + 1 >= n
  OBVIOUS
<1>7. Counted(Append(reqs, e), mic, n + 1)
  BY <1>1, <1>2, <1>5, <1>6, SentCounted DEF A, B
<1>8. QED
  BY <1>7 DEF e

LEMMA CallCounted ==
  ASSUME NEW reqs, NEW mic, NEW n \in Nat, Counted(reqs, mic, n), NEW k \in Children,
         Cardinality({i \in DOMAIN reqs : reqs[i].by = "client"}) < MaxCalls
  PROVE  Counted(Append(reqs, Asks("call", "client", k)), mic, n)
<1> DEFINE e == Asks("call", "client", k)
           l == Len(reqs)
           A == OpenStarts(reqs, mic)
           B == OpenStarts(Append(reqs, e), mic)
<1>1. e \in Request /\ e.by = "client" /\ e.method = "call"
  BY DEF Asks, Request
<1>2. /\ reqs \in Seq(Request) /\ l \in Nat /\ Once(mic)
      /\ \A i \in 1..l : reqs[i].by = "client" <=> reqs[i].method = "call"
  BY DEF Counted
<1> HIDE DEF e
<1>3. A \in SUBSET (1..l) /\ B \in SUBSET A
  <2>1. A \in SUBSET (1..l)
    BY DEF OpenStarts, OfMethod
  <2>2. QED
    BY <1>1, <1>2, <2>1, OpenAfter
<1> HIDE DEF A, B
<1>4. Cardinality(B) <= Cardinality(A)
  BY <1>2, <1>3, Smaller
<1>5. Cardinality(OfMethod(reqs, "call")) < MaxCalls
  <2>1. {i \in DOMAIN reqs : reqs[i].by = "client"} = OfMethod(reqs, "call")
    BY <1>2 DEF OfMethod
  <2>2. QED
    BY <2>1
<1>6. Members(mic) \subseteq Members(mic) /\ n >= n
  OBVIOUS
<1>7. Counted(Append(reqs, e), mic, n)
  BY <1>1, <1>2, <1>4, <1>5, <1>6, SentCounted DEF A, B
<1>8. QED
  BY <1>7 DEF e

(* Without the first of the queue it is counted all the same.              *)
LEMMA TailCounted ==
  ASSUME NEW reqs, NEW mic, NEW n \in Nat, Counted(reqs, mic, n), mic # <<>>
  PROVE  /\ Once(Tail(mic)) /\ Members(Tail(mic)) \subseteq Members(mic) \ {Head(mic)}
         /\ Head(mic) \in 1..Len(reqs) /\ reqs[Head(mic)] \in Request
         /\ reqs[Head(mic)].by # "client" /\ reqs[Head(mic)].state # "pending"
         /\ OpenStarts(reqs, Tail(mic)) \subseteq OpenStarts(reqs, mic) \ {Head(mic)}
         /\ Counted(reqs, Tail(mic), n)
<1> DEFINE l == Len(reqs)
           A == OpenStarts(reqs, mic)
           B == OpenStarts(reqs, Tail(mic))
<1>1. /\ reqs \in Seq(Request) /\ l \in Nat /\ Once(mic)
      /\ \A i \in 1..l : reqs[i].by = "client" <=> reqs[i].method = "call"
      /\ \A i \in Members(mic) : i \in 1..l /\ reqs[i].state # "pending" /\ reqs[i].by # "client"
      /\ Cardinality(OfMethod(reqs, "start")) <= n
      /\ Cardinality(OfMethod(reqs, "snapshot")) + Cardinality(A)
           <= Cardinality(OfMethod(reqs, "start"))
      /\ Cardinality(OfMethod(reqs, "call")) <= MaxCalls
  BY DEF Counted
<1>2. /\ Once(Tail(mic)) /\ Head(mic) \in Members(mic)
      /\ Members(Tail(mic)) \subseteq Members(mic) \ {Head(mic)}
  BY <1>1, OnceTail
<1>3. /\ Head(mic) \in 1..l /\ reqs[Head(mic)] \in Request
      /\ reqs[Head(mic)].by # "client" /\ reqs[Head(mic)].state # "pending"
  BY <1>1, <1>2
<1>4. B \subseteq A \ {Head(mic)}
  BY <1>2, <1>3 DEF OpenStarts
<1>5. A \in SUBSET (1..l) /\ B \in SUBSET A
  BY <1>4 DEF OpenStarts, OfMethod
<1>6. Cardinality(A) \in Nat /\ Cardinality(B) \in Nat /\ Cardinality(B) <= Cardinality(A)
  BY <1>1, <1>5, Smaller, Finite
<1>7. /\ Cardinality(OfMethod(reqs, "start")) \in Nat
      /\ Cardinality(OfMethod(reqs, "snapshot")) \in Nat
  <2>1. \A m : OfMethod(reqs, m) \in SUBSET (1..l)
    BY DEF OfMethod
  <2>2. QED
    BY <1>1, <2>1, Finite
<1>8. Cardinality(OfMethod(reqs, "snapshot")) + Cardinality(B)
        <= Cardinality(OfMethod(reqs, "start"))
  BY <1>1, <1>6, <1>7
<1>9. Counted(reqs, Tail(mic), n)
  BY <1>1, <1>2, <1>8 DEF Counted
<1>10. QED
  BY <1>2, <1>3, <1>4, <1>9

LEMMA SnapCounted ==
  ASSUME NEW reqs, NEW mic, NEW n \in Nat, Counted(reqs, mic, n), mic # <<>>,
         reqs[Head(mic)].method = "start", NEW k \in Children
  PROVE  Counted(Append(reqs, Asks("snapshot", reqs[Head(mic)].by, k)), Tail(mic), n)
<1> DEFINE h == Head(mic)
           e == Asks("snapshot", reqs[h].by, k)
           l == Len(reqs)
           A == OpenStarts(reqs, mic)
           B == OpenStarts(Append(reqs, e), Tail(mic))
<1>1. /\ Once(Tail(mic)) /\ Members(Tail(mic)) \subseteq Members(mic) \ {h}
      /\ h \in 1..l /\ reqs[h] \in Request /\ reqs[h].by # "client"
      /\ OpenStarts(reqs, Tail(mic)) \subseteq A \ {h}
  BY TailCounted
<1>2. /\ e \in Request /\ e.by # "client" /\ e.method = "snapshot"
  <2>1. reqs[h].by \in {"boot", "restart", "client"}
    BY <1>1 DEF Request
  <2>2. QED
    BY <1>1, <2>1 DEF Asks, Request
<1>3. reqs \in Seq(Request) /\ l \in Nat /\ Once(mic)
  BY DEF Counted
<1> HIDE DEF e
<1>4. A \in SUBSET (1..l) /\ h \in A
  <2>1. h \in Members(mic)
    BY <1>3, OnceTail
  <2>2. QED
    BY <1>1, <2>1 DEF OpenStarts, OfMethod
<1>5. B \in SUBSET (A \ {h})
  BY <1>1, <1>2, <1>3, OpenAfter
<1>6. IsFiniteSet(A) /\ Cardinality(A) \in Nat
  BY <1>3, <1>4, Finite
<1> HIDE DEF A, B
<1>7. Cardinality(B) \in Nat /\ Cardinality(B) + 1 <= Cardinality(A)
  <2>1. IsFiniteSet(A \ {h}) /\ Cardinality(A \ {h}) = Cardinality(A) - 1
    BY <1>4, <1>6, FS_RemoveElement
  <2>2. IsFiniteSet(B) /\ Cardinality(B) <= Cardinality(A \ {h})
    BY <1>5, <2>1, FS_Subset
  <2>3. Cardinality(B) \in Nat
    BY <2>2, FS_CardinalityType
  <2>4. QED
    BY <1>6, <2>1, <2>2, <2>3
<1>8. Members(Tail(mic)) \subseteq Members(mic) /\ n >= n
  BY <1>1
<1>9. Counted(Append(reqs, e), Tail(mic), n)
  BY <1>1, <1>2, <1>7, <1>8, SentCounted DEF A, B
<1>10. QED
  BY <1>9 DEF e

-----------------------------------------------------------------------------
(* One "start" at boot, and one more for each restart.                     *)
Starts == IF boot = "new" THEN 0 ELSE runtime.restartCount + 1

CountInv == /\ Counted(requests, micro, Starts)
            /\ runtime.restartCount <= MaxRestarts
            /\ spawned \in {0, 1}
            /\ stdin \in [Children -> Seq(Ids)]
            /\ stdout \in [Children -> Seq(Frame)]
            /\ torn \in BOOLEAN
            /\ boot \in {"new", "worker", "vfs"}
            /\ quit \in BOOLEAN

LEMMA CountInit == Init => CountInv
<1> SUFFICES ASSUME Init PROVE CountInv
  OBVIOUS
<1>1. requests = <<>> /\ micro = <<>> /\ boot = "new" /\ Starts = 0
  BY DEF Init, Starts
<1>2. Counted(<<>>, <<>>, 0)
  <2>1. /\ \A m : OfMethod(<<>>, m) = {} /\ OpenStarts(<<>>, <<>>) = {}
        /\ Once(<<>>) /\ Members(<<>>) = {}
    BY DEF OfMethod, OpenStarts, Once, Members
  <2>2. Cardinality({}) = 0
    BY FS_EmptySet
  <2>3. <<>> \in Seq(Request) /\ \A i \in 1..Len(<<>>) : FALSE
    OBVIOUS
  <2>4. 0 <= MaxCalls
    BY TransportAssumption
  <2>5. /\ Cardinality(OfMethod(<<>>, "start")) = 0 /\ Cardinality(OfMethod(<<>>, "call")) = 0
        /\ Cardinality(OfMethod(<<>>, "snapshot")) + Cardinality(OpenStarts(<<>>, <<>>)) = 0
    <3>1. \A m : Cardinality(OfMethod(<<>>, m)) = 0
      BY <2>1, <2>2, Zenon
    <3>2. Cardinality(OpenStarts(<<>>, <<>>)) = 0
      BY <2>1, <2>2, Zenon
    <3>3. QED
      BY <3>1, <3>2
  <2>6. QED
    BY <2>1, <2>3, <2>4, <2>5 DEF Counted
<1>3. runtime.restartCount <= MaxRestarts
  BY TransportAssumption DEF Init
<1>4. stdin \in [Children -> Seq(Ids)] /\ stdout \in [Children -> Seq(Frame)]
  BY DEF Init
<1>5. spawned \in {0, 1} /\ torn \in BOOLEAN /\ boot \in {"new", "worker", "vfs"} /\ quit \in BOOLEAN
  BY DEF Init
<1>6. QED
  BY <1>1, <1>2, <1>3, <1>4, <1>5 DEF CountInv

(* What is sent is read by its id, and there is an id for it.              *)
LEMMA SentIds ==
  ASSUME stdin \in [Children -> Seq(Ids)], NEW reqs, NEW m, NEW b, NEW k \in Children, NEW a,
         Send(reqs, m, b, k, a), reqs \in Seq(Request), Asks(m, b, k) \in Request,
         NEW mic, NEW n \in Nat, n <= MaxRestarts + 1,
         Counted(Append(reqs, Asks(m, b, k)), mic, n)
  PROVE  Counted(requests', mic, n) /\ stdin' \in [Children -> Seq(Ids)]
<1>1. requests' = Append(reqs, Asks(m, b, k))
  BY DEF Send, Asks
<1>2. Len(reqs) + 1 \in Ids
  <2>1. Len(reqs) \in Nat /\ Len(Append(reqs, Asks(m, b, k))) = Len(reqs) + 1
    OBVIOUS
  <2>2. 1..Len(Append(reqs, Asks(m, b, k))) \subseteq Ids
    BY IdsSuffice
  <2>3. QED
    BY <2>1, <2>2
<1>3. stdin' = stdin \/ stdin' = [stdin EXCEPT ![k] = Append(@, Len(reqs) + 1)]
  BY DEF Send
<1>4. stdin' \in [Children -> Seq(Ids)]
  <2>1. Append(stdin[k], Len(reqs) + 1) \in Seq(Ids)
    <3>1. stdin[k] \in Seq(Ids)
      OBVIOUS
    <3>2. QED
      BY <1>2, <3>1
  <2>2. ASSUME NEW e \in Seq(Ids) PROVE [stdin EXCEPT ![k] = e] \in [Children -> Seq(Ids)]
    OBVIOUS
  <2>3. QED
    BY <1>3, <2>1, <2>2
<1>5. QED
  BY <1>1, <1>4

LEMMA Framed ==
  ASSUME CountInv, NEW k \in Children, NEW f \in Frame, Emit(k, f)
  PROVE  stdout' \in [Children -> Seq(Frame)]
BY DEF CountInv, Emit

(* A step that sends and settles nothing.                                  *)
LEMMA CountApart ==
  ASSUME CountInv, UNCHANGED <<requests, micro, runtime, boot, spawned, quit>>,
         stdin' \in [Children -> Seq(Ids)], stdout' \in [Children -> Seq(Frame)],
         torn' \in BOOLEAN
  PROVE  CountInv'
BY DEF CountInv, Starts

LEMMA CountNext == HostInv /\ PipesInv /\ CountInv /\ [Next]_vars => CountInv'
<1> SUFFICES ASSUME HostInv, PipesInv, CountInv, [Next]_vars PROVE CountInv'
  OBVIOUS
<1>t. /\ Counted(requests, micro, Starts) /\ runtime.restartCount <= MaxRestarts
      /\ spawned \in {0, 1}
      /\ stdin \in [Children -> Seq(Ids)] /\ stdout \in [Children -> Seq(Frame)]
      /\ torn \in BOOLEAN /\ boot \in {"new", "worker", "vfs"} /\ quit \in BOOLEAN
  BY DEF CountInv
<1>n. runtime.restartCount \in Nat /\ Starts \in Nat /\ Starts <= MaxRestarts + 1
  <2>1. runtime.restartCount \in Nat
    BY DEF HostInv
  <2>2. QED
    BY <2>1, <1>t, TransportAssumption DEF Starts
<1>c. 1 \in Children /\ child \in {0, 1}
  BY TransportAssumption DEF Children, PipesInv
<1>q. requests \in Seq(Request)
  BY <1>t DEF Counted
<1>1. CASE Boot
  <2>1. /\ boot = "new" /\ spawned = 0 /\ child = 0 /\ StartWorker(requests, "boot", proc)
        /\ boot' = "worker" /\ UNCHANGED <<stdout, torn, micro, quit>>
        /\ runtime'.restartCount = 0
    BY <1>1 DEF Boot, HostInv, BeforeBoot
  <2>2. Send(requests, "start", "boot", 1, TRUE) /\ spawned' = 1
    BY <2>1 DEF StartWorker, Send
  <2>3. Starts = 0 /\ Starts' = 1
    BY <2>1 DEF Starts
  <2>4. Counted(Append(requests, Asks("start", "boot", 1)), micro, 0 + 1)
    BY <1>t, <1>c, <2>3, StartCounted
  <2>5. Asks("start", "boot", 1) \in Request
    BY <1>c DEF Asks, Request
  <2>6. 1 \in Nat /\ 1 <= MaxRestarts + 1 /\ 0 + 1 = 1
    BY TransportAssumption
  <2>7. Counted(requests', micro, 1) /\ stdin' \in [Children -> Seq(Ids)]
    BY <1>t, <1>c, <1>q, <2>2, <2>4, <2>5, <2>6, SentIds
  <2>8. runtime'.restartCount <= MaxRestarts
    BY <2>1, TransportAssumption
  <2>9. QED
    BY <1>t, <2>1, <2>2, <2>3, <2>7, <2>8 DEF CountInv
<1>2. CASE Call
  <2>1. /\ child = 1 /\ UNCHANGED <<spawned, stdout, torn, micro, runtime, boot, quit>>
        /\ Send(requests, "call", "client", 1, child \in Running)
        /\ Cardinality({i \in DOMAIN requests : requests[i].by = "client"}) < MaxCalls
    BY <1>c, <1>2 DEF Call
  <2>2. Starts' = Starts
    BY <2>1 DEF Starts
  <2>3. Counted(Append(requests, Asks("call", "client", 1)), micro, Starts)
    BY <1>t, <1>n, <1>c, <2>1, CallCounted
  <2>4. Asks("call", "client", 1) \in Request
    BY <1>c DEF Asks, Request
  <2>5. Counted(requests', micro, Starts) /\ stdin' \in [Children -> Seq(Ids)]
    BY <1>t, <1>n, <1>c, <1>q, <2>1, <2>3, <2>4, SentIds
  <2>6. QED
    BY <1>t, <2>1, <2>2, <2>5 DEF CountInv
<1>3. CASE Quit
  <2>1. /\ UNCHANGED <<spawned, requests, stdin, stdout, torn, micro, boot>> /\ quit' = TRUE
        /\ runtime' = [runtime EXCEPT !.stopping = TRUE, !.started = FALSE]
    BY <1>3 DEF Quit, RuntimeStops, pipes
  <2>2. runtime'.restartCount = runtime.restartCount
    BY <2>1 DEF HostInv
  <2>3. Starts' = Starts
    BY <2>1, <2>2 DEF Starts
  <2>4. QED
    BY <1>t, <2>1, <2>2, <2>3 DEF CountInv
<1>4. CASE Continue
  <2> DEFINE h == Head(micro)
             r == requests[h]
  <2>1. /\ micro # <<>> /\ micro' = Tail(micro) /\ boot # "new"
        /\ UNCHANGED <<spawned, stdout, torn, runtime, quit>>
    BY <1>4 DEF Continue, HostInv, BeforeBoot
  <2>2. boot' \in {"worker", "vfs"}
    BY <1>t, <1>4, <2>1 DEF Continue, FlowEnds
  <2>3. Starts' = Starts
    BY <2>1, <2>2 DEF Starts
  <2>4. /\ Counted(requests, Tail(micro), Starts) /\ r \in Request
    BY <1>t, <1>n, <2>1, TailCounted
  <2>5. \/ UNCHANGED <<requests, stdin>>
        \/ r.method = "start" /\ child = 1 /\ Send(requests, "snapshot", r.by, 1, child \in Running)
    BY <1>c, <1>4 DEF Continue
  <2>6. Counted(requests', Tail(micro), Starts) /\ stdin' \in [Children -> Seq(Ids)]
    <3>1. CASE UNCHANGED <<requests, stdin>>
      BY <1>t, <2>4, <3>1
    <3>2. CASE r.method = "start" /\ Send(requests, "snapshot", r.by, 1, child \in Running)
      <4>1. Counted(Append(requests, Asks("snapshot", r.by, 1)), Tail(micro), Starts)
        BY <1>t, <1>n, <1>c, <2>1, <3>2, SnapCounted
      <4>2. Asks("snapshot", r.by, 1) \in Request
        <5>1. r.by \in {"boot", "restart", "client"}
          BY <2>4 DEF Request
        <5>2. QED
          BY <1>c, <5>1 DEF Asks, Request
      <4> HIDE DEF r
      <4>3. QED
        BY <1>t, <1>n, <1>c, <1>q, <3>2, <4>1, <4>2, SentIds
    <3>3. QED
      BY <2>5, <3>1, <3>2
  <2>7. QED
    BY <1>t, <2>1, <2>2, <2>3, <2>6 DEF CountInv

<1>5. ASSUME NEW k \in Children, Exit(k) PROVE CountInv'
  <2>1. /\ proc[k] = "dead" /\ micro = <<>> /\ micro' = Awaited(requests, Pending)
        /\ boot # "new" /\ UNCHANGED <<stdout, torn, boot, quit>>
    BY <1>5 DEF Exit, Idle, HostInv, BeforeBoot
  <2>2. Counted(Rejected, micro', Starts)
    <3>1. Counted(Rejected, <<>> \o Awaited(requests, Pending), Starts)
      <4>1. \A i \in Pending : i \in 1..Len(requests) /\ requests[i].state = "pending"
        BY <1>q DEF Pending
      <4>2. Counted(Settled(requests, Pending, "rejected"), micro \o Awaited(requests, Pending), Starts)
        BY <1>t, <1>n, <4>1, SettledCounted
      <4>3. QED
        BY <2>1, <4>2 DEF Rejected
    <3>2. Awaited(requests, Pending) \in Seq(Nat)
      <4>1. Len(requests) \in Nat
        BY <1>q
      <4>2. QED
        BY <4>1, AwaitedIds DEF Once
    <3>3. <<>> \o Awaited(requests, Pending) = Awaited(requests, Pending)
      BY <3>2
    <3>4. QED
      BY <2>1, <3>1, <3>3
  <2>3. CASE GivesUp
    <3>1. requests' = Rejected /\ UNCHANGED <<spawned, stdin, runtime>>
      BY <1>5, <2>3 DEF Exit
    <3>2. Starts' = Starts
      BY <2>1, <3>1 DEF Starts
    <3>3. QED
      BY <1>t, <2>1, <2>2, <3>1, <3>2 DEF CountInv
  <2>4. CASE ~GivesUp
    <3>1. child = 1 /\ runtime.restartCount < MaxRestarts
      BY <1>c, <1>n, <2>1, <2>4, TransportAssumption DEF GivesUp, HostInv, Lively, Children
    <3>2. /\ StartWorker(Rejected, "restart", [proc EXCEPT ![k] = "gone"])
          /\ runtime' = [runtime EXCEPT !.restartCount = @ + 1, !.started = TRUE]
      BY <1>5, <2>4 DEF Exit
    <3>3. \E a : Send(Rejected, "start", "restart", 1, a) /\ UNCHANGED spawned
      BY <3>1, <3>2 DEF StartWorker
    <3>4. runtime'.restartCount = runtime.restartCount + 1
      BY <3>2 DEF HostInv
    <3>5. Starts' = Starts + 1 /\ Starts + 1 \in Nat /\ Starts + 1 <= MaxRestarts + 1
      BY <1>n, <2>1, <3>1, <3>4, TransportAssumption DEF Starts
    <3>6. runtime'.restartCount <= MaxRestarts
      BY <1>n, <3>1, <3>4, TransportAssumption
    <3>7. Counted(Append(Rejected, Asks("start", "restart", 1)), micro', Starts + 1)
      BY <1>n, <1>c, <2>2, StartCounted
    <3>8. Asks("start", "restart", 1) \in Request /\ Rejected \in Seq(Request)
      <4>1. Asks("start", "restart", 1) \in Request
        BY <1>c DEF Asks, Request
      <4>2. Rejected \in Seq(Request)
        BY <2>2 DEF Counted
      <4>3. QED
        BY <4>1, <4>2
    <3>9. Counted(requests', micro', Starts + 1) /\ stdin' \in [Children -> Seq(Ids)]
      BY <1>t, <1>c, <3>3, <3>5, <3>7, <3>8, SentIds
    <3>10. QED
      BY <1>t, <2>1, <3>3, <3>5, <3>6, <3>9 DEF CountInv
  <2>5. QED
    BY <2>3, <2>4
<1>6. ASSUME NEW k \in Children, Data(k) PROVE CountInv'
  <2> DEFINE f == Head(stdout[k])
  <2>1. /\ stdout[k] # <<>> /\ stdout' = [stdout EXCEPT ![k] = Tail(@)]
        /\ UNCHANGED <<spawned, stdin, runtime, boot, quit>>
    BY <1>6 DEF Data
  <2>2. f \in Line
    BY <2>1 DEF PipesInv
  <2>3. stdout' \in [Children -> Seq(Frame)]
    BY <1>t, <2>1
  <2>4. torn' \in BOOLEAN
    <3>1. torn' = (f.kind = "torn")
      BY <1>6 DEF Data
    <3>2. (f.kind = "torn") \in BOOLEAN
      OBVIOUS
    <3>3. QED
      BY <3>1, <3>2, Zenon
  <2>5. Starts' = Starts
    BY <2>1 DEF Starts
  <2>6. \/ UNCHANGED <<requests, micro>>
        \/ \E S \in SUBSET Pending, s \in {"resolved", "rejected"} :
             requests' = Settled(requests, S, s) /\ micro' = micro \o Awaited(requests, S)
    <3>1. BadLine \/ EventLine \/ ReplyLine(f) \/ UNCHANGED <<requests, micro, view, window>>
      BY <1>6, <2>2, LineTaken
    <3>2. BadLine => /\ requests' = Settled(requests, Pending, "rejected")
                     /\ micro' = micro \o Awaited(requests, Pending)
      BY DEF BadLine, Rejected
    <3>3. ReplyLine(f) => \E s \in {"resolved", "rejected"} :
            /\ requests' = Settled(requests, {f.id} \cap Pending, s)
            /\ micro' = micro \o Awaited(requests, {f.id} \cap Pending)
      BY DEF ReplyLine
    <3>4. EventLine => UNCHANGED <<requests, micro>>
      BY DEF EventLine
    <3>5. QED
      BY <3>1, <3>2, <3>3, <3>4
  <2>7. Counted(requests', micro', Starts)
    <3>1. ASSUME NEW S \in SUBSET Pending, NEW s \in {"resolved", "rejected"}
          PROVE  Counted(Settled(requests, S, s), micro \o Awaited(requests, S), Starts)
      <4>1. \A i \in S : i \in 1..Len(requests) /\ requests[i].state = "pending"
        BY <1>q DEF Pending
      <4>2. QED
        BY <1>t, <1>n, <4>1, SettledCounted
    <3>2. QED
      BY <1>t, <2>6, <3>1
  <2>8. QED
    BY <1>t, <2>1, <2>3, <2>4, <2>5, <2>7 DEF CountInv
<1>7. ASSUME NEW k \in Children, Handle(k) PROVE CountInv'
  <2>1. /\ stdin[k] # <<>> /\ stdin' = [stdin EXCEPT ![k] = Tail(@)]
        /\ UNCHANGED <<spawned, requests, torn, micro, runtime, boot, quit>>
        /\ \E kind \in {"result", "error"} : Emit(k, [kind |-> kind, id |-> Head(stdin[k])])
    BY <1>7 DEF Handle
  <2>2. Head(stdin[k]) \in Ids /\ stdin' \in [Children -> Seq(Ids)]
    BY <1>t, <2>1
  <2>3. stdout' \in [Children -> Seq(Frame)]
    BY <2>1, <2>2, Framed DEF Frame
  <2>4. QED
    BY <1>t, <2>1, <2>2, <2>3, CountApart
<1>8. ASSUME NEW k \in Children, Chatter(k) \/ Die(k) PROVE CountInv'
  <2>1. /\ UNCHANGED <<spawned, requests, torn, micro, runtime, boot, quit>>
        /\ stdin' = stdin \/ stdin' = [stdin EXCEPT ![k] = <<>>]
    BY <1>8 DEF Chatter, Die
  <2>2. stdin' \in [Children -> Seq(Ids)]
    <3>1. <<>> \in Seq(Ids)
      OBVIOUS
    <3>2. ASSUME NEW e \in Seq(Ids) PROVE [stdin EXCEPT ![k] = e] \in [Children -> Seq(Ids)]
      BY <1>t
    <3>3. QED
      BY <1>t, <2>1, <3>1, <3>2
  <2>3. UNCHANGED stdout \/ \E f \in Frame : Emit(k, f)
    BY <1>8 DEF Chatter, Die, Frame
  <2>4. stdout' \in [Children -> Seq(Frame)]
    BY <1>t, <2>3, Framed
  <2>5. QED
    BY <1>t, <2>1, <2>2, <2>4, CountApart
<1>9. CASE UNCHANGED host
  BY <1>t, <1>9, CountApart DEF host, pipes
<1>10. CASE DomReady \/ AsksStatus \/ TellsStatus \/ StatusLoaded
  BY <1>9, <1>10 DEF DomReady, AsksStatus, TellsStatus, StatusLoaded
<1>11. CASE UNCHANGED vars
  BY <1>9, <1>11 DEF vars, host
<1>12. QED
  BY <1>1, <1>2, <1>3, <1>4, <1>5, <1>6, <1>7, <1>8, <1>10, <1>11 DEF Next

(* Each variable keeps its type, and no id is beyond the last one: however *)
(* often the worker dies and is restarted, transport.ts sends no more than *)
(* a "start" and a "get_status_snapshot" for each restart.                 *)
THEOREM TypeCorrect == Spec => []TypeOK
<1>1. HostInv /\ PipesInv /\ WindowInv /\ CountInv => TypeOK
  <2> SUFFICES ASSUME HostInv, PipesInv, WindowInv, CountInv PROVE TypeOK
    OBVIOUS
  <2>1. runtime \in [stopping : BOOLEAN, started : BOOLEAN, restartCount : 0..MaxRestarts]
    <3>1. /\ runtime = [stopping |-> runtime.stopping, started |-> runtime.started,
                        restartCount |-> runtime.restartCount]
          /\ runtime.stopping \in BOOLEAN /\ runtime.started \in BOOLEAN
          /\ runtime.restartCount \in Nat
      BY DEF HostInv
    <3>2. runtime.restartCount \in 0..MaxRestarts
      BY <3>1, TransportAssumption DEF CountInv
    <3>3. ASSUME NEW a \in BOOLEAN, NEW b \in BOOLEAN, NEW c \in 0..MaxRestarts
          PROVE  [stopping |-> a, started |-> b, restartCount |-> c]
                   \in [stopping : BOOLEAN, started : BOOLEAN, restartCount : 0..MaxRestarts]
      OBVIOUS
    <3>4. QED
      BY <3>1, <3>2, <3>3, Zenon
  <2>2. /\ Counted(requests, micro, Starts)
        /\ runtime.restartCount \in Nat /\ runtime.restartCount <= MaxRestarts
    BY <2>1 DEF CountInv
  <2>3. Starts \in Nat /\ Starts <= MaxRestarts + 1
    BY <2>2, TransportAssumption DEF Starts
  <2>4. 1..Len(requests) \subseteq Ids /\ micro \in Seq(Ids) /\ requests \in Seq(Request)
    <3>1. 1..Len(requests) \subseteq Ids /\ micro \in Seq(Ids)
      BY <2>2, <2>3, IdsSuffice
    <3>2. QED
      BY <2>2, <3>1 DEF Counted
  <2>5. DOMAIN requests \subseteq Ids
    BY <2>4
  <2>6. spawned \in 0..(MaxRestarts + 1) /\ child \in 0..(MaxRestarts + 1)
    BY TransportAssumption DEF CountInv, PipesInv
  <2>7. /\ stdin \in [Children -> Seq(Ids)] /\ stdout \in [Children -> Seq(Frame)]
        /\ torn \in BOOLEAN /\ quit \in BOOLEAN /\ boot \in {"new", "worker", "vfs"}
    BY DEF CountInv
  <2>8. proc \in [Children -> {"none", "alive", "killed", "dead", "gone"}]
    BY DEF HostInv
  <2>9. /\ window \in [ready : BOOLEAN,
                        load : {"new", "asked", "answered", "overtaken", "done"},
                        answer : {"fallback", "worker"}, model : {"fallback", "worker"},
                        heard : BOOLEAN]
        /\ view \in {"fallback", "worker"}
    BY DEF WindowInv, Windows, Status
  <2>10. QED
    BY <2>1, <2>4, <2>5, <2>6, <2>7, <2>8, <2>9, Zenon DEF TypeOK
<1>2. Spec => [](HostInv /\ PipesInv /\ WindowInv /\ CountInv)
  BY HostInit, HostNext, PipesInit, PipesNext, WindowInit, WindowNext, CountInit, CountNext,
     PTL DEF Spec
<1>3. QED
  BY <1>1, <1>2, PTL

=============================================================================
