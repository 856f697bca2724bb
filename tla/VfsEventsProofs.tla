--------------------------- MODULE VfsEventsProofs ---------------------------
(***************************************************************************)
(* Proofs about VfsEvents, for any number of files, versions, faults and   *)
(* any size of the batches: the types, and that no content change is       *)
(* forgotten. The table is filtered and joined by recursive functions; the *)
(* first section proves what they return, by induction on the length.      *)
(***************************************************************************)
EXTENDS VfsEvents, WellFoundedInduction, TLAPS

(* Induction, by a least counterexample.                                   *)
LEMMA Least ==
  ASSUME NEW S, S \subseteq Nat, S # {}
  PROVE  \E n \in S : \A m \in S : n <= m
<1> DEFINE R == OpToRel(<, Nat)
<1>1. IsWellFoundedOn(R, Nat)
  BY NatLessThanWellFounded, Zenon
<1>2. \A x, y \in S : y < x => <<y, x>> \in R
  BY DEF OpToRel
<1> HIDE DEF R
<1>3. PICK x \in S : \A y \in S : <<y, x>> \notin R
  BY <1>1, WFMin, Zenon
<1>4. \A y \in S : ~(y < x)
  BY <1>2, <1>3
<1>5. QED
  BY <1>4

LEMMA UpTo ==
  ASSUME NEW S, NEW a \in Nat, NEW n \in Nat, a <= n, a \in S,
         \A i \in a + 1..n : i - 1 \in S => i \in S
  PROVE  \A i \in a..n : i \in S
<1> SUFFICES ASSUME NEW i \in a..n, i \notin S PROVE FALSE
  OBVIOUS
<1> DEFINE F == {j \in a..n : j \notin S}
<1>1. F \subseteq Nat /\ F # {}
  OBVIOUS
<1>2. PICK j \in F : \A m \in F : j <= m
  BY <1>1, Least, Zenon
<1>3. j \in a + 1..n /\ j - 1 \in a..n /\ j - 1 \notin F
  BY <1>2
<1>4. QED
  BY <1>2, <1>3

(* Where as it is computed: k[i] is what the first i rows leave.           *)
KeptStep(rows, set, k, i) ==
  IF i = 0 THEN <<>> ELSE IF rows[i] \in set THEN Append(k[i - 1], rows[i]) ELSE k[i - 1]
Kept(rows, set, n, k) == k = [i \in 0..n |-> KeptStep(rows, set, k, i)]

LEMMA KeptExists ==
  ASSUME NEW rows, NEW set, NEW n \in Nat
  PROVE  \E k : Kept(rows, set, n, k)
<1> DEFINE G == {m \in Nat : \E k : Kept(rows, set, m, k)}
<1>1. 0 \in G
  <2>1. Kept(rows, set, 0, [i \in 0..0 |-> <<>>])
    BY DEF Kept, KeptStep
  <2>2. QED
    BY <2>1
<1>2. ASSUME NEW m \in 1..n, m - 1 \in G PROVE m \in G
  <2>1. PICK k : Kept(rows, set, m - 1, k)
    BY <1>2
  <2> DEFINE h == [i \in 0..m |-> IF i = m THEN KeptStep(rows, set, k, m) ELSE k[i]]
  <2>2. h = [i \in 0..m |-> h[i]]
    OBVIOUS
  <2>3. h[m] = KeptStep(rows, set, k, m) /\ \A i \in 0..(m - 1) : h[i] = k[i]
    OBVIOUS
  <2>4. \A i \in 0..(m - 1) : k[i] = KeptStep(rows, set, k, i)
    BY <2>1 DEF Kept
  <2> HIDE DEF h
  <2>5. \A i \in 0..m : h[i] = KeptStep(rows, set, h, i)
    BY <2>3, <2>4 DEF KeptStep
  <2>6. Kept(rows, set, m, h)
    BY <2>2, <2>5 DEF Kept
  <2>7. QED
    BY <2>6
<1> HIDE DEF G
<1>3. n \in G
  BY <1>1, <1>2, UpTo
<1>4. QED
  BY <1>3 DEF G

(* What is kept are rows of the table, all of those in the set.            *)
LEMMA WhereRows ==
  ASSUME NEW T, NEW rows \in Seq(T), NEW set
  PROVE  /\ Where(rows, set) \in Seq(T)
         /\ \A j \in DOMAIN rows : rows[j] \in set =>
              \E i \in DOMAIN Where(rows, set) : Where(rows, set)[i] = rows[j]
<1> DEFINE n == Len(rows)
           k == CHOOSE k : Kept(rows, set, n, k)
<1>1. Where(rows, set) = k[n]
  BY DEF Where, Kept, KeptStep
<1>2. n \in Nat
  OBVIOUS
<1>3. Kept(rows, set, n, k)
  BY <1>2, KeptExists, Zenon
<1> HIDE DEF k
<1> DEFINE S == {i \in 0..n : /\ k[i] \in Seq(T)
                              /\ \A j \in 1..i : rows[j] \in set => \E x \in 1..Len(k[i]) : k[i][x] = rows[j]}
<1>4. \A i \in 0..n : k[i] = KeptStep(rows, set, k, i)
  BY <1>3 DEF Kept
<1>5. 0 \in S
  <2>1. k[0] = <<>> /\ 0 \in 0..n
    BY <1>2, <1>4 DEF KeptStep
  <2>2. <<>> \in Seq(T) /\ \A j \in 1..0 : FALSE
    OBVIOUS
  <2>3. QED
    BY <2>1, <2>2
<1>6. ASSUME NEW i \in 1..n, i - 1 \in S PROVE i \in S
  <2> DEFINE b == k[i - 1]
  <2>1. /\ b \in Seq(T) /\ rows[i] \in T
        /\ \A j \in 1..(i - 1) : rows[j] \in set => \E x \in 1..Len(b) : b[x] = rows[j]
    BY <1>6
  <2>2. k[i] = IF rows[i] \in set THEN Append(b, rows[i]) ELSE b
    BY <1>4 DEF KeptStep
  <2> HIDE DEF b
  <2>3. CASE rows[i] \in set
    <3>1. /\ k[i] \in Seq(T) /\ Len(k[i]) = Len(b) + 1 /\ Len(b) \in Nat
          /\ k[i][Len(b) + 1] = rows[i] /\ \A x \in 1..Len(b) : k[i][x] = b[x]
      BY <2>1, <2>2, <2>3
    <3>2. \A j \in 1..i : rows[j] \in set => \E x \in 1..Len(k[i]) : k[i][x] = rows[j]
      <4> SUFFICES ASSUME NEW j \in 1..i, rows[j] \in set
                   PROVE  \E x \in 1..Len(k[i]) : k[i][x] = rows[j]
        OBVIOUS
      <4>1. CASE j = i
        BY <3>1, <4>1
      <4>2. CASE j # i
        <5>1. PICK x \in 1..Len(b) : b[x] = rows[j]
          BY <2>1, <4>2
        <5>2. QED
          BY <3>1, <5>1
      <4>3. QED
        BY <4>1, <4>2
    <3>3. QED
      BY <3>1, <3>2
  <2>4. CASE rows[i] \notin set
    BY <2>1, <2>2, <2>4
  <2>5. QED
    BY <2>3, <2>4
<1> HIDE DEF S
<1>7. n \in S
  <2>1. 0 \in Nat /\ 0 <= n /\ \A i \in 0 + 1..n : i - 1 \in S => i \in S
    BY <1>2, <1>6
  <2>2. \A i \in 0..n : i \in S
    BY <1>2, <1>5, <2>1, UpTo
  <2>3. QED
    BY <1>2, <2>2
<1>8. QED
  BY <1>1, <1>7 DEF S

(* FlattenSeq as it is computed: k[i] joins the first i sequences.         *)
JoinStep(seqs, k, i) == IF i = 1 THEN seqs[i] ELSE k[i - 1] \o seqs[i]
Joined(seqs, n, k) == k = [i \in 1..n |-> JoinStep(seqs, k, i)]

LEMMA JoinedExists ==
  ASSUME NEW seqs, NEW n \in Nat, 1 <= n
  PROVE  \E k : Joined(seqs, n, k)
<1> DEFINE G == {m \in Nat : \E k : Joined(seqs, m, k)}
<1>1. 1 \in G
  <2>1. Joined(seqs, 1, [i \in 1..1 |-> seqs[1]])
    BY DEF Joined, JoinStep
  <2>2. QED
    BY <2>1
<1>2. ASSUME NEW m \in 1 + 1..n, m - 1 \in G PROVE m \in G
  <2>1. PICK k : Joined(seqs, m - 1, k)
    BY <1>2
  <2> DEFINE h == [i \in 1..m |-> IF i = m THEN JoinStep(seqs, k, m) ELSE k[i]]
  <2>2. h = [i \in 1..m |-> h[i]]
    OBVIOUS
  <2>3. h[m] = JoinStep(seqs, k, m) /\ \A i \in 1..(m - 1) : h[i] = k[i]
    OBVIOUS
  <2>4. \A i \in 1..(m - 1) : k[i] = JoinStep(seqs, k, i)
    BY <2>1 DEF Joined
  <2> HIDE DEF h
  <2>5. \A i \in 1..m : h[i] = JoinStep(seqs, h, i)
    BY <2>3, <2>4 DEF JoinStep
  <2>6. Joined(seqs, m, h)
    BY <2>2, <2>5 DEF Joined
  <2>7. QED
    BY <2>6
<1> HIDE DEF G
<1>3. n \in G
  <2>1. \A i \in 1..n : i \in G
    BY <1>1, <1>2, UpTo
  <2>2. QED
    BY <2>1
<1>4. QED
  BY <1>3 DEF G

LEMMA FlattenType ==
  ASSUME NEW T, NEW seqs \in Seq(Seq(T))
  PROVE  FlattenSeq(seqs) \in Seq(T)
<1> DEFINE n == Len(seqs)
           k == CHOOSE k : Joined(seqs, n, k)
<1>1. CASE n = 0
  <2>1. FlattenSeq(seqs) = seqs
    BY <1>1 DEF FlattenSeq
  <2>2. seqs = <<>>
    BY <1>1
  <2>3. <<>> \in Seq(T)
    OBVIOUS
  <2>4. QED
    BY <2>1, <2>2, <2>3, Zenon
<1>2. CASE n # 0
  <2>1. n \in Nat /\ 1 <= n
    BY <1>2
  <2>2. FlattenSeq(seqs) = k[n]
    BY <1>2 DEF FlattenSeq, Joined, JoinStep
  <2>3. Joined(seqs, n, k)
    BY <2>1, JoinedExists, Zenon
  <2> HIDE DEF k
  <2> DEFINE S == {i \in 1..n : k[i] \in Seq(T)}
  <2>4. \A i \in 1..n : k[i] = JoinStep(seqs, k, i)
    BY <2>3 DEF Joined
  <2>a. \A i \in 1..n : seqs[i] \in Seq(T)
    OBVIOUS
  <2>5. 1 \in S
    BY <2>1, <2>4, <2>a DEF JoinStep
  <2>6. ASSUME NEW i \in 1 + 1..n, i - 1 \in S PROVE i \in S
    <3>0. i \in 1..n /\ i # 1 /\ k[i - 1] \in Seq(T)
      BY <2>1, <2>6
    <3>1. k[i] = k[i - 1] \o seqs[i]
      BY <2>4, <3>0 DEF JoinStep
    <3>2. k[i] \in Seq(T)
      BY <2>a, <3>0, <3>1
    <3>3. QED
      BY <3>0, <3>2
  <2> HIDE DEF S
  <2>7. n \in S
    <3>1. \A i \in 1..n : i \in S
      BY <2>1, <2>5, <2>6, UpTo
    <3>2. QED
      BY <2>1, <3>1
  <2>8. QED
    BY <2>2, <2>7 DEF S
<1>3. QED
  BY <1>1, <1>2

-----------------------------------------------------------------------------
(* Types.                                                                  *)
Event   == [f : Files, kind : {"add", "update", "delete"}]
SyncRec == [on : BOOLEAN, existing : [Files -> NodeRec], unread : SUBSET Files,
            seen : [Files -> 0..MaxEdits], vanished : BOOLEAN]
States  == {"off", "idle", "blocked", "run"}
Phases  == {"next", "fetch", "apply", "hook"}
ProcRec == [state : States, batch : Seq(Listed), phase : Phases, prev : NodeRec, got : 0..MaxEdits]

LEMMA Zero == 0 \in 0..MaxEdits /\ [row |-> FALSE, ver |-> 0] \in NodeRec
<1>1. 0 \in 0..MaxEdits
  BY EventsAssumption
<1>2. QED
  BY <1>1, Zenon DEF NodeRec

LEMMA OffTypes == /\ OffProc \in ProcRec
                  /\ \A s \in States : [OffProc EXCEPT !.state = s] \in ProcRec
<1>1. <<>> \in Seq(Listed) /\ "off" \in States /\ "next" \in Phases
  BY DEF States, Phases
<1>2. QED
  BY <1>1, Zero DEF OffProc, ProcRec

LEMMA NoSyncType == NoSync \in SyncRec
<1>1. [f \in Files |-> [row |-> FALSE, ver |-> 0]] \in [Files -> NodeRec] /\ Quiet \in [Files -> 0..MaxEdits]
  BY Zero DEF Quiet
<1>2. {} \in SUBSET Files /\ FALSE \in BOOLEAN
  OBVIOUS
<1>3. QED
  BY <1>1, <1>2, Zenon DEF NoSync, SyncRec

LEMMA NewRowType ==
  ASSUME sync \in SyncRec, NEW f \in Files, NEW t \in Types, NEW snap \in 0..MaxEdits
  PROVE  NewRow(f, t, snap) \in Row
<1>1. sync.on \in BOOLEAN
  BY DEF SyncRec
<1>2. QED
  BY <1>1, Zenon DEF NewRow, Row

LEMMA DiffRowsType ==
  ASSUME sync \in SyncRec, NEW f \in Files, NEW kind \in {"add", "update", "delete"},
         NEW snap \in 0..MaxEdits
  PROVE  DiffRows(f, kind, snap) \in Seq(Row)
<1>1. \A t \in Types : NewRow(f, t, snap) \in Row /\ NewRow(f, t, 0) \in Row
  BY NewRowType, Zero
<1>2. "delete" \in Types /\ "add" \in Types /\ "update_content" \in Types /\ "update_metadata" \in Types
  BY DEF Types
<1>3. QED
  BY <1>1, <1>2 DEF DiffRows

LEMMA AgedRows ==
  ASSUME NEW q \in Seq(Row)
  PROVE  /\ Aged(q) \in Seq(Row) /\ DOMAIN Aged(q) = DOMAIN q
         /\ \A i \in DOMAIN q : Aged(q)[i].f = q[i].f /\ Aged(q)[i].t = q[i].t
<1>1. DOMAIN Aged(q) = DOMAIN q /\ Len(q) \in Nat /\ DOMAIN q = 1..Len(q)
  BY DEF Aged
<1>2. ASSUME NEW i \in DOMAIN q
      PROVE  Aged(q)[i] \in Row /\ Aged(q)[i].f = q[i].f /\ Aged(q)[i].t = q[i].t
  <2>1. q[i] \in Row
    BY <1>1
  <2>2. Aged(q)[i] = [q[i] EXCEPT !.young = FALSE]
    BY DEF Aged
  <2>3. QED
    BY <2>1, <2>2 DEF Row
<1>3. Aged(q) \in [1..Len(q) -> Row]
  <2>1. Aged(q) = [i \in 1..Len(q) |-> Aged(q)[i]]
    BY <1>1 DEF Aged
  <2>2. QED
    BY <1>1, <1>2, <2>1
<1>4. QED
  BY <1>1, <1>2, <1>3

LEMMA CheckedType ==
  ASSUME NEW l \in Listed, NEW rows
  PROVE  /\ Checked(l, rows) \in Listed
         /\ Checked(l, rows).f = l.f /\ Checked(l, rows).t = l.t
         /\ Checked(l, rows).same => l.same /\ ~Replaced(l, rows)
<1>1. l.same \in BOOLEAN /\ (l.same /\ ~Replaced(l, rows)) \in BOOLEAN
  BY Zenon DEF Listed
<1>2. l = [f |-> l.f, t |-> l.t, snap |-> l.snap, same |-> l.same]
      /\ l.f \in Files /\ l.t \in Types /\ l.snap \in 0..MaxEdits
  BY Zenon DEF Listed
<1> DEFINE b == l.same /\ ~Replaced(l, rows)
<1>3. Checked(l, rows) = [l EXCEPT !.same = b]
  BY Zenon DEF Checked
<1>4. b \in BOOLEAN /\ (b => l.same /\ ~Replaced(l, rows))
  BY <1>1, Zenon
<1> HIDE DEF b
<1>5. Checked(l, rows) = [f |-> l.f, t |-> l.t, snap |-> l.snap, same |-> b]
  BY <1>2, <1>3
<1>6. [f |-> l.f, t |-> l.t, snap |-> l.snap, same |-> b] \in Listed
  BY <1>2, <1>4, Zenon DEF Listed
<1>7. Checked(l, rows).f = l.f /\ Checked(l, rows).t = l.t /\ Checked(l, rows).same = b
  BY <1>5
<1>8. QED
  BY <1>4, <1>5, <1>6, <1>7, Zenon

LEMMA ProcParts ==
  ASSUME proc \in [Procs -> ProcRec], NEW p \in Procs
  PROVE  /\ proc[p] = [state |-> proc[p].state, batch |-> proc[p].batch, phase |-> proc[p].phase,
                       prev |-> proc[p].prev, got |-> proc[p].got]
         /\ proc[p].state \in States /\ proc[p].batch \in Seq(Listed) /\ proc[p].phase \in Phases
         /\ proc[p].prev \in NodeRec /\ proc[p].got \in 0..MaxEdits
BY Zenon DEF ProcRec

LEMMA WokenType == \A s \in States : Woken(s) \in States
BY DEF Woken, States

(* insertNodeEvents.                                                       *)
Rechecked(b, rows) == [i \in DOMAIN b |-> Checked(b[i], rows)]

LEMMA RecheckedType ==
  ASSUME NEW b \in Seq(Listed), NEW rows
  PROVE  Rechecked(b, rows) \in Seq(Listed) /\ DOMAIN Rechecked(b, rows) = DOMAIN b
<1>1. DOMAIN b = 1..Len(b) /\ Len(b) \in Nat /\ \A i \in DOMAIN b : b[i] \in Listed
  OBVIOUS
<1>2. \A i \in DOMAIN b : Checked(b[i], rows) \in Listed
  BY <1>1, CheckedType
<1>3. Rechecked(b, rows) \in [1..Len(b) -> Listed]
  BY <1>1, <1>2 DEF Rechecked
<1>4. QED
  BY <1>1, <1>3

LEMMA InsertProc ==
  ASSUME TypeOK, NEW rows, NEW before, NEW after, Insert(rows, before, after), NEW p \in Procs
  PROVE  /\ proc' = [q \in Procs |-> proc'[q]]
         /\ proc'[p].batch = Rechecked(proc[p].batch, rows)
         /\ proc'[p].phase = proc[p].phase
         /\ proc'[p] \in ProcRec
<1>0. proc \in [Procs -> ProcRec]
  BY Zenon DEF TypeOK, ProcRec, States, Phases
<1> DEFINE b == Rechecked(proc[p].batch, rows)
           s == IF rows # <<>> THEN Woken(proc[p].state) ELSE proc[p].state
<1>1. proc' = [q \in Procs |->
                 [proc[q] EXCEPT !.batch = Rechecked(proc[q].batch, rows),
                                 !.state = IF rows # <<>> THEN Woken(proc[q].state) ELSE proc[q].state]]
  BY Zenon DEF Insert, Rechecked
<1>2. proc'[p] = [proc[p] EXCEPT !.batch = b, !.state = s] /\ proc' = [q \in Procs |-> proc'[q]]
  BY <1>1
<1>3. b \in Seq(Listed) /\ s \in States
  BY <1>0, ProcParts, RecheckedType, WokenType
<1> HIDE DEF b, s
<1>4. proc'[p] = [state |-> s, batch |-> b, phase |-> proc[p].phase,
                  prev |-> proc[p].prev, got |-> proc[p].got]
  BY <1>0, <1>2, ProcParts
<1>5. QED
  BY <1>0, <1>2, <1>3, <1>4, ProcParts DEF ProcRec, b

LEMMA WhereTable ==
  \A q \in Seq(Row) : \A set :
    /\ Where(q, set) \in Seq(Row)
    /\ \A j \in DOMAIN q : q[j] \in set =>
         \E i \in DOMAIN Where(q, set) : Where(q, set)[i] = q[j]
BY WhereRows

LEMMA InsertTable ==
  ASSUME TypeOK, NEW rows \in Seq(Row), NEW before \in Seq(Row), NEW after \in Seq(Row),
         Insert(rows, before, after)
  PROVE  /\ queue' \in Seq(Row)
         /\ \A i \in DOMAIN rows : \E j \in DOMAIN queue' : queue'[j] = rows[i]
         /\ \A i \in DOMAIN before : ~Replaced(before[i], rows) =>
              \E j \in DOMAIN queue' : queue'[j] = before[i]
         /\ \A i \in DOMAIN after : ~Replaced(after[i], rows) =>
              \E j \in DOMAIN queue' : queue'[j] = after[i]
<1> DEFINE set == {r \in Row : ~Replaced(r, rows)}
           a == Where(before, set)
           c == Where(after, set)
<1>1. queue' = a \o rows \o c
  BY DEF Insert
<1>2. /\ a \in Seq(Row) /\ c \in Seq(Row)
      /\ \A i \in DOMAIN before : ~Replaced(before[i], rows) => \E x \in DOMAIN a : a[x] = before[i]
      /\ \A i \in DOMAIN after : ~Replaced(after[i], rows) => \E x \in DOMAIN c : c[x] = after[i]
  <2>1. /\ \A i \in DOMAIN before : ~Replaced(before[i], rows) => before[i] \in set
        /\ \A i \in DOMAIN after : ~Replaced(after[i], rows) => after[i] \in set
    OBVIOUS
  <2>0. before \in Seq(Row) /\ after \in Seq(Row)
    OBVIOUS
  <2> HIDE DEF set, a, c
  <2>2. /\ Where(before, set) \in Seq(Row)
        /\ \A i \in DOMAIN before : before[i] \in set =>
             \E x \in DOMAIN Where(before, set) : Where(before, set)[x] = before[i]
    BY <2>0, WhereTable, Zenon
  <2>3. /\ Where(after, set) \in Seq(Row)
        /\ \A i \in DOMAIN after : after[i] \in set =>
             \E x \in DOMAIN Where(after, set) : Where(after, set)[x] = after[i]
    BY <2>0, WhereTable, Zenon
  <2>4. QED
    BY <2>1, <2>2, <2>3, Zenon DEF a, c
<1> HIDE DEF a, c
<1>3. /\ queue' \in Seq(Row) /\ DOMAIN queue' = 1..(Len(a) + Len(rows) + Len(c))
      /\ Len(a) \in Nat /\ Len(rows) \in Nat /\ Len(c) \in Nat
      /\ DOMAIN a = 1..Len(a) /\ DOMAIN c = 1..Len(c) /\ DOMAIN rows = 1..Len(rows)
  BY <1>1, <1>2
<1>4. \A i \in 1..Len(a) : queue'[i] = a[i]
  BY <1>1, <1>2
<1>5. \A i \in 1..Len(rows) : queue'[Len(a) + i] = rows[i]
  BY <1>1, <1>2
<1>6. \A i \in 1..Len(c) : queue'[Len(a) + Len(rows) + i] = c[i]
  BY <1>1, <1>2
<1>7. ASSUME NEW i \in DOMAIN rows PROVE \E j \in DOMAIN queue' : queue'[j] = rows[i]
  <2>1. Len(a) + i \in DOMAIN queue'
    BY <1>3
  <2>2. QED
    BY <1>3, <1>5, <2>1
<1>8. ASSUME NEW i \in DOMAIN before, ~Replaced(before[i], rows)
      PROVE  \E j \in DOMAIN queue' : queue'[j] = before[i]
  <2>1. PICK x \in DOMAIN a : a[x] = before[i]
    BY <1>2, <1>8
  <2>2. x \in DOMAIN queue'
    BY <1>3
  <2>3. QED
    BY <1>3, <1>4, <2>1, <2>2
<1>9. ASSUME NEW i \in DOMAIN after, ~Replaced(after[i], rows)
      PROVE  \E j \in DOMAIN queue' : queue'[j] = after[i]
  <2>1. PICK x \in DOMAIN c : c[x] = after[i]
    BY <1>2, <1>9
  <2>2. Len(a) + Len(rows) + x \in DOMAIN queue'
    BY <1>3
  <2>3. QED
    BY <1>3, <1>6, <2>1, <2>2
<1>10. QED
  BY <1>3, <1>7, <1>8, <1>9

LEMMA InsertOwes ==
  ASSUME TypeOK, NEW rows, NEW before, NEW after, Insert(rows, before, after)
  PROVE  /\ owed' \in [Files -> BOOLEAN]
         /\ \A f \in Files : owed'[f] =>
              owed[f] \/ \E i \in DOMAIN rows : rows[i].f = f /\ rows[i].t = "update_content"
BY Zenon DEF Insert

-----------------------------------------------------------------------------
(* What a processor does to the table and to the two of them.              *)
LEMMA TypeParts ==
  /\ TypeOK => /\ disk \in [Files -> 0..MaxEdits] /\ edits \in [Files -> 0..MaxEdits]
               /\ watchQ \in Seq(Event) /\ up \in {"down", "starting", "up"}
               /\ queue \in Seq(Row) /\ node \in [Files -> NodeRec] /\ sync \in SyncRec
               /\ proc \in [Procs -> ProcRec] /\ told \in [Files -> {"none", "index", "delete"}]
               /\ owed \in [Files -> BOOLEAN] /\ faults \in 0..MaxFaults
  /\ disk' \in [Files -> 0..MaxEdits] /\ edits' \in [Files -> 0..MaxEdits]
     /\ watchQ' \in Seq(Event) /\ up' \in {"down", "starting", "up"}
     /\ queue' \in Seq(Row) /\ node' \in [Files -> NodeRec] /\ sync' \in SyncRec
     /\ proc' \in [Procs -> ProcRec] /\ told' \in [Files -> {"none", "index", "delete"}]
     /\ owed' \in [Files -> BOOLEAN] /\ faults' \in 0..MaxFaults => TypeOK'
BY Zenon DEF TypeOK, Event, SyncRec, ProcRec, States, Phases

LEMMA SetProc ==
  ASSUME proc \in [Procs -> ProcRec], NEW p \in Procs, NEW r \in ProcRec, Set(p, r)
  PROVE  /\ proc' \in [Procs -> ProcRec] /\ proc'[p] = r
         /\ \A q \in Procs : q # p => proc'[q] = proc[q]
BY DEF Set

(* The fields of a processor that its steps write.                         *)
LEMMA ProcUpdates ==
  ASSUME NEW r \in ProcRec, NEW s \in States, NEW ph \in Phases, NEW b \in Seq(Listed),
         NEW n \in NodeRec, NEW v \in 0..MaxEdits
  PROVE  /\ [r EXCEPT !.state = s] \in ProcRec /\ [r EXCEPT !.batch = b] \in ProcRec
         /\ [r EXCEPT !.phase = ph, !.prev = n] \in ProcRec
         /\ [r EXCEPT !.phase = ph, !.got = v] \in ProcRec
         /\ [r EXCEPT !.phase = ph, !.prev = n, !.got = v] \in ProcRec
         /\ [r EXCEPT !.batch = b, !.phase = ph] \in ProcRec
BY DEF ProcRec

LEMMA BatchUpdate ==
  \A r \in ProcRec : \A b \in Seq(Listed) : \A ph \in Phases :
    /\ [r EXCEPT !.batch = b, !.phase = ph] \in ProcRec
    /\ [r EXCEPT !.batch = b, !.phase = ph].phase = ph
BY DEF ProcRec

LEMMA CurrentType ==
  ASSUME TypeOK, NEW p \in Procs, proc[p].batch # <<>>
  PROVE  /\ Current(p) \in Listed /\ Tail(proc[p].batch) \in Seq(Listed)
         /\ Current(p).f \in Files /\ Current(p).t \in Types /\ Current(p).snap \in 0..MaxEdits
         /\ Current(p) = proc[p].batch[1] /\ 1 \in DOMAIN proc[p].batch
<1>1. proc[p].batch \in Seq(Listed)
  BY TypeParts, ProcParts
<1>2. /\ Current(p) \in Listed /\ Tail(proc[p].batch) \in Seq(Listed)
      /\ Current(p) = proc[p].batch[1] /\ 1 \in DOMAIN proc[p].batch
  BY <1>1 DEF Current
<1>3. QED
  BY <1>2, Zenon DEF Listed

LEMMA ServedOwes ==
  ASSUME TypeOK, NEW p \in Procs, proc[p].batch # <<>>, Served(p)
  PROVE  /\ owed' \in [Files -> BOOLEAN]
         /\ \A f \in Files : owed'[f] => owed[f]
         /\ Current(p).t = "update_content" /\ Current(p).same => ~owed'[Current(p).f]
<1>1. owed \in [Files -> BOOLEAN] /\ Current(p).f \in Files
  BY TypeParts, CurrentType
<1> DEFINE c == Current(p)
<1>2. CASE c.t = "update_content" /\ c.same
  <2>1. owed' = [owed EXCEPT ![c.f] = FALSE]
    BY <1>2, Zenon DEF Served
  <2>2. QED
    BY <1>1, <2>1, Zenon
<1>3. CASE ~(c.t = "update_content" /\ c.same)
  <2>1. owed' = owed
    BY <1>3, Zenon DEF Served
  <2>2. QED
    BY <1>1, <1>3, <2>1, Zenon
<1>4. QED
  BY <1>2, <1>3, Zenon

(* deleteNodeEvents.                                                       *)
LEMMA RemoveTable ==
  ASSUME TypeOK, NEW p \in Procs, proc[p].batch # <<>>, RemoveRow(p)
  PROVE  /\ queue' \in Seq(Row) /\ proc' \in [Procs -> ProcRec]
         /\ proc'[p].phase = "next"
         /\ \A q \in Procs : q # p =>
              proc'[q].batch = proc[q].batch /\ proc'[q].phase = proc[q].phase
         /\ \A i \in DOMAIN queue : ~(Current(p).same /\ SameKey(queue[i], Current(p))) =>
              \E j \in DOMAIN queue' : queue'[j] = queue[i]
<1> DEFINE set == {r \in Row : ~SameKey(r, Current(p))}
<1>0. queue \in Seq(Row) /\ proc \in [Procs -> ProcRec] /\ Tail(proc[p].batch) \in Seq(Listed)
  BY TypeParts, CurrentType
<1>1. queue' = IF Current(p).same THEN Where(queue, set) ELSE queue
  BY Zenon DEF RemoveRow
<1>2. \A i \in DOMAIN queue : ~SameKey(queue[i], Current(p)) => queue[i] \in set
  BY <1>0
<1> HIDE DEF set
<1>3. /\ Where(queue, set) \in Seq(Row)
      /\ \A i \in DOMAIN queue : queue[i] \in set =>
           \E j \in DOMAIN Where(queue, set) : Where(queue, set)[j] = queue[i]
  BY <1>0, WhereRows
<1>6. /\ queue' \in Seq(Row)
      /\ \A i \in DOMAIN queue : ~(Current(p).same /\ SameKey(queue[i], Current(p))) =>
           \E j \in DOMAIN queue' : queue'[j] = queue[i]
  <2>1. CASE Current(p).same
    BY <1>1, <1>2, <1>3, <2>1, Zenon
  <2>2. CASE ~Current(p).same
    BY <1>0, <1>1, <2>2, Zenon
  <2>3. QED
    BY <2>1, <2>2, Zenon
<1>7. proc' = [q \in Procs |->
                 IF q = p THEN [proc[p] EXCEPT !.batch = Tail(proc[p].batch), !.phase = "next"]
                 ELSE [proc[q] EXCEPT !.state = Woken(proc[q].state)]]
  BY DEF RemoveRow
<1> DEFINE b == Tail(proc[p].batch)
           r == [proc[p] EXCEPT !.batch = b, !.phase = "next"]
<1>8. r \in ProcRec /\ r.phase = "next"
  <2>a. proc[p] \in ProcRec /\ "next" \in Phases
    BY <1>0 DEF Phases
  <2>b. b \in Seq(Listed)
    BY <1>0
  <2>1. proc[p] \in ProcRec /\ "next" \in Phases /\ b \in Seq(Listed)
    BY <2>a, <2>b
  <2> HIDE DEF b
  <2>2. /\ [proc[p] EXCEPT !.batch = b, !.phase = "next"] \in ProcRec
        /\ [proc[p] EXCEPT !.batch = b, !.phase = "next"].phase = "next"
    <3>1. ASSUME NEW c \in ProcRec, NEW e \in Seq(Listed)
          PROVE  /\ [c EXCEPT !.batch = e, !.phase = "next"] \in ProcRec
                 /\ [c EXCEPT !.batch = e, !.phase = "next"].phase = "next"
      BY Zenon DEF ProcRec, Phases
    <3> HIDE DEF Phases
    <3>2. QED
      BY <2>1, <3>1
  <2> HIDE DEF r
  <2>3. QED
    BY <2>2, Zenon DEF r
<1>9. ASSUME NEW q \in Procs
      PROVE  [proc[q] EXCEPT !.state = Woken(proc[q].state)] \in ProcRec
  BY <1>0, ProcParts, ProcUpdates, WokenType
<1>10. proc' \in [Procs -> ProcRec]
  BY <1>7, <1>8, <1>9
<1>11. proc'[p].phase = "next"
  <2>1. proc'[p] = r
    BY <1>7
  <2>2. QED
    BY <1>8, <2>1, Zenon
<1>12. ASSUME NEW q \in Procs, q # p
       PROVE  proc'[q].batch = proc[q].batch /\ proc'[q].phase = proc[q].phase
  BY <1>0, <1>7, <1>12, ProcParts
<1>13. QED
  BY <1>6, <1>10, <1>11, <1>12

-----------------------------------------------------------------------------
(* Every step keeps the types.                                             *)
LEMMA PhaseUpdate ==
  \A r \in ProcRec : \A ph \in Phases : \A n \in NodeRec :
    /\ [r EXCEPT !.phase = ph, !.prev = n, !.got = 0] \in ProcRec
    /\ [r EXCEPT !.phase = ph, !.prev = n, !.got = 0].batch = r.batch
BY Zero DEF ProcRec

LEMMA PrevUpdate ==
  \A r \in ProcRec : \A ph \in Phases : \A n \in NodeRec :
    /\ [r EXCEPT !.phase = ph, !.prev = n] \in ProcRec
    /\ [r EXCEPT !.phase = ph, !.prev = n].batch = r.batch
BY DEF ProcRec

LEMMA GotUpdate ==
  \A r \in ProcRec : \A ph \in Phases : \A v \in 0..MaxEdits :
    /\ [r EXCEPT !.phase = ph, !.got = v] \in ProcRec
    /\ [r EXCEPT !.phase = ph, !.got = v].batch = r.batch
BY DEF ProcRec

(* Applying a row changes the node, the requests, and p's phase.           *)
LEMMA EffectTypes ==
  ASSUME TypeOK, NEW p \in Procs, proc[p].batch # <<>>,
         NEW prev \in NodeRec, NEW got \in 0..MaxEdits, Effect(p, prev, got)
  PROVE  /\ node' \in [Files -> NodeRec] /\ proc' \in [Procs -> ProcRec]
         /\ told' \in [Files -> {"none", "index", "delete"}] /\ faults' \in 0..MaxFaults
         /\ proc'[p].batch = proc[p].batch
         /\ \A q \in Procs : q # p => proc'[q] = proc[q]
         /\ Served(p)
<1> DEFINE f == Current(p).f
           n == IF got # 0 THEN ToNode(got)
                ELSE IF prev.ver # 0 THEN [row |-> TRUE, ver |-> 0] ELSE node[f]
           asks == Hook(Current(p).t, prev, n)
           r == [proc[p] EXCEPT !.phase = "hook", !.prev = OffProc.prev, !.got = 0]
<1>1. f \in Files /\ node \in [Files -> NodeRec] /\ proc \in [Procs -> ProcRec]
      /\ told \in [Files -> {"none", "index", "delete"}] /\ faults \in 0..MaxFaults
  BY TypeParts, CurrentType
<1>2. n \in NodeRec
  <2>1. ToNode(got) \in NodeRec /\ [row |-> TRUE, ver |-> 0] \in NodeRec
    BY Zero DEF ToNode, NodeRec
  <2>2. QED
    BY <1>1, <2>1, Zenon
<1>3. Upserted(f, n) /\ Set(p, r) /\ Served(p)
  BY Zenon DEF Effect
<1>4. UNCHANGED <<told, faults>> \/ (Ask(p, asks) /\ asks # "none")
  BY Zenon DEF Effect
<1>5. asks \in {"none", "index", "delete"}
  BY DEF Hook
<1> HIDE DEF n, asks
<1>6. node' \in [Files -> NodeRec]
  BY <1>1, <1>2, <1>3 DEF Upserted
<1>7. told' \in [Files -> {"none", "index", "delete"}] /\ faults' \in 0..MaxFaults
  <2>1. CASE UNCHANGED <<told, faults>>
    BY <1>1, <2>1
  <2>2. CASE Ask(p, asks)
    BY <1>1, <1>5, <2>2, EventsAssumption DEF Ask
  <2>3. QED
    BY <1>4, <2>1, <2>2
<1>8. r \in ProcRec /\ r.batch = proc[p].batch
  <2>1. proc[p] \in ProcRec /\ "hook" \in Phases /\ OffProc.prev \in NodeRec /\ 0 \in 0..MaxEdits
    BY <1>1, Zero DEF Phases, OffProc
  <2>2. QED
    BY <2>1, PhaseUpdate, Zenon
<1> HIDE DEF r
<1>9. proc' \in [Procs -> ProcRec] /\ proc'[p] = r /\ \A q \in Procs : q # p => proc'[q] = proc[q]
  BY <1>1, <1>3, <1>8, SetProc
<1>10. QED
  BY <1>3, <1>6, <1>7, <1>8, <1>9, Zenon

(* The rows a full sync writes.                                            *)
LEMMA SyncRows ==
  ASSUME TypeOK
  PROVE  Aged(FlattenSeq([f \in Files |-> SyncDiff(f)])) \in Seq(Row)
<1>1. sync \in SyncRec /\ NumFiles \in Nat
  BY TypeParts, EventsAssumption
<1>2. ASSUME NEW f \in Files PROVE SyncDiff(f) \in Seq(Row)
  <2>1. sync.seen[f] \in 0..MaxEdits /\ 0 \in 0..MaxEdits
    BY <1>1, Zero DEF SyncRec
  <2>2. \A k \in {"add", "update", "delete"} :
          DiffRows(f, k, sync.seen[f]) \in Seq(Row) /\ DiffRows(f, k, 0) \in Seq(Row)
    BY <1>1, <2>1, DiffRowsType
  <2>3. <<>> \in Seq(Row)
    OBVIOUS
  <2>4. QED
    BY <2>2, <2>3, Zenon DEF SyncDiff
<1> DEFINE all == [f \in Files |-> SyncDiff(f)]
<1>3. all \in Seq(Seq(Row))
  BY <1>1, <1>2 DEF Files
<1> HIDE DEF all
<1>4. FlattenSeq(all) \in Seq(Row)
  BY <1>3, FlattenType
<1>5. QED
  BY <1>4, AgedRows DEF all

(* An insertion into a well-typed table.                                   *)
LEMMA InsertTypes ==
  ASSUME TypeOK, NEW rows \in Seq(Row), NEW before \in Seq(Row), NEW after \in Seq(Row),
         Insert(rows, before, after)
  PROVE  queue' \in Seq(Row) /\ proc' \in [Procs -> ProcRec] /\ owed' \in [Files -> BOOLEAN]
<1>1. queue' \in Seq(Row) /\ owed' \in [Files -> BOOLEAN]
  BY InsertTable, InsertOwes, Zenon
<1>2. proc' = [q \in Procs |-> proc'[q]] /\ \A q \in Procs : proc'[q] \in ProcRec
  <2>1. ASSUME NEW q \in Procs PROVE proc' = [x \in Procs |-> proc'[x]] /\ proc'[q] \in ProcRec
    BY InsertProc, Zenon
  <2>2. "content" \in Procs
    BY DEF Procs
  <2>3. QED
    BY <2>1, <2>2, Zenon
<1>3. QED
  BY <1>1, <1>2

LEMMA TypeInit == Init => TypeOK
<1> SUFFICES ASSUME Init PROVE TypeOK
  OBVIOUS
<1>1. disk \in [Files -> 0..MaxEdits] /\ edits \in [Files -> 0..MaxEdits]
  BY EventsAssumption DEF Init
<1>2. watchQ \in Seq(Event) /\ up \in {"down", "starting", "up"} /\ queue \in Seq(Row)
  BY DEF Init
<1>3. node \in [Files -> NodeRec] /\ sync \in SyncRec /\ proc \in [Procs -> ProcRec]
  BY Zero, NoSyncType, OffTypes DEF Init
<1>4. told \in [Files -> {"none", "index", "delete"}] /\ owed \in [Files -> BOOLEAN]
      /\ faults \in 0..MaxFaults
  BY EventsAssumption DEF Init
<1>5. QED
  BY <1>1, <1>2, <1>3, <1>4, Zenon DEF TypeOK, Event, SyncRec, ProcRec, States, Phases

(* What the disk, the watcher and the life of the service change.          *)
LEMMA HostTypes ==
  ASSUME TypeOK,
         \/ \E f \in Files : Write(f) \/ Unlink(f)
         \/ WatchEvent \/ Start \/ Crash \/ WatchReady \/ Reconcile
  PROVE  TypeOK'
<1>0. /\ disk \in [Files -> 0..MaxEdits] /\ edits \in [Files -> 0..MaxEdits]
      /\ watchQ \in Seq(Event) /\ up \in {"down", "starting", "up"}
      /\ queue \in Seq(Row) /\ node \in [Files -> NodeRec] /\ sync \in SyncRec
      /\ proc \in [Procs -> ProcRec] /\ told \in [Files -> {"none", "index", "delete"}]
      /\ owed \in [Files -> BOOLEAN] /\ faults \in 0..MaxFaults
  BY TypeParts, Zenon
<1>r. ASSUME NEW f \in Files, NEW kind \in {"add", "update", "delete"}, Report(f, kind)
      PROVE  watchQ' \in Seq(Event)
  <2>1. [f |-> f, kind |-> kind] \in Event
    BY DEF Event
  <2>2. QED
    BY <1>0, <1>r, <2>1 DEF Report
<1>1. ASSUME NEW f \in Files, Write(f) PROVE TypeOK'
  <2>1. disk' \in [Files -> 0..MaxEdits] /\ edits' \in [Files -> 0..MaxEdits]
    BY <1>0, <1>1, EventsAssumption DEF Write
  <2>2. watchQ' \in Seq(Event)
    BY <1>1, <1>r DEF Write
  <2>3. UNCHANGED <<up, queue, node, sync, proc, told, owed, faults>>
    BY <1>1 DEF Write, index
  <2>4. QED
    BY <1>0, <2>1, <2>2, <2>3, TypeParts
<1>2. ASSUME NEW f \in Files, Unlink(f) PROVE TypeOK'
  <2>1. disk' \in [Files -> 0..MaxEdits]
    BY <1>0, <1>2, Zero DEF Unlink
  <2>2. watchQ' \in Seq(Event)
    BY <1>2, <1>r DEF Unlink
  <2>3. UNCHANGED <<edits, up, queue, node, proc, told, owed, faults>>
    BY <1>2 DEF Unlink, index
  <2>4. sync' \in SyncRec
    <3> DEFINE v == sync.vanished \/ f \in sync.unread
    <3>1. sync' = [sync EXCEPT !.vanished = v]
      BY <1>2 DEF Unlink
    <3>2. v \in BOOLEAN
      BY Zenon
    <3> HIDE DEF v
    <3>3. QED
      BY <1>0, <3>1, <3>2 DEF SyncRec
  <2>5. QED
    BY <1>0, <2>1, <2>2, <2>3, <2>4, TypeParts
<1>3. CASE WatchEvent
  <2>1. watchQ' \in Seq(Event) /\ Head(watchQ) \in Event
    BY <1>0, <1>3 DEF WatchEvent
  <2>2. Head(watchQ).f \in Files /\ Head(watchQ).kind \in {"add", "update", "delete"}
    BY <2>1, Zenon DEF Event
  <2> DEFINE rows == DiffRows(Head(watchQ).f, Head(watchQ).kind, 0)
  <2>3. rows \in Seq(Row) /\ <<>> \in Seq(Row)
    <3>1. <<>> \in Seq(Row) /\ 0 \in 0..MaxEdits
      BY Zero
    <3>2. rows \in Seq(Row)
      BY <1>0, <2>2, <3>1, DiffRowsType, Zenon
    <3>3. QED
      BY <3>1, <3>2
  <2>4. Insert(rows, queue, <<>>)
    BY <1>3 DEF WatchEvent
  <2> HIDE DEF rows
  <2>5. queue' \in Seq(Row) /\ proc' \in [Procs -> ProcRec] /\ owed' \in [Files -> BOOLEAN]
    BY <1>0, <2>3, <2>4, InsertTypes
  <2>6. UNCHANGED <<disk, edits, up, node, sync, told, faults>>
    BY <1>3 DEF WatchEvent
  <2>7. QED
    BY <1>0, <2>1, <2>5, <2>6, TypeParts
<1>4. CASE Start
  <2>1. up' \in {"down", "starting", "up"} /\ proc' \in [Procs -> ProcRec]
    BY <1>4, OffTypes DEF Start, States
  <2>2. UNCHANGED <<disk, edits, watchQ, queue, node, sync, told, owed, faults>>
    BY <1>4 DEF Start, index
  <2>3. QED
    BY <1>0, <2>1, <2>2, TypeParts
<1>5. CASE Crash
  <2>1. /\ up' \in {"down", "starting", "up"} /\ faults' \in 0..MaxFaults
        /\ proc' \in [Procs -> ProcRec] /\ sync' \in SyncRec /\ watchQ' \in Seq(Event)
    BY <1>0, <1>5, EventsAssumption, OffTypes, NoSyncType DEF Crash
  <2>2. queue' \in Seq(Row)
    BY <1>0, <1>5, AgedRows DEF Crash
  <2>3. UNCHANGED <<disk, edits, node, told, owed>>
    BY <1>5 DEF Crash
  <2>4. QED
    BY <1>0, <2>1, <2>2, <2>3, TypeParts
<1>b. ASSUME BeginSync PROVE queue' \in Seq(Row) /\ sync' \in SyncRec
  <2>1. queue' \in Seq(Row)
    BY <1>0, <1>b, AgedRows DEF BeginSync
  <2>2. Quiet \in [Files -> 0..MaxEdits] /\ Files \in SUBSET Files /\ TRUE \in BOOLEAN /\ FALSE \in BOOLEAN
    BY Zero DEF Quiet
  <2>3. sync' \in SyncRec
    BY <1>0, <1>b, <2>2, Zenon DEF BeginSync, SyncRec
  <2>4. QED
    BY <2>1, <2>3
<1>6. CASE WatchReady
  <2>1. up' \in {"down", "starting", "up"} /\ queue' \in Seq(Row) /\ sync' \in SyncRec
    BY <1>6, <1>b DEF WatchReady
  <2>2. UNCHANGED <<disk, edits, watchQ, node, proc, told, owed, faults>>
    BY <1>6 DEF WatchReady, index
  <2>3. QED
    BY <1>0, <2>1, <2>2, TypeParts
<1>7. CASE Reconcile
  <2>1. queue' \in Seq(Row) /\ sync' \in SyncRec
    BY <1>7, <1>b DEF Reconcile
  <2>2. UNCHANGED <<disk, edits, watchQ, up, node, proc, told, owed, faults>>
    BY <1>7 DEF Reconcile, index
  <2>3. QED
    BY <1>0, <2>1, <2>2, TypeParts
<1>8. QED
  BY <1>1, <1>2, <1>3, <1>4, <1>5, <1>6, <1>7

(* What a full sync changes.                                               *)
LEMMA SyncTypes ==
  ASSUME TypeOK, (\E f \in Files : SyncRead(f)) \/ SyncFails \/ SyncEnds
  PROVE  TypeOK'
<1>0. /\ disk \in [Files -> 0..MaxEdits] /\ edits \in [Files -> 0..MaxEdits]
      /\ watchQ \in Seq(Event) /\ up \in {"down", "starting", "up"}
      /\ queue \in Seq(Row) /\ node \in [Files -> NodeRec] /\ sync \in SyncRec
      /\ proc \in [Procs -> ProcRec] /\ told \in [Files -> {"none", "index", "delete"}]
      /\ owed \in [Files -> BOOLEAN] /\ faults \in 0..MaxFaults
  BY TypeParts, Zenon
<1>1. ASSUME NEW f \in Files, SyncRead(f) PROVE TypeOK'
  <2> DEFINE u == sync.unread \ {f}
             s == [sync.seen EXCEPT ![f] = disk[f]]
  <2>1. sync' = [sync EXCEPT !.unread = u, !.seen = s]
    BY <1>1 DEF SyncRead, Stat
  <2>2. u \in SUBSET Files /\ s \in [Files -> 0..MaxEdits]
    BY <1>0 DEF SyncRec
  <2> HIDE DEF u, s
  <2>3. sync' \in SyncRec
    BY <1>0, <2>1, <2>2 DEF SyncRec
  <2>4. UNCHANGED <<disk, edits, watchQ, up, queue, node, proc, told, owed, faults>>
    BY <1>1 DEF SyncRead, index
  <2>5. QED
    BY <1>0, <2>3, <2>4, TypeParts
<1>2. CASE SyncFails
  <2>1. sync' \in SyncRec /\ queue' \in Seq(Row)
    BY <1>0, <1>2, NoSyncType, AgedRows DEF SyncFails
  <2>2. UNCHANGED <<disk, edits, watchQ, up, node, proc, told, owed, faults>>
    BY <1>2 DEF SyncFails, index
  <2>3. QED
    BY <1>0, <2>1, <2>2, TypeParts
<1>3. CASE SyncEnds
  <2> DEFINE rows   == Aged(FlattenSeq([f \in Files |-> SyncDiff(f)]))
             old    == {r \in Row : ~r.young}
             young  == {r \in Row : r.young}
             before == Where(queue, old)
             after  == Aged(Where(queue, young))
  <2>1. Insert(rows, before, after)
    BY <1>3 DEF SyncEnds
  <2>2. rows \in Seq(Row)
    BY SyncRows
  <2> HIDE DEF rows, old, young
  <2>3. before \in Seq(Row) /\ Where(queue, young) \in Seq(Row)
    BY <1>0, WhereTable, Zenon
  <2>4. after \in Seq(Row)
    BY <2>3, AgedRows
  <2> HIDE DEF before, after
  <2>5. queue' \in Seq(Row) /\ proc' \in [Procs -> ProcRec] /\ owed' \in [Files -> BOOLEAN]
    BY <2>1, <2>2, <2>3, <2>4, InsertTypes
  <2>6. sync' \in SyncRec /\ UNCHANGED <<disk, edits, watchQ, up, node, told, faults>>
    BY <1>3, NoSyncType DEF SyncEnds
  <2>7. QED
    BY <1>0, <2>5, <2>6, TypeParts
<1>4. QED
  BY <1>1, <1>2, <1>3

(* Each step of a processor.                                               *)
LEMMA BusyParts ==
  ASSUME TypeOK, NEW p \in Procs
  PROVE  /\ proc[p] \in ProcRec /\ proc \in [Procs -> ProcRec] /\ queue \in Seq(Row)
         /\ proc[p].prev \in NodeRec /\ proc[p].got \in 0..MaxEdits
         /\ proc[p].batch \in Seq(Listed)
BY TypeParts, ProcParts

LEMMA MineRows == ASSUME TypeOK, NEW p PROVE Mine(p) \in Seq(Row)
<1>1. queue \in Seq(Row)
  BY TypeParts
<1> DEFINE set == {r \in Row : r.t \in TypesOf(p)}
<1>2. Mine(p) = Where(queue, set)
  BY DEF Mine
<1> HIDE DEF set
<1>3. QED
  BY <1>1, <1>2, WhereTable, Zenon

LEMMA ListTypes ==
  ASSUME TypeOK, NEW p \in Procs, List(p)
  PROVE  /\ proc' \in [Procs -> ProcRec]
         /\ \A q \in Procs : q # p => proc'[q] = proc[q]
         /\ proc[p].batch = <<>>
         /\ \/ proc'[p] = [OffProc EXCEPT !.state = "idle"]
            \/ proc'[p].phase = proc[p].phase
<1> DEFINE m == Mine(p)
           n == IF Len(m) < BatchSize THEN Len(m) ELSE BatchSize
           b == [i \in 1..n |-> [f |-> m[i].f, t |-> m[i].t, snap |-> m[i].snap, same |-> TRUE]]
           r == IF m = <<>> THEN [OffProc EXCEPT !.state = "idle"] ELSE [proc[p] EXCEPT !.batch = b]
<1>1. Set(p, r) /\ proc[p].batch = <<>>
  BY DEF List
<1>2. m \in Seq(Row)
  BY MineRows
<1>3. proc \in [Procs -> ProcRec] /\ proc[p] \in ProcRec
  BY BusyParts
<1> HIDE DEF m
<1>4. n \in Nat /\ n <= Len(m) /\ Len(m) \in Nat
  BY <1>2, EventsAssumption
<1> HIDE DEF n
<1>5. b \in Seq(Listed)
  <2>1. ASSUME NEW i \in 1..n
        PROVE  [f |-> m[i].f, t |-> m[i].t, snap |-> m[i].snap, same |-> TRUE] \in Listed
    <3>1. m[i] \in Row
      BY <1>2, <1>4
    <3>2. m[i].f \in Files /\ m[i].t \in Types /\ m[i].snap \in 0..MaxEdits /\ TRUE \in BOOLEAN
      BY <3>1, Zenon DEF Row
    <3>3. QED
      BY <3>2, Zenon DEF Listed
  <2>2. b \in [1..n -> Listed]
    BY <2>1
  <2>3. QED
    BY <1>4, <2>2
<1> HIDE DEF b
<1>6. [proc[p] EXCEPT !.batch = b] \in ProcRec /\ [proc[p] EXCEPT !.batch = b].phase = proc[p].phase
  BY <1>3, <1>5 DEF ProcRec
<1>7. [OffProc EXCEPT !.state = "idle"] \in ProcRec
  BY OffTypes DEF States
<1>8. r \in ProcRec /\ (r = [OffProc EXCEPT !.state = "idle"] \/ r.phase = proc[p].phase)
  BY <1>6, <1>7, Zenon
<1> HIDE DEF r
<1>9. proc' \in [Procs -> ProcRec] /\ proc'[p] = r /\ \A q \in Procs : q # p => proc'[q] = proc[q]
  BY <1>1, <1>3, <1>8, SetProc
<1>10. QED
  BY <1>1, <1>8, <1>9, Zenon

LEMMA StateUpdate ==
  \A r \in ProcRec : \A s \in States :
    /\ [r EXCEPT !.state = s] \in ProcRec
    /\ [r EXCEPT !.state = s].batch = r.batch
    /\ [r EXCEPT !.state = s].phase = r.phase
BY DEF ProcRec

LEMMA ScanTypes ==
  ASSUME TypeOK, NEW p \in Procs, Scan(p)
  PROVE  /\ proc' \in [Procs -> ProcRec]
         /\ \A q \in Procs : proc'[q].batch = proc[q].batch /\ proc'[q].phase = proc[q].phase
<1> DEFINE r == [proc[p] EXCEPT !.state = "run"]
<1>1. Set(p, r) /\ proc \in [Procs -> ProcRec]
  BY BusyParts DEF Scan
<1>2. r \in ProcRec /\ r.batch = proc[p].batch /\ r.phase = proc[p].phase
  BY BusyParts, StateUpdate DEF States
<1> HIDE DEF r
<1>3. proc' \in [Procs -> ProcRec] /\ proc'[p] = r /\ \A q \in Procs : q # p => proc'[q] = proc[q]
  BY <1>1, <1>2, SetProc
<1>4. QED
  BY <1>2, <1>3, Zenon

LEMMA BlockTypes ==
  ASSUME TypeOK, NEW p \in Procs, BeforeHookFails(p)
  PROVE  /\ proc' \in [Procs -> ProcRec] /\ proc'[p] = [OffProc EXCEPT !.state = "blocked"]
         /\ \A q \in Procs : q # p => proc'[q] = proc[q]
<1> DEFINE r == [OffProc EXCEPT !.state = "blocked"]
<1>1. Set(p, r) /\ proc \in [Procs -> ProcRec]
  BY BusyParts DEF BeforeHookFails
<1>2. r \in ProcRec
  BY OffTypes DEF States
<1> HIDE DEF r
<1>3. proc' \in [Procs -> ProcRec] /\ proc'[p] = r /\ \A q \in Procs : q # p => proc'[q] = proc[q]
  BY <1>1, <1>2, SetProc
<1>4. QED
  BY <1>3 DEF r

LEMMA FetchTypes ==
  ASSUME TypeOK, NEW p \in Procs, Fetch(p)
  PROVE  /\ proc' \in [Procs -> ProcRec] /\ proc'[p].phase = "apply"
         /\ proc'[p].batch = proc[p].batch /\ proc[p].batch # <<>>
         /\ \A q \in Procs : q # p => proc'[q] = proc[q]
<1> DEFINE v == disk[Current(p).f]
           r == [proc[p] EXCEPT !.phase = "apply", !.got = v]
<1>1. Set(p, r) /\ proc \in [Procs -> ProcRec] /\ proc[p].batch # <<>>
  BY BusyParts DEF Fetch, Busy
<1>2. v \in 0..MaxEdits /\ "apply" \in Phases /\ proc[p] \in ProcRec
  BY <1>1, BusyParts, CurrentType, TypeParts DEF Phases
<1> HIDE DEF v
<1>3. r \in ProcRec /\ r.batch = proc[p].batch /\ r.phase = "apply"
  <2>1. r.phase = "apply"
    BY <1>2 DEF ProcRec
  <2>2. QED
    BY <1>2, <2>1, GotUpdate, Zenon
<1> HIDE DEF r
<1>4. proc' \in [Procs -> ProcRec] /\ proc'[p] = r /\ \A q \in Procs : q # p => proc'[q] = proc[q]
  BY <1>1, <1>3, SetProc
<1>5. QED
  BY <1>1, <1>3, <1>4, Zenon

(* A row is fetched for, or applied at once.                               *)
LEMMA BeginTypes ==
  ASSUME TypeOK, NEW p \in Procs, Begin(p)
  PROVE  /\ proc' \in [Procs -> ProcRec] /\ proc[p].batch # <<>>
         /\ proc'[p].batch = proc[p].batch
         /\ \A q \in Procs : q # p => proc'[q] = proc[q]
         /\ node' \in [Files -> NodeRec] /\ told' \in [Files -> {"none", "index", "delete"}]
         /\ faults' \in 0..MaxFaults
         /\ Served(p) \/ (proc'[p].phase = "fetch" /\ owed' = owed)
<1>1. proc[p].batch # <<>> /\ proc \in [Procs -> ProcRec] /\ proc[p] \in ProcRec
  BY BusyParts DEF Begin, Busy
<1>2. Current(p).snap \in 0..MaxEdits /\ Prev(p) \in NodeRec
  BY <1>1, CurrentType, TypeParts DEF Prev
<1>3. CASE Effect(p, Prev(p), Current(p).snap)
  BY <1>1, <1>2, <1>3, EffectTypes
<1>4. CASE /\ Set(p, [proc[p] EXCEPT !.phase = "fetch", !.prev = Prev(p)])
           /\ UNCHANGED <<node, index>>
  <2> DEFINE r == [proc[p] EXCEPT !.phase = "fetch", !.prev = Prev(p)]
  <2>1. "fetch" \in Phases
    BY DEF Phases
  <2>2. r \in ProcRec /\ r.batch = proc[p].batch /\ r.phase = "fetch"
    <3>1. r.phase = "fetch"
      BY <1>1, <1>2 DEF ProcRec
    <3>2. QED
      BY <1>1, <1>2, <2>1, <3>1, PrevUpdate, Zenon
  <2>3. Set(p, r)
    BY <1>4
  <2> HIDE DEF r
  <2>4. proc' \in [Procs -> ProcRec] /\ proc'[p] = r /\ \A q \in Procs : q # p => proc'[q] = proc[q]
    BY <1>1, <2>2, <2>3, SetProc
  <2>5. UNCHANGED <<node, told, owed, faults>>
    BY <1>4 DEF index
  <2>6. QED
    BY <1>1, <2>2, <2>4, <2>5, TypeParts
<1>5. QED
  BY <1>3, <1>4, Zenon DEF Begin

LEMMA ApplyTypes ==
  ASSUME TypeOK, NEW p \in Procs, Apply(p)
  PROVE  /\ proc' \in [Procs -> ProcRec] /\ proc[p].batch # <<>>
         /\ proc'[p].batch = proc[p].batch
         /\ \A q \in Procs : q # p => proc'[q] = proc[q]
         /\ node' \in [Files -> NodeRec] /\ told' \in [Files -> {"none", "index", "delete"}]
         /\ faults' \in 0..MaxFaults
         /\ Served(p)
<1>1. proc[p].batch # <<>> /\ proc[p].prev \in NodeRec /\ proc[p].got \in 0..MaxEdits
  BY BusyParts DEF Apply, Busy
<1>2. Effect(p, proc[p].prev, proc[p].got)
  BY DEF Apply
<1>3. QED
  BY <1>1, <1>2, EffectTypes

LEMMA ServedTypes ==
  ASSUME TypeOK, NEW p \in Procs, proc[p].batch # <<>>, Served(p)
  PROVE  owed' \in [Files -> BOOLEAN]
BY ServedOwes

(* What the processors change.                                             *)
LEMMA ProcTypes ==
  ASSUME TypeOK, NEW p \in Procs,
         \/ List(p) \/ Scan(p) \/ BeforeHookFails(p) \/ Begin(p)
         \/ Fetch(p) \/ Apply(p) \/ Finish(p) \/ FetchFails(p)
  PROVE  TypeOK'
<1>0. /\ disk \in [Files -> 0..MaxEdits] /\ edits \in [Files -> 0..MaxEdits]
      /\ watchQ \in Seq(Event) /\ up \in {"down", "starting", "up"}
      /\ queue \in Seq(Row) /\ node \in [Files -> NodeRec] /\ sync \in SyncRec
      /\ proc \in [Procs -> ProcRec] /\ told \in [Files -> {"none", "index", "delete"}]
      /\ owed \in [Files -> BOOLEAN] /\ faults \in 0..MaxFaults
  BY TypeParts, Zenon
<1>1. CASE List(p)
  <2>1. UNCHANGED <<disk, edits, watchQ, up, queue, node, sync, told, owed, faults>>
    BY <1>1 DEF List, index
  <2>2. QED
    BY <1>0, <1>1, <2>1, ListTypes, TypeParts
<1>2. CASE Scan(p)
  <2>1. UNCHANGED <<disk, edits, watchQ, up, queue, node, sync, told, owed, faults>>
    BY <1>2 DEF Scan, index
  <2>2. QED
    BY <1>0, <1>2, <2>1, ScanTypes, TypeParts
<1>3. CASE BeforeHookFails(p)
  <2>1. UNCHANGED <<disk, edits, watchQ, up, queue, node, sync, told, owed>>
    BY <1>3 DEF BeforeHookFails
  <2>2. faults' \in 0..MaxFaults
    BY <1>0, <1>3, EventsAssumption DEF BeforeHookFails
  <2>3. QED
    BY <1>0, <1>3, <2>1, <2>2, BlockTypes, TypeParts
<1>4. CASE Begin(p)
  <2>1. UNCHANGED <<disk, edits, watchQ, up, queue, sync>>
    BY <1>4 DEF Begin
  <2>2. /\ proc' \in [Procs -> ProcRec] /\ node' \in [Files -> NodeRec]
        /\ told' \in [Files -> {"none", "index", "delete"}] /\ faults' \in 0..MaxFaults
        /\ proc[p].batch # <<>> /\ (Served(p) \/ owed' = owed)
    BY <1>4, BeginTypes, Zenon
  <2>3. owed' \in [Files -> BOOLEAN]
    BY <1>0, <2>2, ServedTypes
  <2>4. QED
    BY <1>0, <2>1, <2>2, <2>3, TypeParts
<1>5. CASE Fetch(p)
  <2>1. UNCHANGED <<disk, edits, watchQ, up, queue, node, sync, told, owed, faults>>
    BY <1>5 DEF Fetch, index
  <2>2. QED
    BY <1>0, <1>5, <2>1, FetchTypes, TypeParts
<1>6. CASE Apply(p)
  <2>1. UNCHANGED <<disk, edits, watchQ, up, queue, sync>>
    BY <1>6 DEF Apply
  <2>2. /\ proc' \in [Procs -> ProcRec] /\ node' \in [Files -> NodeRec]
        /\ told' \in [Files -> {"none", "index", "delete"}] /\ faults' \in 0..MaxFaults
        /\ proc[p].batch # <<>> /\ Served(p)
    BY <1>6, ApplyTypes, Zenon
  <2>3. owed' \in [Files -> BOOLEAN]
    BY <2>2, ServedTypes
  <2>4. QED
    BY <1>0, <2>1, <2>2, <2>3, TypeParts
<1>7. CASE Finish(p)
  <2>1. UNCHANGED <<disk, edits, watchQ, up, node, sync, told, owed, faults>>
    BY <1>7 DEF Finish, index
  <2>2. queue' \in Seq(Row) /\ proc' \in [Procs -> ProcRec]
    BY <1>7, RemoveTable DEF Finish, Busy
  <2>3. QED
    BY <1>0, <2>1, <2>2, TypeParts
<1>8. CASE FetchFails(p)
  <2>1. UNCHANGED <<disk, edits, watchQ, up, node, sync, told>>
    BY <1>8 DEF FetchFails
  <2>2. proc[p].batch # <<>> /\ Served(p) /\ RemoveRow(p)
    BY <1>8 DEF FetchFails, Busy
  <2>3. queue' \in Seq(Row) /\ proc' \in [Procs -> ProcRec] /\ owed' \in [Files -> BOOLEAN]
    BY <2>2, RemoveTable, ServedTypes, Zenon
  <2>4. faults' \in 0..MaxFaults
    BY <1>0, <1>8, EventsAssumption DEF FetchFails
  <2>5. QED
    BY <1>0, <2>1, <2>3, <2>4, TypeParts
<1>9. QED
  BY <1>1, <1>2, <1>3, <1>4, <1>5, <1>6, <1>7, <1>8

LEMMA TypeStep == TypeOK /\ [Next]_vars => TypeOK'
<1> SUFFICES ASSUME TypeOK, [Next]_vars PROVE TypeOK'
  OBVIOUS
<1>1. CASE UNCHANGED vars
  <2>1. UNCHANGED <<disk, edits, watchQ, up, queue, node, sync, proc, told, owed, faults>>
    BY <1>1 DEF vars, index
  <2>2. QED
    BY <2>1, Zenon DEF TypeOK
<1>2. CASE Next
  <2>1. \/ \E f \in Files : Write(f) \/ Unlink(f) \/ SyncRead(f)
        \/ WatchEvent \/ Start \/ Crash \/ WatchReady \/ Reconcile \/ SyncFails \/ SyncEnds
        \/ \E p \in Procs : \/ List(p) \/ Scan(p) \/ BeforeHookFails(p) \/ Begin(p)
                            \/ Fetch(p) \/ Apply(p) \/ Finish(p) \/ FetchFails(p)
    BY <1>2, Zenon DEF Next
  <2>2. QED
    BY <2>1, HostTypes, SyncTypes, ProcTypes, Zenon
<1>3. QED
  BY <1>1, <1>2

(* Whatever is written, synced, processed, failed or restarted, the table, *)
(* the nodes and the two processors hold what their types say: what a full *)
(* sync and a batch of vfs.node-event-processor.ts keep across an await    *)
(* stays a row of the table's shape.                                       *)
THEOREM TypeCorrect == Spec => []TypeOK
<1>1. Init => TypeOK
  BY TypeInit
<1>2. TypeOK /\ [Next]_vars => TypeOK'
  BY TypeStep
<1>3. QED
  BY <1>1, <1>2, PTL DEF Spec

-----------------------------------------------------------------------------
(* No content change is forgotten. A processor between the after hook of a *)
(* row and its removal has served it: the row it then removes is no longer *)
(* owed. A rewrite of the row in between makes it another one, which the   *)
(* processor does not remove.                                              *)
Emptied(p) == proc[p].batch = <<>> => proc[p].phase = "next"
HookServed(p) == proc[p].batch # <<>> /\ proc[p].phase = "hook" =>
  (Current(p).t = "update_content" /\ Current(p).same => ~owed[Current(p).f])
OwedInv == /\ TypeOK
           /\ OwedHasRow
           /\ \A p \in Procs : Emptied(p) /\ HookServed(p)

(* A processor that is left alone, or changes its state only.              *)
LEMMA LeftAlone ==
  ASSUME TypeOK, NEW p \in Procs, Emptied(p), HookServed(p),
         proc'[p].batch = proc[p].batch, proc'[p].phase = proc[p].phase,
         \A f \in Files : owed'[f] => owed[f]
  PROVE  Emptied(p)' /\ HookServed(p)'
<1>1. Current(p)' = Current(p)
  BY DEF Current
<1>2. Emptied(p)'
  BY DEF Emptied
<1>3. HookServed(p)'
  <2> SUFFICES ASSUME proc[p].batch # <<>>, proc[p].phase = "hook",
                      Current(p).t = "update_content", Current(p).same
               PROVE  ~owed'[Current(p).f]
    BY <1>1, Zenon DEF HookServed
  <2>1. Current(p).f \in Files
    BY CurrentType
  <2>2. ~owed[Current(p).f]
    BY Zenon DEF HookServed
  <2>3. QED
    BY <2>1, <2>2, Zenon
<1>4. QED
  BY <1>2, <1>3

(* A processor that does not enter its hook.                               *)
LEMMA OutOfHook ==
  ASSUME NEW p \in Procs, proc'[p].phase # "hook",
         proc'[p].batch = <<>> => proc'[p].phase = "next"
  PROVE  Emptied(p)' /\ HookServed(p)'
BY Zenon DEF Emptied, HookServed

(* A row is not owed once it is served.                                    *)
LEMMA JustServed ==
  ASSUME TypeOK, NEW p \in Procs, proc[p].batch # <<>>, proc'[p].batch = proc[p].batch, Served(p)
  PROVE  Emptied(p)' /\ HookServed(p)'
<1>1. Current(p)' = Current(p)
  BY DEF Current
<1>2. Current(p).t = "update_content" /\ Current(p).same => ~owed'[Current(p).f]
  BY ServedOwes
<1>3. HookServed(p)'
  BY <1>1, <1>2, Zenon DEF HookServed
<1>4. Emptied(p)'
  BY DEF Emptied
<1>5. QED
  BY <1>3, <1>4

(* What is owed still has its row when the table only changes elsewhere.   *)
LEMMA StillHasRow ==
  ASSUME OwedHasRow, \A f \in Files : owed'[f] => owed[f],
         \A f \in Files : owed'[f] => \A i \in DOMAIN queue :
           queue[i].f = f /\ queue[i].t = "update_content" =>
             \E j \in DOMAIN queue' : queue'[j].f = f /\ queue'[j].t = "update_content"
  PROVE  OwedHasRow'
BY Zenon DEF OwedHasRow, HasRow

LEMMA AgedHasRow ==
  ASSUME TypeOK, OwedHasRow, queue' = Aged(queue), owed' = owed
  PROVE  OwedHasRow'
<1>1. queue \in Seq(Row)
  BY TypeParts
<1>2. /\ DOMAIN queue' = DOMAIN queue
      /\ \A i \in DOMAIN queue : queue'[i].f = queue[i].f /\ queue'[i].t = queue[i].t
  BY <1>1, AgedRows
<1>3. ASSUME NEW f \in Files, owed'[f] PROVE HasRow(f, "update_content")'
  <2>1. owed[f]
    BY <1>3, Zenon
  <2>2. PICK i \in DOMAIN queue : queue[i].f = f /\ queue[i].t = "update_content"
    BY <2>1, Zenon DEF OwedHasRow, HasRow
  <2>3. i \in DOMAIN queue' /\ queue'[i].f = f /\ queue'[i].t = "update_content"
    BY <1>2, <2>2
  <2>4. QED
    BY <2>3, Zenon DEF HasRow
<1>4. QED
  BY <1>3, Zenon DEF OwedHasRow

(* Rows are inserted, in the place of those of their keys: each owed file  *)
(* has a row in one of the three parts of the new table.                   *)
LEMMA InsertHasRow ==
  ASSUME TypeOK, OwedHasRow, NEW rows \in Seq(Row), NEW before \in Seq(Row), NEW after \in Seq(Row),
         Insert(rows, before, after),
         \A i \in DOMAIN queue :
           \/ \E j \in DOMAIN before : before[j].f = queue[i].f /\ before[j].t = queue[i].t
           \/ \E j \in DOMAIN after : after[j].f = queue[i].f /\ after[j].t = queue[i].t
  PROVE  OwedHasRow'
<1> SUFFICES ASSUME NEW f \in Files, owed'[f] PROVE HasRow(f, "update_content")'
  BY Zenon DEF OwedHasRow
<1>1. ASSUME NEW i \in DOMAIN rows, rows[i].f = f, rows[i].t = "update_content"
      PROVE  HasRow(f, "update_content")'
  <2>1. PICK j \in DOMAIN queue' : queue'[j] = rows[i]
    BY InsertTable, Zenon
  <2>2. QED
    BY <1>1, <2>1, Zenon DEF HasRow
<1>2. CASE \A i \in DOMAIN rows : ~(rows[i].f = f /\ rows[i].t = "update_content")
  <2>1. owed[f]
    BY <1>2, InsertOwes, Zenon
  <2>2. PICK i \in DOMAIN queue : queue[i].f = f /\ queue[i].t = "update_content"
    BY <2>1, Zenon DEF OwedHasRow, HasRow
  <2>3. \A r : r.f = f /\ r.t = "update_content" => ~Replaced(r, rows)
    BY <1>2, Zenon DEF Replaced, SameKey
  <2>4. CASE \E j \in DOMAIN before : before[j].f = queue[i].f /\ before[j].t = queue[i].t
    <3>1. PICK j \in DOMAIN before : before[j].f = f /\ before[j].t = "update_content"
      BY <2>2, <2>4
    <3>2. \E x \in DOMAIN queue' : queue'[x] = before[j]
      BY <2>3, <3>1, InsertTable, Zenon
    <3>3. QED
      BY <3>1, <3>2, Zenon DEF HasRow
  <2>5. CASE \E j \in DOMAIN after : after[j].f = queue[i].f /\ after[j].t = queue[i].t
    <3>1. PICK j \in DOMAIN after : after[j].f = f /\ after[j].t = "update_content"
      BY <2>2, <2>5
    <3>2. \E x \in DOMAIN queue' : queue'[x] = after[j]
      BY <2>3, <3>1, InsertTable, Zenon
    <3>3. QED
      BY <3>1, <3>2, Zenon DEF HasRow
  <2>6. QED
    BY <2>2, <2>4, <2>5, Zenon
<1>3. QED
  BY <1>1, <1>2, Zenon

(* A row that is being processed and is rewritten is no longer the row of  *)
(* the table.                                                              *)
LEMMA InsertHook ==
  ASSUME TypeOK, NEW rows, NEW before, NEW after, Insert(rows, before, after),
         NEW p \in Procs, Emptied(p), HookServed(p)
  PROVE  Emptied(p)' /\ HookServed(p)'
<1> DEFINE b == proc[p].batch
<1>1. proc'[p].batch = Rechecked(b, rows) /\ proc'[p].phase = proc[p].phase
  BY InsertProc, Zenon
<1>2. b \in Seq(Listed)
  BY BusyParts
<1> HIDE DEF b
<1>3. /\ Rechecked(b, rows) \in Seq(Listed) /\ DOMAIN Rechecked(b, rows) = DOMAIN b
      /\ \A i \in DOMAIN b : Rechecked(b, rows)[i] = Checked(b[i], rows)
  BY <1>2, RecheckedType DEF Rechecked
<1>4. Rechecked(b, rows) = <<>> <=> b = <<>>
  BY <1>2, <1>3
<1>5. Emptied(p)'
  BY <1>1, <1>4, Zenon DEF Emptied, b
<1>6. HookServed(p)'
  <2> SUFFICES ASSUME proc'[p].batch # <<>>, proc[p].phase = "hook",
                      Current(p)'.t = "update_content", Current(p)'.same
               PROVE  ~owed'[Current(p)'.f]
    BY <1>1, Zenon DEF HookServed
  <2>1. b # <<>> /\ 1 \in DOMAIN b
    BY <1>1, <1>2, <1>4
  <2>2. Current(p)' = Rechecked(b, rows)[1] /\ Current(p) = b[1] /\ b[1] \in Listed
    BY <1>1, <1>2, <1>3, <2>1 DEF Current, b
  <2>3. Current(p)' = Checked(Current(p), rows)
    BY <1>3, <2>1, <2>2
  <2>4. /\ Current(p)'.f = Current(p).f /\ Current(p)'.t = Current(p).t
        /\ Current(p)'.same => Current(p).same /\ ~Replaced(Current(p), rows)
    BY <2>2, <2>3, CheckedType
  <2>5. Current(p).f \in Files
    BY <2>1, CurrentType DEF b
  <2>6. ~owed[Current(p).f]
    BY <2>1, <2>4, Zenon DEF HookServed, b
  <2>7. \A i \in DOMAIN rows : ~(rows[i].f = Current(p).f /\ rows[i].t = "update_content")
    BY <2>4, Zenon DEF Replaced, SameKey
  <2>8. ~owed'[Current(p).f]
    BY <2>5, <2>6, <2>7, InsertOwes, Zenon
  <2>9. QED
    BY <2>4, <2>8, Zenon
<1>7. QED
  BY <1>5, <1>6

(* The steps that neither owe nor serve, and keep the table.               *)
LEMMA SameRows ==
  ASSUME OwedHasRow, queue' = queue, owed' = owed
  PROVE  OwedHasRow'
BY DEF OwedHasRow, HasRow

LEMMA OwedHost ==
  ASSUME OwedInv,
         \/ \E f \in Files : Write(f) \/ Unlink(f)
         \/ WatchEvent \/ Start \/ Crash \/ WatchReady \/ Reconcile
  PROVE  OwedHasRow' /\ \A p \in Procs : Emptied(p)' /\ HookServed(p)'
<1>0. TypeOK /\ OwedHasRow /\ \A p \in Procs : Emptied(p) /\ HookServed(p)
  BY Zenon DEF OwedInv
<1>q. queue \in Seq(Row) /\ sync \in SyncRec /\ watchQ \in Seq(Event)
  BY <1>0, TypeParts
<1>p. ASSUME proc' = proc, owed' = owed
      PROVE  \A p \in Procs : Emptied(p)' /\ HookServed(p)'
  BY <1>0, <1>p, LeftAlone, Zenon
<1>o. ASSUME NEW s, proc' = [p \in Procs |-> [OffProc EXCEPT !.state = s]]
      PROVE  \A p \in Procs : Emptied(p)' /\ HookServed(p)'
  <2>1. \A p \in Procs : proc'[p].phase = "next"
    BY <1>o DEF OffProc
  <2>2. QED
    BY <2>1, OutOfHook
<1>1. ASSUME NEW f \in Files, Write(f) \/ Unlink(f)
      PROVE  OwedHasRow' /\ \A p \in Procs : Emptied(p)' /\ HookServed(p)'
  <2>1. queue' = queue /\ owed' = owed /\ proc' = proc
    BY <1>1 DEF Write, Unlink, index
  <2>2. QED
    BY <1>0, <1>p, <2>1, SameRows
<1>2. CASE WatchEvent
  <2>1. Head(watchQ) \in Event
    BY <1>q, <1>2 DEF WatchEvent
  <2>2. Head(watchQ).f \in Files /\ Head(watchQ).kind \in {"add", "update", "delete"}
    BY <2>1, Zenon DEF Event
  <2> DEFINE rows == DiffRows(Head(watchQ).f, Head(watchQ).kind, 0)
  <2>3. rows \in Seq(Row) /\ <<>> \in Seq(Row)
    <3>1. <<>> \in Seq(Row) /\ 0 \in 0..MaxEdits
      BY Zero
    <3>2. rows \in Seq(Row)
      BY <1>q, <2>2, <3>1, DiffRowsType, Zenon
    <3>3. QED
      BY <3>1, <3>2
  <2>4. Insert(rows, queue, <<>>)
    BY <1>2 DEF WatchEvent
  <2> HIDE DEF rows
  <2>5. OwedHasRow'
    BY <1>0, <1>q, <2>3, <2>4, InsertHasRow
  <2>6. \A p \in Procs : Emptied(p)' /\ HookServed(p)'
    BY <1>0, <2>4, InsertHook, Zenon
  <2>7. QED
    BY <2>5, <2>6
<1>3. CASE Start
  <2>1. queue' = queue /\ owed' = owed /\ proc' = [p \in Procs |-> [OffProc EXCEPT !.state = "run"]]
    BY <1>3 DEF Start, index
  <2>2. QED
    BY <1>0, <1>o, <2>1, SameRows
<1>4. CASE Crash
  <2>1. queue' = Aged(queue) /\ owed' = owed /\ proc' = [p \in Procs |-> OffProc]
    BY <1>4 DEF Crash
  <2>2. OffProc = [OffProc EXCEPT !.state = "off"]
    BY DEF OffProc
  <2>3. QED
    BY <1>0, <1>o, <2>1, <2>2, AgedHasRow
<1>5. CASE WatchReady \/ Reconcile
  <2>1. queue' = Aged(queue) /\ owed' = owed /\ proc' = proc
    BY <1>5 DEF WatchReady, Reconcile, BeginSync, index
  <2>2. QED
    BY <1>0, <1>p, <2>1, AgedHasRow
<1>6. QED
  BY <1>1, <1>2, <1>3, <1>4, <1>5

LEMMA OwedSync ==
  ASSUME OwedInv, (\E f \in Files : SyncRead(f)) \/ SyncFails \/ SyncEnds
  PROVE  OwedHasRow' /\ \A p \in Procs : Emptied(p)' /\ HookServed(p)'
<1>0. TypeOK /\ OwedHasRow /\ \A p \in Procs : Emptied(p) /\ HookServed(p)
  BY Zenon DEF OwedInv
<1>q. queue \in Seq(Row)
  BY <1>0, TypeParts
<1>p. ASSUME proc' = proc, owed' = owed
      PROVE  \A p \in Procs : Emptied(p)' /\ HookServed(p)'
  BY <1>0, <1>p, LeftAlone, Zenon
<1>1. ASSUME NEW f \in Files, SyncRead(f)
      PROVE  OwedHasRow' /\ \A p \in Procs : Emptied(p)' /\ HookServed(p)'
  <2>1. queue' = queue /\ owed' = owed /\ proc' = proc
    BY <1>1 DEF SyncRead, index
  <2>2. QED
    BY <1>0, <1>p, <2>1, SameRows
<1>2. CASE SyncFails
  <2>1. queue' = Aged(queue) /\ owed' = owed /\ proc' = proc
    BY <1>2 DEF SyncFails, index
  <2>2. QED
    BY <1>0, <1>p, <2>1, AgedHasRow
<1>3. CASE SyncEnds
  <2> DEFINE rows   == Aged(FlattenSeq([f \in Files |-> SyncDiff(f)]))
             old    == {r \in Row : ~r.young}
             young  == {r \in Row : r.young}
             before == Where(queue, old)
             later  == Where(queue, young)
             after  == Aged(later)
  <2>1. Insert(rows, before, after)
    BY <1>3 DEF SyncEnds
  <2>2. rows \in Seq(Row)
    BY <1>0, SyncRows
  <2>a. \A i \in DOMAIN queue : queue[i] \in old \/ queue[i] \in young
    BY <1>q
  <2> HIDE DEF rows, old, young
  <2>3. /\ before \in Seq(Row)
        /\ \A i \in DOMAIN queue : queue[i] \in old => \E j \in DOMAIN before : before[j] = queue[i]
    BY <1>q, WhereTable, Zenon
  <2>4. /\ later \in Seq(Row)
        /\ \A i \in DOMAIN queue : queue[i] \in young => \E j \in DOMAIN later : later[j] = queue[i]
    BY <1>q, WhereTable, Zenon
  <2> HIDE DEF before, later
  <2>5. /\ after \in Seq(Row) /\ DOMAIN after = DOMAIN later
        /\ \A j \in DOMAIN later : after[j].f = later[j].f /\ after[j].t = later[j].t
    BY <2>4, AgedRows
  <2> HIDE DEF after
  <2>6. ASSUME NEW i \in DOMAIN queue
        PROVE  \/ \E j \in DOMAIN before : before[j].f = queue[i].f /\ before[j].t = queue[i].t
               \/ \E j \in DOMAIN after : after[j].f = queue[i].f /\ after[j].t = queue[i].t
    <3>1. CASE queue[i] \in old
      BY <2>3, <3>1
    <3>2. CASE queue[i] \in young
      BY <2>4, <2>5, <3>2
    <3>3. QED
      BY <2>a, <3>1, <3>2
  <2>7. OwedHasRow'
    BY <1>0, <2>1, <2>2, <2>3, <2>5, <2>6, InsertHasRow
  <2>8. \A p \in Procs : Emptied(p)' /\ HookServed(p)'
    BY <1>0, <2>1, InsertHook, Zenon
  <2>9. QED
    BY <2>7, <2>8
<1>4. QED
  BY <1>1, <1>2, <1>3

(* The row that is removed is that of a served change, or of another type. *)
LEMMA RemoveHasRow ==
  ASSUME OwedInv, NEW p \in Procs, proc[p].batch # <<>>, RemoveRow(p),
         \A f \in Files : owed'[f] => owed[f],
         Current(p).t = "update_content" /\ Current(p).same => ~owed'[Current(p).f]
  PROVE  OwedHasRow' /\ \A q \in Procs : Emptied(q)' /\ HookServed(q)'
<1>0. TypeOK /\ OwedHasRow /\ \A q \in Procs : Emptied(q) /\ HookServed(q)
  BY Zenon DEF OwedInv
<1>1. /\ proc'[p].phase = "next"
      /\ \A q \in Procs : q # p => proc'[q].batch = proc[q].batch /\ proc'[q].phase = proc[q].phase
      /\ \A i \in DOMAIN queue : ~(Current(p).same /\ SameKey(queue[i], Current(p))) =>
           \E j \in DOMAIN queue' : queue'[j] = queue[i]
  BY <1>0, RemoveTable, Zenon
<1>2. ASSUME NEW f \in Files, owed'[f] PROVE HasRow(f, "update_content")'
  <2>1. PICK i \in DOMAIN queue : queue[i].f = f /\ queue[i].t = "update_content"
    BY <1>0, <1>2, Zenon DEF OwedHasRow, HasRow
  <2>2. ~(Current(p).same /\ SameKey(queue[i], Current(p)))
    BY <1>2, <2>1, Zenon DEF SameKey
  <2>3. PICK j \in DOMAIN queue' : queue'[j] = queue[i]
    BY <1>1, <2>2, Zenon
  <2>4. QED
    BY <2>1, <2>3, Zenon DEF HasRow
<1>3. ASSUME NEW q \in Procs, q # p PROVE Emptied(q)' /\ HookServed(q)'
  BY <1>0, <1>1, <1>3, LeftAlone, Zenon
<1>4. Emptied(p)' /\ HookServed(p)'
  BY <1>1, OutOfHook
<1>5. QED
  BY <1>2, <1>3, <1>4, Zenon DEF OwedHasRow

LEMMA OwedProc ==
  ASSUME OwedInv, NEW p \in Procs,
         \/ List(p) \/ Scan(p) \/ BeforeHookFails(p) \/ Begin(p)
         \/ Fetch(p) \/ Apply(p) \/ Finish(p) \/ FetchFails(p)
  PROVE  OwedHasRow' /\ \A q \in Procs : Emptied(q)' /\ HookServed(q)'
<1>0. TypeOK /\ OwedHasRow /\ \A q \in Procs : Emptied(q) /\ HookServed(q)
  BY Zenon DEF OwedInv
<1>a. ASSUME \A f \in Files : owed'[f] => owed[f], queue' = queue,
             \A q \in Procs : q # p => proc'[q] = proc[q]
      PROVE  OwedHasRow' /\ \A q \in Procs : q # p => Emptied(q)' /\ HookServed(q)'
  <2>1. OwedHasRow'
    BY <1>0, <1>a, StillHasRow
  <2>2. ASSUME NEW q \in Procs, q # p PROVE Emptied(q)' /\ HookServed(q)'
    BY <1>0, <1>a, <2>2, LeftAlone
  <2>3. QED
    BY <2>1, <2>2
<1>s. ASSUME Served(p), proc[p].batch # <<>> PROVE \A f \in Files : owed'[f] => owed[f]
  BY <1>0, <1>s, ServedOwes
<1>1. CASE List(p)
  <2>1. queue' = queue /\ owed' = owed
    BY <1>1 DEF List, index
  <2>2. proc[p].phase = "next"
    BY <1>0, <1>1, ListTypes DEF Emptied
  <2>3. proc'[p].phase = "next"
    BY <1>0, <1>1, <2>2, ListTypes DEF OffProc
  <2>4. Emptied(p)' /\ HookServed(p)'
    BY <2>3, OutOfHook
  <2>5. QED
    BY <1>0, <1>1, <1>a, <2>1, <2>4, ListTypes
<1>2. CASE Scan(p)
  <2>1. queue' = queue /\ owed' = owed
    BY <1>2 DEF Scan, index
  <2>2. QED
    BY <1>0, <1>2, <2>1, ScanTypes, SameRows, LeftAlone
<1>3. CASE BeforeHookFails(p)
  <2>1. queue' = queue /\ owed' = owed
    BY <1>3 DEF BeforeHookFails
  <2>2. proc'[p].phase = "next"
    BY <1>0, <1>3, BlockTypes DEF OffProc
  <2>3. Emptied(p)' /\ HookServed(p)'
    BY <2>2, OutOfHook
  <2>4. QED
    BY <1>0, <1>3, <1>a, <2>1, <2>3, BlockTypes
<1>4. CASE Begin(p)
  <2>1. queue' = queue
    BY <1>4 DEF Begin
  <2>2. /\ proc[p].batch # <<>> /\ proc'[p].batch = proc[p].batch
        /\ \A q \in Procs : q # p => proc'[q] = proc[q]
        /\ Served(p) \/ (proc'[p].phase = "fetch" /\ owed' = owed)
    BY <1>0, <1>4, BeginTypes, Zenon
  <2>3. Emptied(p)' /\ HookServed(p)'
    <3>1. CASE Served(p)
      BY <1>0, <2>2, <3>1, JustServed
    <3>2. CASE proc'[p].phase = "fetch"
      BY <2>2, <3>2, OutOfHook
    <3>3. QED
      BY <2>2, <3>1, <3>2
  <2>4. \A f \in Files : owed'[f] => owed[f]
    BY <1>s, <2>2, Zenon
  <2>5. QED
    BY <1>a, <2>1, <2>2, <2>3, <2>4
<1>5. CASE Fetch(p)
  <2>1. queue' = queue /\ owed' = owed
    BY <1>5 DEF Fetch, index
  <2>2. Emptied(p)' /\ HookServed(p)'
    BY <1>0, <1>5, FetchTypes, OutOfHook
  <2>3. QED
    BY <1>0, <1>5, <1>a, <2>1, <2>2, FetchTypes
<1>6. CASE Apply(p)
  <2>1. queue' = queue
    BY <1>6 DEF Apply
  <2>2. /\ proc[p].batch # <<>> /\ proc'[p].batch = proc[p].batch
        /\ \A q \in Procs : q # p => proc'[q] = proc[q]
        /\ Served(p)
    BY <1>0, <1>6, ApplyTypes, Zenon
  <2>3. Emptied(p)' /\ HookServed(p)'
    BY <1>0, <2>2, JustServed
  <2>4. QED
    BY <1>a, <1>s, <2>1, <2>2, <2>3
<1>7. CASE Finish(p)
  <2>1. owed' = owed /\ RemoveRow(p) /\ proc[p].batch # <<>> /\ proc[p].phase = "hook"
    BY <1>7 DEF Finish, Busy, index
  <2>2. Current(p).t = "update_content" /\ Current(p).same => ~owed'[Current(p).f]
    BY <1>0, <2>1, Zenon DEF HookServed
  <2>3. QED
    BY <2>1, <2>2, RemoveHasRow, Zenon
<1>8. CASE FetchFails(p)
  <2>1. Served(p) /\ RemoveRow(p) /\ proc[p].batch # <<>>
    BY <1>8 DEF FetchFails, Busy
  <2>2. Current(p).t = "update_content" /\ Current(p).same => ~owed'[Current(p).f]
    BY <1>0, <2>1, ServedOwes, Zenon
  <2>3. QED
    BY <1>s, <2>1, <2>2, RemoveHasRow, Zenon
<1>9. QED
  BY <1>1, <1>2, <1>3, <1>4, <1>5, <1>6, <1>7, <1>8

LEMMA OwedStep == OwedInv /\ [Next]_vars => OwedInv'
<1> SUFFICES ASSUME OwedInv, [Next]_vars PROVE OwedInv'
  OBVIOUS
<1>1. TypeOK'
  BY TypeStep, Zenon DEF OwedInv
<1>2. OwedHasRow' /\ \A p \in Procs : Emptied(p)' /\ HookServed(p)'
  <2>1. CASE UNCHANGED vars
    <3>1. queue' = queue /\ owed' = owed /\ proc' = proc
      BY <2>1 DEF vars, index
    <3>2. OwedHasRow'
      BY <3>1, SameRows DEF OwedInv
    <3>3. \A p \in Procs : Emptied(p)' /\ HookServed(p)'
      BY <3>1, LeftAlone, Zenon DEF OwedInv
    <3>4. QED
      BY <3>2, <3>3
  <2>2. CASE Next
    <3>1. \/ \E f \in Files : Write(f) \/ Unlink(f) \/ SyncRead(f)
          \/ WatchEvent \/ Start \/ Crash \/ WatchReady \/ Reconcile \/ SyncFails \/ SyncEnds
          \/ \E p \in Procs : \/ List(p) \/ Scan(p) \/ BeforeHookFails(p) \/ Begin(p)
                              \/ Fetch(p) \/ Apply(p) \/ Finish(p) \/ FetchFails(p)
      BY <2>2, Zenon DEF Next
    <3>2. QED
      BY <3>1, OwedHost, OwedSync, OwedProc, Zenon
  <2>3. QED
    BY <2>1, <2>2
<1>3. QED
  BY <1>1, <1>2, Zenon DEF OwedInv

(* A content change once recorded is not forgotten: until it was applied   *)
(* and the indexer asked, or that failed and was logged, its row is in     *)
(* vfs_node_events, whatever full syncs, crashes, blocked hooks and        *)
(* rewrites of the row come between.                                       *)
THEOREM NoneForgotten == Spec => []OwedHasRow
<1>1. Init => OwedInv
  <2> SUFFICES ASSUME Init PROVE OwedInv
    OBVIOUS
  <2>1. TypeOK
    BY TypeInit
  <2>2. OwedHasRow
    BY DEF Init, OwedHasRow
  <2>3. \A p \in Procs : proc[p].phase = "next"
    BY DEF Init, OffProc
  <2>4. \A p \in Procs : Emptied(p) /\ HookServed(p)
    BY <2>3 DEF Emptied, HookServed
  <2>5. QED
    BY <2>1, <2>2, <2>4, Zenon DEF OwedInv
<1>2. OwedInv /\ [Next]_vars => OwedInv'
  BY OwedStep
<1>3. OwedInv => OwedHasRow
  BY Zenon DEF OwedInv
<1>4. QED
  BY <1>1, <1>2, <1>3, PTL DEF Spec

=============================================================================
