---------------------------- MODULE VfsMountsProofs ----------------------------
(***************************************************************************)
(* Proofs about VfsMounts, for any number of mounts, faults and edits: the *)
(* types, that a removed mount is down, and that a closed service keeps    *)
(* nothing running. The map of syncers is filtered by a recursive          *)
(* function; the first section proves what it returns, by induction on the *)
(* length.                                                                 *)
(***************************************************************************)
EXTENDS VfsMounts, WellFoundedInduction, TLAPS

(* Induction, by a least counterexample.                                   *)
LEMMA Least ==
  ASSUME NEW S, S \subseteq Nat, S # {}
  PROVE  \E n \in S : \A m \in S : n <= m
<1> DEFINE R == OpToRel(<, Nat)
<1>1. IsWellFoundedOn(R, Nat)
  BY NatLessThanWellFounded, Zenon
<1>2. \A x, y \in S : y < x => <<y, x>> \in R
  BY DEF OpToRel
<1> HIDE DEF R
<1>3. PICK x \in S : \A y \in S : <<y, x>> \notin R
  BY <1>1, WFMin, Zenon
<1>4. \A y \in S : ~(y < x)
  BY <1>2, <1>3
<1>5. QED
  BY <1>4

LEMMA UpTo ==
  ASSUME NEW S, NEW n \in Nat, 0 \in S, \A i \in 1..n : i - 1 \in S => i \in S
  PROVE  \A i \in 0..n : i \in S
<1> SUFFICES ASSUME NEW i \in 0..n, i \notin S PROVE FALSE
  OBVIOUS
<1> DEFINE F == {j \in 0..n : j \notin S}
<1>1. F \subseteq Nat /\ F # {}
  OBVIOUS
<1>2. PICK j \in F : \A m \in F : j <= m
  BY <1>1, Least, Zenon
<1>3. j \in 1..n /\ j - 1 \in 0..n /\ j - 1 \notin F
  BY <1>2
<1>4. QED
  BY <1>2, <1>3

(* Keeping as it is computed: k[i] is what the first i ids leave.          *)
KeptStep(ids, set, k, i) ==
  IF i = 0 THEN <<>> ELSE IF ids[i] \in set THEN Append(k[i - 1], ids[i]) ELSE k[i - 1]
Kept(ids, set, n, k) == k = [i \in 0..n |-> KeptStep(ids, set, k, i)]

LEMMA KeptExists ==
  ASSUME NEW ids, NEW set, NEW n \in Nat
  PROVE  \E k : Kept(ids, set, n, k)
<1> DEFINE G == {m \in Nat : \E k : Kept(ids, set, m, k)}
<1>1. 0 \in G
  <2>1. Kept(ids, set, 0, [i \in 0..0 |-> <<>>])
    BY DEF Kept, KeptStep
  <2>2. QED
    BY <2>1
<1>2. ASSUME NEW m \in 1..n, m - 1 \in G PROVE m \in G
  <2>1. PICK k : Kept(ids, set, m - 1, k)
    BY <1>2
  <2> DEFINE h == [i \in 0..m |-> IF i = m THEN KeptStep(ids, set, k, m) ELSE k[i]]
  <2>2. h = [i \in 0..m |-> h[i]]
    OBVIOUS
  <2>3. h[m] = KeptStep(ids, set, k, m) /\ \A i \in 0..(m - 1) : h[i] = k[i]
    OBVIOUS
  <2>4. \A i \in 0..(m - 1) : k[i] = KeptStep(ids, set, k, i)
    BY <2>1 DEF Kept
  <2> HIDE DEF h
  <2>5. \A i \in 0..m : h[i] = KeptStep(ids, set, h, i)
    BY <2>3, <2>4 DEF KeptStep
  <2>6. Kept(ids, set, m, h)
    BY <2>2, <2>5 DEF Kept
  <2>7. QED
    BY <2>6
<1> HIDE DEF G
<1>3. n \in G
  BY <1>1, <1>2, UpTo
<1>4. QED
  BY <1>3 DEF G

(* Distinct mounts, one after the other.                                   *)
List(ids) == ids \in Seq(Mounts) /\ IsInjective(ids)

(* What a new last element makes of a list.                                *)
LEMMA Appended ==
  ASSUME NEW ids, List(ids), NEW m \in Mounts, m \notin ToSet(ids)
  PROVE  List(Append(ids, m)) /\ ToSet(Append(ids, m)) = ToSet(ids) \cup {m}
<1>1. /\ ids \in Seq(Mounts) /\ Len(ids) \in Nat /\ DOMAIN ids = 1..Len(ids)
      /\ \A i, j \in 1..Len(ids) : ids[i] = ids[j] => i = j
      /\ \A i \in 1..Len(ids) : ids[i] # m
  BY DEF List, IsInjective, ToSet
<1> DEFINE r == Append(ids, m)
           n == Len(ids)
<1>2. /\ r \in Seq(Mounts) /\ DOMAIN r = 1..(n + 1) /\ r[n + 1] = m
      /\ \A i \in 1..n : r[i] = ids[i]
  BY <1>1
<1> HIDE DEF r
<1>3. \A i, j \in 1..(n + 1) : r[i] = r[j] => i = j
  <2> SUFFICES ASSUME NEW i \in 1..(n + 1), NEW j \in 1..(n + 1), r[i] = r[j] PROVE i = j
    OBVIOUS
  <2>1. CASE i \in 1..n /\ j \in 1..n
    BY <1>1, <1>2, <2>1
  <2>2. CASE i = n + 1 \/ j = n + 1
    BY <1>1, <1>2, <2>2
  <2>3. QED
    BY <1>1, <2>1, <2>2
<1>4. ToSet(r) = ToSet(ids) \cup {m}
  <2>1. ToSet(r) = {r[i] : i \in 1..(n + 1)} /\ ToSet(ids) = {ids[i] : i \in 1..n}
    BY <1>1, <1>2 DEF ToSet
  <2>2. \A x : x \in ToSet(r) => x \in ToSet(ids) \cup {m}
    BY <1>1, <1>2, <2>1
  <2>3. \A x : x \in ToSet(ids) => x \in ToSet(r)
    BY <1>1, <1>2, <2>1
  <2>4. m \in ToSet(r)
    BY <1>1, <1>2, <2>1
  <2>5. QED
    BY <2>2, <2>3, <2>4
<1>5. QED
  BY <1>2, <1>3, <1>4 DEF List, IsInjective, r

(* A list loses those that are not in the set, and no other.               *)
LEMMA KeepingList ==
  ASSUME NEW ids, List(ids), NEW set
  PROVE  List(Keeping(ids, set)) /\ ToSet(Keeping(ids, set)) = ToSet(ids) \cap set
<1> DEFINE n == Len(ids)
           k == CHOOSE k : Kept(ids, set, n, k)
           P(i) == {ids[j] : j \in 1..i} \cap set
<1>0. /\ ids \in Seq(Mounts) /\ n \in Nat /\ DOMAIN ids = 1..n
      /\ \A i, j \in 1..n : ids[i] = ids[j] => i = j
  BY DEF List, IsInjective
<1>1. Keeping(ids, set) = k[n]
  BY DEF Keeping, Kept, KeptStep
<1>2. Kept(ids, set, n, k)
  BY <1>0, KeptExists, Zenon
<1> HIDE DEF k
<1> DEFINE S == {i \in 0..n : List(k[i]) /\ ToSet(k[i]) = P(i)}
<1>3. \A i \in 0..n : k[i] = KeptStep(ids, set, k, i)
  BY <1>2 DEF Kept
<1>4. 0 \in S
  <2>1. k[0] = <<>> /\ 0 \in 0..n
    BY <1>0, <1>3 DEF KeptStep
  <2>2. List(<<>>) /\ ToSet(<<>>) = {}
    BY DEF List, IsInjective, ToSet
  <2>3. P(0) = {}
    OBVIOUS
  <2>4. QED
    BY <2>1, <2>2, <2>3
<1>5. ASSUME NEW i \in 1..n, i - 1 \in S PROVE i \in S
  <2> DEFINE b == k[i - 1]
  <2>1. List(b) /\ ToSet(b) = P(i - 1) /\ ids[i] \in Mounts
    BY <1>0, <1>5
  <2>2. k[i] = IF ids[i] \in set THEN Append(b, ids[i]) ELSE b
    BY <1>0, <1>3 DEF KeptStep
  <2>3. ids[i] \notin P(i - 1)
    BY <1>0
  <2>4. P(i) = IF ids[i] \in set THEN P(i - 1) \cup {ids[i]} ELSE P(i - 1)
    <3>1. 1..i = 1..(i - 1) \cup {i}
      BY <1>0
    <3>2. QED
      BY <3>1
  <2> HIDE DEF b, P
  <2>5. List(k[i]) /\ ToSet(k[i]) = P(i)
    <3>1. CASE ids[i] \in set
      <4>1. ids[i] \notin ToSet(b)
        BY <2>1, <2>3
      <4>2. List(Append(b, ids[i])) /\ ToSet(Append(b, ids[i])) = ToSet(b) \cup {ids[i]}
        BY <2>1, <4>1, Appended
      <4>3. QED
        BY <2>1, <2>2, <2>4, <3>1, <4>2
    <3>2. CASE ids[i] \notin set
      BY <2>1, <2>2, <2>4, <3>2
    <3>3. QED
      BY <3>1, <3>2
  <2>6. QED
    BY <1>0, <2>5
<1> HIDE DEF S
<1>6. n \in S
  <2>1. \A i \in 1..n : i - 1 \in S => i \in S
    BY <1>5
  <2>2. \A i \in 0..n : i \in S
    BY <1>0, <1>4, <2>1, UpTo
  <2>3. QED
    BY <1>0, <2>2
<1>7. List(k[n]) /\ ToSet(k[n]) = P(n)
  BY <1>6 DEF S
<1>8. P(n) = ToSet(ids) \cap set
  BY <1>0 DEF ToSet
<1>9. QED
  BY <1>1, <1>7, <1>8

(* The first of a list, and the others.                                    *)
LEMMA HeadAndTail ==
  ASSUME NEW ids, List(ids), ids # <<>>
  PROVE  /\ List(Tail(ids)) /\ Head(ids) \in Mounts
         /\ ToSet(ids) = ToSet(Tail(ids)) \cup {Head(ids)} /\ Head(ids) \notin ToSet(Tail(ids))
         /\ Tail(ids) # <<>> => Head(Tail(ids)) = ids[2] /\ ids[2] \in ToSet(Tail(ids))
<1> DEFINE n == Len(ids)
           r == Tail(ids)
<1>1. /\ ids \in Seq(Mounts) /\ n \in Nat \ {0} /\ DOMAIN ids = 1..n /\ Head(ids) = ids[1]
      /\ \A i, j \in 1..n : ids[i] = ids[j] => i = j
  BY DEF List, IsInjective
<1>2. /\ r \in Seq(Mounts) /\ Len(r) = n - 1 /\ DOMAIN r = 1..(n - 1)
      /\ \A i \in 1..(n - 1) : r[i] = ids[i + 1]
  BY <1>1
<1> HIDE DEF r
<1>3. List(r)
  <2>1. ASSUME NEW i \in 1..(n - 1), NEW j \in 1..(n - 1), r[i] = r[j] PROVE i = j
    <3>1. i + 1 \in 1..n /\ j + 1 \in 1..n
      BY <1>1
    <3>2. ids[i + 1] = ids[j + 1]
      BY <1>2, <2>1
    <3>3. i + 1 = j + 1
      BY <1>1, <3>1, <3>2
    <3>4. QED
      BY <1>1, <3>3
  <2>2. QED
    BY <1>2, <2>1 DEF List, IsInjective
<1>4. ToSet(ids) = ToSet(r) \cup {ids[1]}
  <2>1. \A x : x \in ToSet(r) => x \in ToSet(ids)
    <3>1. SUFFICES ASSUME NEW i \in 1..(n - 1) PROVE r[i] \in ToSet(ids)
      BY <1>2 DEF ToSet
    <3>2. i + 1 \in 1..n /\ r[i] = ids[i + 1]
      BY <1>1, <1>2
    <3>3. QED
      BY <1>1, <3>2 DEF ToSet
  <2>2. ASSUME NEW x \in ToSet(ids), x # ids[1] PROVE x \in ToSet(r)
    <3>1. PICK i \in 1..n : x = ids[i]
      BY <1>1, <2>2 DEF ToSet
    <3>2. i - 1 \in 1..(n - 1) /\ r[i - 1] = x
      BY <1>1, <1>2, <2>2, <3>1
    <3>3. QED
      BY <1>2, <3>2 DEF ToSet
  <2>3. ids[1] \in ToSet(ids)
    BY <1>1 DEF ToSet
  <2>4. QED
    BY <2>1, <2>2, <2>3
<1>5. ids[1] \notin ToSet(r)
  BY <1>1, <1>2 DEF ToSet
<1>6. r # <<>> => Head(r) = ids[2] /\ ids[2] \in ToSet(r)
  <2> SUFFICES ASSUME r # <<>> PROVE Head(r) = ids[2] /\ ids[2] \in ToSet(r)
    OBVIOUS
  <2>1. n - 1 > 0 /\ Head(r) = r[1]
    BY <1>1, <1>2
  <2>2. QED
    BY <1>1, <1>2, <2>1 DEF ToSet
<1>7. QED
  BY <1>1, <1>3, <1>4, <1>5, <1>6 DEF r

(* Close drops the syncers before the first it has to await.               *)
LEMMA StoppedFirst ==
  ASSUME NEW ids, List(ids)
  PROVE  /\ List(Waiting(ids))
         /\ ToSet(ids) = ToSet(Stopped(ids)) \cup ToSet(Waiting(ids))
         /\ \A m \in ToSet(Stopped(ids)) : ~Awaits(m)
         /\ Waiting(ids) # <<>> => Head(Waiting(ids)) \in Mounts /\ Awaits(Head(Waiting(ids)))
<1> DEFINE n == Len(ids)
           I == {i \in 1..n : Awaits(ids[i])}
           w == Waiting(ids)
           s == Stopped(ids)
<1>0. /\ ids \in Seq(Mounts) /\ n \in Nat /\ DOMAIN ids = 1..n
      /\ \A i, j \in 1..n : ids[i] = ids[j] => i = j
  BY DEF List, IsInjective
<1>1. CASE I = {}
  <2>1. SelectInSeq(ids, Awaits) = 0
    BY <1>1 DEF SelectInSeq
  <2>2. s = ids
    BY <2>1 DEF Stopped
  <2>3. w = <<>>
    BY <1>0, <2>2 DEF Waiting
  <2>4. List(<<>>) /\ ToSet(<<>>) = {}
    BY DEF List, IsInjective, ToSet
  <2>5. \A m \in ToSet(ids) : ~Awaits(m)
    BY <1>0, <1>1 DEF ToSet
  <2>6. QED
    BY <2>2, <2>3, <2>4, <2>5
<1>2. CASE I # {}
  <2>1. PICK f \in I : \A i \in I : f <= i
    <3>1. I \subseteq Nat
      OBVIOUS
    <3> HIDE DEF I
    <3>2. QED
      BY <1>2, <3>1, Least, Zenon
  <2>2. Min(I) = f
    <3>1. \A x \in I : (\A y \in I : x <= y) => x = f
      BY <2>1
    <3>2. QED
      BY <2>1, <3>1 DEF Min
  <2>3. SelectInSeq(ids, Awaits) = f
    BY <1>2, <2>2 DEF SelectInSeq
  <2>4. f \in 1..n /\ Awaits(ids[f]) /\ \A i \in 1..(f - 1) : ~Awaits(ids[i])
    BY <1>0, <2>1
  <2> HIDE DEF I
  <2>5. s = SubSeq(ids, 1, f - 1)
    BY <1>0, <2>3, <2>4 DEF Stopped
  <2>6. Len(s) = f - 1 /\ DOMAIN s = 1..(f - 1) /\ \A i \in 1..(f - 1) : s[i] = ids[i]
    BY <1>0, <2>4, <2>5
  <2>7. w = SubSeq(ids, f, n)
    BY <1>0, <2>4, <2>6 DEF Waiting
  <2>8. /\ w \in Seq(Mounts) /\ Len(w) = n - f + 1 /\ DOMAIN w = 1..(n - f + 1)
        /\ \A i \in 1..(n - f + 1) : w[i] = ids[f + i - 1]
    BY <1>0, <2>4, <2>7
  <2> HIDE DEF w, s
  <2>9. List(w)
    <3>1. \A i, j \in 1..(n - f + 1) : w[i] = w[j] => i = j
      BY <1>0, <2>4, <2>8
    <3>2. QED
      BY <2>8, <3>1 DEF List, IsInjective
  <2>10. Head(w) = ids[f] /\ Awaits(Head(w))
    BY <1>0, <2>4, <2>8
  <2>11. \A m \in ToSet(s) : ~Awaits(m)
    BY <2>4, <2>6 DEF ToSet
  <2>12. ToSet(ids) = ToSet(s) \cup ToSet(w)
    <3>1. \A i \in 1..n : ids[i] \in ToSet(s) \cup ToSet(w)
      <4> SUFFICES ASSUME NEW i \in 1..n PROVE ids[i] \in ToSet(s) \cup ToSet(w)
        OBVIOUS
      <4>1. CASE i < f
        <5>1. i \in DOMAIN s /\ s[i] = ids[i]
          BY <2>4, <2>6, <4>1
        <5>2. QED
          BY <5>1 DEF ToSet
      <4>2. CASE ~(i < f)
        <5>1. i - f + 1 \in DOMAIN w /\ w[i - f + 1] = ids[i]
          BY <1>0, <2>4, <2>8, <4>2
        <5>2. QED
          BY <5>1 DEF ToSet
      <4>3. QED
        BY <4>1, <4>2
    <3>2. ToSet(s) \subseteq ToSet(ids) /\ ToSet(w) \subseteq ToSet(ids)
      <4>1. \A i \in 1..(f - 1) : i \in 1..n
        BY <1>0, <2>4
      <4>2. \A i \in 1..(n - f + 1) : f + i - 1 \in 1..n
        BY <1>0, <2>4
      <4>3. QED
        BY <1>0, <2>6, <2>8, <4>1, <4>2 DEF ToSet
    <3>3. \A x \in ToSet(ids) : x \in ToSet(s) \cup ToSet(w)
      BY <1>0, <3>1 DEF ToSet
    <3>4. QED
      BY <3>2, <3>3
  <2>13. QED
    BY <1>0, <2>4, <2>9, <2>10, <2>11, <2>12 DEF w, s
<1>3. QED
  BY <1>1, <1>2

LEMMA MountList == List([m \in Mounts |-> m]) /\ List(<<>>) /\ ToSet(<<>>) = {}
<1>1. [m \in Mounts |-> m] \in Seq(Mounts)
  BY MountsAssumption DEF Mounts
<1>2. IsInjective([m \in Mounts |-> m])
  BY DEF IsInjective
<1>3. List(<<>>) /\ ToSet(<<>>) = {}
  BY DEF List, IsInjective, ToSet
<1>4. QED
  BY <1>1, <1>2, <1>3 DEF List

LEMMA EmptyList == ASSUME NEW ids, List(ids), ToSet(ids) = {} PROVE ids = <<>>
<1>1. ids \in Seq(Mounts) /\ \A i \in 1..Len(ids) : ids[i] \in ToSet(ids)
  BY DEF List, ToSet
<1>2. QED
  BY <1>1

-----------------------------------------------------------------------------
(* What is so of a mount at any time. A watcher that opens is one that     *)
(* start or a creation awaits, so that one dropped then is counted as      *)
(* torn; a mount start has not come to is still off; a removal that awaits *)
(* a watcher has no timer left, and no one to set it.                      *)
InTodo(m) == m \in ToSet(todo)
Later(m) == todo # <<>> /\ m \in ToSet(Tail(todo))

Down(m) == /\ ~Registered(m) /\ m \notin timers /\ m \notin loose /\ watch[m] = "off"
           /\ quit = "no" => shown[m] = "absent"
           /\ ~AwaitsWatcher(m) /\ ~InTodo(m)

Up(m) == /\ watch[m] # "off" => Registered(m)
         /\ watch[m] = "opening" => AwaitsWatcher(m)
         /\ AwaitsWatcher(m) => watch[m] \in {"opening", "off"}
         /\ m \in opening => ~InTodo(m)
         /\ row[m] = "none" => ~Registered(m) /\ ~InTodo(m) /\ m \notin opening
         /\ Later(m) => watch[m] = "off"
         /\ m \in removing => watch[m] = "closing" /\ m \notin timers
         /\ m \in loose => m \in torn
         /\ row[m] = "gone" /\ m \notin torn => Down(m)

Lists == List(syncers) /\ List(todo) /\ List(closing)

Order == /\ boot = "worker" => ~started /\ syncers = <<>> /\ timers = {} /\ opening = {}
         /\ (boot = "mounts") <=> (todo # <<>>)
         /\ (quit = "closing") <=> (closing # <<>>)

(* Unless start or a creation ran beside it, close has taken every timer,  *)
(* and every syncer there is or was is on its list.                        *)
Clean == quit \in {"closing", "closed"} /\ calm =>
           /\ boot = "done" /\ opening = {} /\ timers = {}
           /\ ToSet(syncers) \subseteq ToSet(closing)
           /\ quit = "closed" => ~started

Watches == {"off", "opening", "on", "closing"}
Rows == {"none", "live", "gone"}
Shows == {"absent", "idle", "metadata"}
Boots == {"worker", "mounts", "done"}
Quits == {"no", "worker", "closing", "closed"}

FlagTypes == boot \in Boots /\ started \in BOOLEAN /\ quit \in Quits /\ calm \in BOOLEAN
MapTypes == /\ row \in [Mounts -> Rows] /\ watch \in [Mounts -> Watches]
            /\ syncing \in [Mounts -> SUBSET Kinds] /\ shown \in [Mounts -> Shows]
SetTypes == /\ opening \subseteq Mounts /\ loose \subseteq Mounts /\ timers \subseteq Mounts
            /\ queued \subseteq Mounts /\ removing \subseteq Mounts /\ torn \subseteq Mounts
CountTypes == faults \in 0..MaxFaults /\ edits \in 0..MaxEdits
Types == FlagTypes /\ MapTypes /\ SetTypes /\ CountTypes

MountInv == Types /\ Lists /\ Order /\ Clean /\ \A m \in Mounts : Up(m)

LEMMA MountInit == Init => MountInv
<1> SUFFICES ASSUME Init PROVE MountInv
  OBVIOUS
<1>1. FlagTypes
  BY Zenon DEF Init, FlagTypes, Boots, Quits
<1>2. MapTypes
  BY DEF Init, Hydrated, MapTypes, Rows, Watches, Shows
<1>3. SetTypes /\ CountTypes
  BY MountsAssumption DEF Init, SetTypes, CountTypes
<1>4. Lists /\ Order /\ Clean
  BY MountList DEF Init, Lists, Order, Clean
<1>5. ASSUME NEW m \in Mounts PROVE Up(m)
  <2>1. ~Registered(m) /\ ~InTodo(m) /\ ~Later(m) /\ ~AwaitsWatcher(m)
    BY MountList DEF Init, Registered, InTodo, Later, AwaitsWatcher
  <2>2. watch[m] = "off" /\ m \notin opening /\ m \notin removing /\ m \notin loose /\ row[m] # "gone"
    BY DEF Init
  <2>3. QED
    BY <2>1, <2>2 DEF Up
<1>6. QED
  BY <1>1, <1>2, <1>3, <1>4, <1>5 DEF MountInv, Types

(* A mount the step has nothing to do with.                                *)
LEMMA UpStays ==
  ASSUME NEW m \in Mounts, Up(m), watch'[m] = watch[m], row'[m] = row[m],
         Registered(m)' <=> Registered(m), AwaitsWatcher(m)' <=> AwaitsWatcher(m),
         InTodo(m)' => InTodo(m), Later(m)' => Later(m), m \in opening' => m \in opening,
         m \in removing' => m \in removing, m \in timers' => m \in timers,
         m \in loose' => m \in loose, m \in torn => m \in torn',
         quit' = "no" => quit = "no", shown[m] = "absent" => shown'[m] = "absent"
  PROVE  Up(m)'
BY DEF Up, Down

(* The status view: nothing but the change of its node lets a mount in.    *)
LEMMA ToldShown ==
  ASSUME MapTypes, NEW m, NEW phase \in {"idle", "metadata"}, Told(m, phase) \/ UNCHANGED shown
  PROVE  /\ shown' \in [Mounts -> Shows]
         /\ \A k \in Mounts : shown[k] = "absent" => shown'[k] = "absent"
BY DEF MapTypes, Told, Shown, Shows

LEMMA ChangedShown ==
  ASSUME MapTypes, NEW ms, NEW phase \in Shows, NodesChanged(ms, phase)
  PROVE  /\ shown' \in [Mounts -> Shows]
         /\ \A k \in Mounts \ ms : shown'[k] = shown[k]
         /\ quit = "no" => \A k \in Mounts \cap ms : shown'[k] = phase
BY DEF MapTypes, NodesChanged, Changed, Shows

(* A step that only serves what is up: neither the lists nor the watchers. *)
LEMMA AllStay ==
  ASSUME \A k \in Mounts : Up(k),
         UNCHANGED <<boot, quit, row, todo, opening, syncers, watch, loose, timers, removing, torn>>,
         \A k \in Mounts : shown[k] = "absent" => shown'[k] = "absent"
  PROVE  \A k \in Mounts : Up(k)'
<1> SUFFICES ASSUME NEW k \in Mounts PROVE Up(k)'
  OBVIOUS
<1>1. /\ (Registered(k)' <=> Registered(k)) /\ (AwaitsWatcher(k)' <=> AwaitsWatcher(k))
      /\ (InTodo(k)' => InTodo(k)) /\ (Later(k)' => Later(k))
  BY DEF Registered, AwaitsWatcher, InTodo, Later
<1>2. QED
  BY <1>1, UpStays

LEMMA ListsStay ==
  ASSUME Lists, Order, Clean,
         UNCHANGED <<boot, quit, started, todo, opening, syncers, timers, closing, calm>>
  PROVE  Lists' /\ Order' /\ Clean'
<1>1. Lists'
  BY DEF Lists
<1>2. Order' /\ Clean'
  BY DEF Order, Clean
<1>3. QED
  BY <1>1, <1>2

LEMMA StutterKeeps == MountInv /\ UNCHANGED vars => MountInv'
<1> SUFFICES ASSUME MountInv, UNCHANGED vars PROVE MountInv'
  OBVIOUS
<1>1. Types'
  BY DEF MountInv, Types, FlagTypes, MapTypes, SetTypes, CountTypes, vars
<1>2. Lists' /\ Order' /\ Clean'
  BY ListsStay DEF MountInv, vars
<1>3. \A k \in Mounts : Up(k)'
  BY AllStay DEF MountInv, vars
<1>4. QED
  BY <1>1, <1>2, <1>3 DEF MountInv

LEMMA WatchEventKeeps == ASSUME MountInv, NEW m \in Mounts, WatchEvent(m) PROVE MountInv'
<1>1. Told(m, "idle") \/ UNCHANGED shown
  BY DEF WatchEvent
<1>2. shown' \in [Mounts -> Shows] /\ \A k \in Mounts : shown[k] = "absent" => shown'[k] = "absent"
  BY <1>1, ToldShown DEF MountInv, Types
<1>3. UNCHANGED <<boot, quit, started, todo, opening, removing, closing, row, syncers, watch,
                  loose, timers, syncing, torn, calm, faults>>
  BY DEF WatchEvent, life, ops
<1>4. queued' = queued \cup {m} /\ edits < MaxEdits /\ edits' = edits + 1
  BY DEF WatchEvent
<1>5. Types'
  <2>1. FlagTypes' /\ SetTypes'
    BY <1>3, <1>4 DEF MountInv, Types, FlagTypes, SetTypes
  <2>2. MapTypes'
    BY <1>2, <1>3 DEF MountInv, Types, MapTypes
  <2>3. CountTypes'
    BY <1>3, <1>4, MountsAssumption DEF MountInv, Types, CountTypes
  <2>4. QED
    BY <2>1, <2>2, <2>3 DEF Types
<1>6. Lists' /\ Order' /\ Clean'
  BY <1>3, ListsStay DEF MountInv
<1>7. \A k \in Mounts : Up(k)'
  BY <1>2, <1>3, AllStay DEF MountInv
<1>8. QED
  BY <1>5, <1>6, <1>7 DEF MountInv

LEMMA SyncStops ==
  ASSUME MountInv, NEW m \in Mounts, NEW kind \in Kinds, SyncEnds(m, kind) \/ SyncFails(m, kind)
  PROVE  MountInv'
<1>1. Told(m, "idle") \/ UNCHANGED shown
  BY DEF SyncEnds, SyncFails
<1>2. shown' \in [Mounts -> Shows] /\ \A k \in Mounts : shown[k] = "absent" => shown'[k] = "absent"
  BY <1>1, ToldShown DEF MountInv, Types
<1>3. UNCHANGED <<boot, quit, started, todo, opening, removing, closing, row, syncers, watch,
                  loose, timers, torn, calm>>
  BY DEF SyncEnds, SyncFails, life, ops
<1>4. syncing' = [syncing EXCEPT ![m] = syncing[m] \ {kind}]
  BY DEF SyncEnds, SyncFails
<1>5. queued' = queued \/ queued' = queued \cup {m}
  BY DEF SyncEnds, SyncFails
<1>6. \/ UNCHANGED <<faults, edits>>
      \/ edits < MaxEdits /\ edits' = edits + 1 /\ UNCHANGED faults
      \/ faults < MaxFaults /\ faults' = faults + 1 /\ UNCHANGED edits
  BY DEF SyncEnds, SyncFails
<1>7. Types'
  <2>1. FlagTypes' /\ SetTypes'
    BY <1>3, <1>5 DEF MountInv, Types, FlagTypes, SetTypes
  <2>2. MapTypes'
    BY <1>2, <1>3, <1>4 DEF MountInv, Types, MapTypes
  <2>3. CountTypes'
    BY <1>6, MountsAssumption DEF MountInv, Types, CountTypes
  <2>4. QED
    BY <2>1, <2>2, <2>3 DEF Types
<1>8. Lists' /\ Order' /\ Clean'
  BY <1>3, ListsStay DEF MountInv
<1>9. \A k \in Mounts : Up(k)'
  BY <1>2, <1>3, AllStay DEF MountInv
<1>10. QED
  BY <1>7, <1>8, <1>9 DEF MountInv

LEMMA ServeKeeps == ASSUME MountInv, NEW m \in Mounts, Serve(m) PROVE MountInv'
<1>1. Told(m, "metadata") \/ UNCHANGED shown
  BY DEF Serve
<1>2. shown' \in [Mounts -> Shows] /\ \A k \in Mounts : shown[k] = "absent" => shown'[k] = "absent"
  BY <1>1, ToldShown DEF MountInv, Types
<1>3. UNCHANGED <<boot, quit, started, todo, opening, removing, closing, row, syncers, watch,
                  loose, timers, syncing, torn, calm, faults, edits>>
  BY DEF Serve, life, ops, rest
<1>4. queued' = queued \ {m}
  BY DEF Serve
<1>5. Types'
  <2>1. FlagTypes' /\ SetTypes'
    BY <1>3, <1>4 DEF MountInv, Types, FlagTypes, SetTypes
  <2>2. MapTypes' /\ CountTypes'
    BY <1>2, <1>3 DEF MountInv, Types, MapTypes, CountTypes
  <2>3. QED
    BY <2>1, <2>2 DEF Types
<1>6. Lists' /\ Order' /\ Clean'
  BY <1>3, ListsStay DEF MountInv
<1>7. \A k \in Mounts : Up(k)'
  BY <1>2, <1>3, AllStay DEF MountInv
<1>8. QED
  BY <1>5, <1>6, <1>7 DEF MountInv

LEMMA QuitKeeps == ASSUME MountInv, Quit PROVE MountInv'
<1>1. /\ quit = "no" /\ quit' = "worker"
      /\ UNCHANGED <<boot, started, row, todo, opening, removing, closing, syncers, watch, loose,
                     timers, syncing, queued, shown, torn, calm, faults, edits>>
  BY DEF Quit, ops, rest
<1>2. Types'
  BY <1>1 DEF MountInv, Types, FlagTypes, Quits, MapTypes, SetTypes, CountTypes
<1>3. Lists' /\ Order' /\ Clean'
  BY <1>1 DEF MountInv, Lists, Order, Clean
<1>4. ASSUME NEW k \in Mounts PROVE Up(k)'
  <2>1. /\ (Registered(k)' <=> Registered(k)) /\ (AwaitsWatcher(k)' <=> AwaitsWatcher(k))
        /\ (InTodo(k)' => InTodo(k)) /\ (Later(k)' => Later(k))
    BY <1>1 DEF Registered, AwaitsWatcher, InTodo, Later
  <2>2. Up(k)
    BY DEF MountInv
  <2>3. QED
    BY <1>1, <2>1, <2>2, UpStays
<1>5. QED
  BY <1>2, <1>3, <1>4 DEF MountInv

(* A tick finds its mount configured, or with its syncer: one that is gone *)
(* has no timer.                                                           *)
LEMMA TickKeeps == ASSUME MountInv, NEW m \in Mounts, Tick(m) PROVE MountInv'
<1>1. shown' \in [Mounts -> Shows] /\ \A k \in Mounts : shown[k] = "absent" => shown'[k] = "absent"
  BY ToldShown DEF MountInv, Types, Tick
<1>2. UNCHANGED <<boot, quit, started, todo, opening, removing, closing, row, watch,
                  loose, timers, queued, torn, calm, faults, edits>>
  BY DEF Tick, life, ops, rest
<1>3. /\ m \in timers /\ quit # "closed" /\ (Registered(m) \/ row[m] = "live")
      /\ syncers' = IF Registered(m) THEN syncers ELSE Append(syncers, m)
      /\ syncing' = [syncing EXCEPT ![m] = syncing[m] \cup {"reconcile"}]
  BY DEF Tick, Live
<1>4. List(syncers') /\ ToSet(syncers') = ToSet(syncers) \cup {m}
  <2>1. List(syncers)
    BY DEF MountInv, Lists
  <2>2. CASE Registered(m)
    BY <1>3, <2>1, <2>2 DEF Registered
  <2>3. CASE ~Registered(m)
    BY <1>3, <2>1, <2>3, Appended DEF Registered
  <2>4. QED
    BY <2>2, <2>3
<1>5. Types'
  <2>1. FlagTypes' /\ SetTypes' /\ CountTypes'
    BY <1>2 DEF MountInv, Types, FlagTypes, SetTypes, CountTypes
  <2>2. MapTypes'
    BY <1>1, <1>2, <1>3 DEF MountInv, Types, MapTypes, Kinds
  <2>3. QED
    BY <2>1, <2>2 DEF Types
<1>6. Lists'
  BY <1>2, <1>4 DEF MountInv, Lists
<1>7. Order' /\ Clean'
  <2>1. timers # {} /\ timers' = timers
    BY <1>2, <1>3
  <2>2. boot # "worker" /\ ~(quit \in {"closing", "closed"} /\ calm)
    BY <2>1 DEF MountInv, Order, Clean
  <2>3. QED
    BY <1>2, <2>2 DEF MountInv, Order, Clean
<1>8. ASSUME NEW k \in Mounts PROVE Up(k)'
  <2>1. /\ (AwaitsWatcher(k)' <=> AwaitsWatcher(k)) /\ (InTodo(k)' <=> InTodo(k))
        /\ (Later(k)' <=> Later(k)) /\ (k # m => (Registered(k)' <=> Registered(k)))
        /\ Registered(m)'
    BY <1>2, <1>4 DEF Registered, AwaitsWatcher, InTodo, Later
  <2>2. Up(k)
    BY DEF MountInv
  <2>3. CASE k # m
    BY <1>1, <1>2, <2>1, <2>2, <2>3, UpStays
  <2>4. CASE k = m
    BY <1>2, <1>3, <2>1, <2>2, <2>4 DEF Up, Down
  <2>5. QED
    BY <2>3, <2>4
<1>9. QED
  BY <1>5, <1>6, <1>7, <1>8 DEF MountInv

(* What the first of a snapshot has: start awaits its watcher.             *)
LEMMA FirstAwaited ==
  ASSUME MountInv, boot = "mounts"
  PROVE  /\ todo # <<>> /\ Head(todo) \in Mounts /\ List(Tail(todo))
         /\ ToSet(todo) = ToSet(Tail(todo)) \cup {Head(todo)} /\ Head(todo) \notin ToSet(Tail(todo))
         /\ Tail(todo) # <<>> => Head(Tail(todo)) = todo[2] /\ todo[2] \in ToSet(Tail(todo))
<1>1. List(todo) /\ todo # <<>>
  BY DEF MountInv, Lists, Order
<1>2. QED
  BY <1>1, HeadAndTail

LEMMA CreateKeeps == ASSUME MountInv, NEW m \in Mounts, Create(m) PROVE MountInv'
<1>1. /\ row[m] = "none" /\ quit # "closed" /\ row' = [row EXCEPT ![m] = "live"]
      /\ NodesChanged({m}, "idle") /\ calm' = (calm /\ quit # "closing")
  BY DEF Create, Added, Stored
<1>2. UNCHANGED <<boot, quit, started, todo, loose, timers, syncing, queued, removing, closing,
                  torn, faults, edits>>
  BY DEF Create, life
<1>3. shown' \in [Mounts -> Shows] /\ \A k \in Mounts \ {m} : shown'[k] = shown[k]
  BY <1>1, ChangedShown DEF MountInv, Types, Shows
<1>4. Up(m) /\ ~Registered(m) /\ ~InTodo(m) /\ m \notin opening /\ watch[m] = "off"
  <2>1. Up(m)
    BY DEF MountInv
  <2>2. ~Registered(m) /\ ~InTodo(m) /\ m \notin opening
    BY <1>1, <2>1 DEF Up
  <2>3. watch[m] = "off"
    BY <2>1, <2>2 DEF Up
  <2>4. QED
    BY <2>1, <2>2, <2>3
<1>5. ~Later(m) /\ ~AwaitsWatcher(m)
  <2>1. boot = "mounts" => Head(todo) # m
    BY <1>4, FirstAwaited DEF InTodo
  <2>2. todo # <<>> => m \notin ToSet(Tail(todo))
    BY <1>4, FirstAwaited DEF InTodo, MountInv, Order
  <2>3. QED
    BY <1>4, <2>1, <2>2 DEF Later, AwaitsWatcher
<1>6. CASE started
  <2>1. /\ syncers' = Append(syncers, m) /\ watch' = [watch EXCEPT ![m] = "opening"]
        /\ opening' = opening \cup {m}
    <3>1. <<m>> # <<>> /\ Head(<<m>>) = m
      OBVIOUS
    <3>2. QED
      BY <1>6, <3>1 DEF Create, Added, Opened
  <2>2. List(syncers') /\ ToSet(syncers') = ToSet(syncers) \cup {m}
    BY <1>4, <2>1, Appended DEF MountInv, Lists, Registered
  <2>3. Types'
    <3>1. FlagTypes' /\ SetTypes' /\ CountTypes'
      <4>1. calm' \in BOOLEAN
        BY <1>1, Zenon
      <4>2. QED
        BY <1>2, <2>1, <4>1 DEF MountInv, Types, FlagTypes, SetTypes, CountTypes
    <3>2. MapTypes'
      BY <1>1, <1>2, <1>3, <2>1 DEF MountInv, Types, MapTypes, Rows, Watches
    <3>3. QED
      BY <3>1, <3>2 DEF Types
  <2>4. Lists' /\ Order' /\ Clean'
    BY <1>1, <1>2, <1>6, <2>2 DEF MountInv, Lists, Order, Clean
  <2>5. ASSUME NEW k \in Mounts PROVE Up(k)'
    <3>1. /\ (InTodo(k)' <=> InTodo(k)) /\ (Later(k)' <=> Later(k))
          /\ (k # m => (Registered(k)' <=> Registered(k)))
          /\ (k # m => (AwaitsWatcher(k)' <=> AwaitsWatcher(k)))
          /\ Registered(m)' /\ AwaitsWatcher(m)'
      BY <1>2, <2>1, <2>2 DEF Registered, AwaitsWatcher, InTodo, Later
    <3>2. Up(k)
      BY DEF MountInv
    <3>3. CASE k # m
      <4>1. watch'[k] = watch[k] /\ row'[k] = row[k] /\ (k \in opening' => k \in opening)
        BY <1>1, <2>1, <3>3 DEF MountInv, Types, MapTypes
      <4>2. QED
        BY <1>2, <1>3, <3>1, <3>2, <3>3, <4>1, UpStays
    <3>4. CASE k = m
      <4>1. watch'[m] = "opening" /\ row'[m] = "live"
        BY <1>1, <2>1 DEF MountInv, Types, MapTypes
      <4>2. m \notin removing /\ (m \in loose => m \in torn)
        BY <1>4 DEF Up
      <4>3. QED
        BY <1>2, <1>4, <1>5, <3>1, <3>4, <4>1, <4>2 DEF Up
    <3>5. QED
      BY <3>3, <3>4
  <2>6. QED
    BY <2>3, <2>4, <2>5 DEF MountInv
<1>7. CASE ~started
  <2>1. UNCHANGED <<syncers, watch, opening>>
    BY <1>7 DEF Create, Added
  <2>2. Types'
    <3>1. FlagTypes' /\ SetTypes' /\ CountTypes'
      <4>1. calm' \in BOOLEAN
        BY <1>1, Zenon
      <4>2. QED
        BY <1>2, <2>1, <4>1 DEF MountInv, Types, FlagTypes, SetTypes, CountTypes
    <3>2. MapTypes'
      BY <1>1, <1>2, <1>3, <2>1 DEF MountInv, Types, MapTypes, Rows, Watches
    <3>3. QED
      BY <3>1, <3>2 DEF Types
  <2>3. Lists' /\ Order' /\ Clean'
    BY <1>1, <1>2, <2>1 DEF MountInv, Lists, Order, Clean
  <2>4. ASSUME NEW k \in Mounts PROVE Up(k)'
    <3>1. /\ (InTodo(k)' <=> InTodo(k)) /\ (Later(k)' <=> Later(k))
          /\ (Registered(k)' <=> Registered(k)) /\ (AwaitsWatcher(k)' <=> AwaitsWatcher(k))
      BY <1>2, <2>1 DEF Registered, AwaitsWatcher, InTodo, Later
    <3>2. Up(k)
      BY DEF MountInv
    <3>3. CASE k # m
      <4>1. row'[k] = row[k]
        BY <1>1, <3>3 DEF MountInv, Types, MapTypes
      <4>2. QED
        BY <1>2, <1>3, <2>1, <3>1, <3>2, <3>3, <4>1, UpStays
    <3>4. CASE k = m
      <4>1. row'[m] = "live"
        BY <1>1 DEF MountInv, Types, MapTypes
      <4>2. QED
        BY <1>2, <1>4, <2>1, <3>1, <3>2, <3>4, <4>1 DEF Up
    <3>5. QED
      BY <3>3, <3>4
  <2>5. QED
    BY <2>2, <2>3, <2>4 DEF MountInv
<1>8. QED
  BY <1>6, <1>7

LEMMA ConfiguredList == List(Configured) /\ ToSet(Configured) = {m \in Mounts : row[m] = "live"}
<1> DEFINE ids == [m \in Mounts |-> m]
<1>1. List(ids)
  BY MountList
<1>2. ToSet(ids) = Mounts
  BY DEF ToSet
<1>3. Configured = Keeping(ids, {m \in Mounts : row[m] = "live"})
  BY DEF Configured, Live
<1> HIDE DEF ids
<1>4. QED
  BY <1>1, <1>2, <1>3, KeepingList

LEMMA StartKeeps == ASSUME MountInv, Start PROVE MountInv'
<1> DEFINE ms == IF quit = "closed" THEN <<>> ELSE Configured
<1>1. /\ boot = "worker" /\ started' = TRUE /\ todo' = ms
      /\ boot' = (IF ms = <<>> THEN "done" ELSE "mounts")
      /\ syncers' = Opened(ms)[1] /\ watch' = Opened(ms)[2]
      /\ calm' = (calm /\ quit \notin {"closing", "closed"})
  BY DEF Start
<1>2. UNCHANGED <<quit, row, opening, loose, timers, syncing, queued, removing, closing, shown,
                  torn, faults, edits>>
  BY DEF Start
<1>3. List(ms) /\ ToSet(ms) \subseteq {m \in Mounts : row[m] = "live"}
  BY ConfiguredList, MountList
<1> HIDE DEF ms
<1>4. syncers = <<>> /\ timers = {} /\ opening = {} /\ todo = <<>> /\ boot # "mounts"
  BY <1>1 DEF MountInv, Order
<1>5. \A k \in Mounts : /\ Up(k) /\ ~Registered(k) /\ watch[k] = "off" /\ k \notin removing
                        /\ ~AwaitsWatcher(k)
  <2> SUFFICES ASSUME NEW k \in Mounts
               PROVE  /\ Up(k) /\ ~Registered(k) /\ watch[k] = "off" /\ k \notin removing
                      /\ ~AwaitsWatcher(k)
    OBVIOUS
  <2>1. Up(k)
    BY DEF MountInv
  <2>2. ~Registered(k) /\ ~AwaitsWatcher(k)
    BY <1>4, MountList DEF Registered, AwaitsWatcher
  <2>3. QED
    BY <2>1, <2>2 DEF Up
<1>6. calm' \in BOOLEAN /\ (calm' => quit \notin {"closing", "closed"})
  BY <1>1, Zenon
<1>7. CASE ms = <<>>
  <2>1. UNCHANGED <<syncers, watch, todo>> /\ boot' = "done"
    BY <1>1, <1>4, <1>7 DEF Opened
  <2>2. Types'
    <3>1. FlagTypes'
      BY <1>1, <1>2, <1>6, <2>1 DEF MountInv, Types, FlagTypes, Boots
    <3>2. MapTypes' /\ SetTypes' /\ CountTypes'
      BY <1>2, <2>1 DEF MountInv, Types, MapTypes, SetTypes, CountTypes
    <3>3. QED
      BY <3>1, <3>2 DEF Types
  <2>3. Lists' /\ Order' /\ Clean'
    BY <1>2, <1>4, <1>6, <2>1 DEF MountInv, Lists, Order, Clean
  <2>4. ASSUME NEW k \in Mounts PROVE Up(k)'
    <3>1. /\ (InTodo(k)' <=> InTodo(k)) /\ (Later(k)' <=> Later(k))
          /\ (Registered(k)' <=> Registered(k)) /\ (AwaitsWatcher(k)' <=> AwaitsWatcher(k))
      BY <1>2, <1>4, <2>1 DEF Registered, AwaitsWatcher, InTodo, Later
    <3>2. QED
      BY <1>2, <1>5, <2>1, <3>1, UpStays
  <2>5. QED
    BY <2>2, <2>3, <2>4 DEF MountInv
<1>8. CASE ms # <<>>
  <2> DEFINE h == Head(ms)
  <2>1. /\ h \in Mounts /\ ToSet(ms) = ToSet(Tail(ms)) \cup {h} /\ h \notin ToSet(Tail(ms))
    BY <1>3, <1>8, HeadAndTail
  <2>2. /\ syncers' = Append(syncers, h) /\ watch' = [watch EXCEPT ![h] = "opening"]
        /\ boot' = "mounts" /\ todo' = ms
    BY <1>1, <1>8 DEF Opened
  <2> HIDE DEF h
  <2>3. List(syncers') /\ ToSet(syncers') = {h}
    <3>1. h \notin ToSet(syncers) /\ List(syncers) /\ ToSet(syncers) = {}
      BY <1>4, MountList
    <3>2. QED
      BY <2>1, <2>2, <3>1, Appended
  <2>4. Types'
    <3>1. FlagTypes'
      BY <1>1, <1>2, <1>6, <2>2 DEF MountInv, Types, FlagTypes, Boots
    <3>2. MapTypes' /\ SetTypes' /\ CountTypes'
      BY <1>2, <2>2 DEF MountInv, Types, MapTypes, SetTypes, CountTypes, Watches
    <3>3. QED
      BY <3>1, <3>2 DEF Types
  <2>5. Lists' /\ Order' /\ Clean'
    BY <1>2, <1>3, <1>6, <1>8, <2>2, <2>3 DEF MountInv, Lists, Order, Clean
  <2>6. ASSUME NEW k \in Mounts PROVE Up(k)'
    <3>1. /\ (Registered(k)' <=> k = h) /\ (AwaitsWatcher(k)' <=> k = h)
          /\ (Later(k)' <=> k \in ToSet(Tail(ms))) /\ (InTodo(k)' <=> k \in ToSet(ms))
      BY <1>2, <1>4, <1>8, <2>2, <2>3 DEF Registered, AwaitsWatcher, InTodo, Later, h
    <3>2. Up(k) /\ watch[k] = "off" /\ k \notin removing /\ k \notin timers /\ k \notin opening
      BY <1>4, <1>5
    <3>3. watch'[k] = IF k = h THEN "opening" ELSE "off"
      BY <2>2, <3>2 DEF MountInv, Types, MapTypes
    <3>4. k \in ToSet(ms) => row[k] = "live"
      BY <1>3
    <3>5. k \in loose => k \in torn
      BY <3>2 DEF Up
    <3>6. CASE k = h
      BY <1>2, <2>1, <3>1, <3>2, <3>3, <3>4, <3>5, <3>6 DEF Up
    <3>7. CASE k # h
      <4>1. row[k] = "gone" /\ k \notin torn => Down(k)
        BY <3>2 DEF Up
      <4>2. (row[k] = "gone" /\ k \notin torn => Down(k))'
        BY <1>2, <3>1, <3>2, <3>3, <3>4, <3>7, <4>1 DEF Down
      <4>3. QED
        BY <1>2, <3>1, <3>2, <3>3, <3>4, <3>5, <3>7, <4>2 DEF Up
    <3>8. QED
      BY <3>6, <3>7
  <2>7. QED
    BY <2>4, <2>5, <2>6 DEF MountInv
<1>9. QED
  BY <1>7, <1>8

(* start, or a creation, goes on once its watcher has answered: the mount  *)
(* is no longer awaited, and the next of the snapshot, if there is one, is *)
(* registered and opens.                                                   *)
LEMMA GoesOn ==
  ASSUME MountInv, NEW m \in Mounts, AwaitsWatcher(m), Continue(m),
         NEW w \in [Mounts -> Watches], w[m] \in {"on", "off"},
         \A k \in Mounts \ {m} : w[k] = watch[k],
         w[m] = "on" => watch[m] = "opening",
         watch' = NextOpens(m, w), timers' = Scheduled(m), loose' \in {loose, loose \ {m}},
         UNCHANGED <<quit, started, row, removing, closing, torn, calm>>,
         \A k \in Mounts : shown[k] = "absent" => shown'[k] = "absent"
  PROVE  /\ Lists' /\ Order' /\ Clean' /\ \A k \in Mounts : Up(k)'
         /\ boot' \in Boots /\ watch' \in [Mounts -> Watches]
         /\ opening' \subseteq Mounts /\ loose' \subseteq Mounts /\ timers' \subseteq Mounts
<1>1. /\ Types /\ Lists /\ Order /\ Clean /\ \A k \in Mounts : Up(k)
  BY DEF MountInv
<1>2. boot # "worker" /\ ~(quit \in {"closing", "closed"} /\ calm)
  <2>1. boot = "done" /\ opening = {} => ~AwaitsWatcher(m)
    BY DEF AwaitsWatcher
  <2>2. boot = "worker" => opening = {}
    BY <1>1 DEF Order
  <2>3. boot # "worker"
    BY <2>2 DEF AwaitsWatcher
  <2>4. QED
    BY <1>1, <2>1, <2>3 DEF Clean
<1>3. timers' \subseteq timers \cup {m} /\ timers' \subseteq Mounts /\ loose' \subseteq loose
  BY <1>1 DEF Scheduled, Types, SetTypes
<1>4. watch[m] \in {"opening", "off"} /\ m \notin removing /\ row[m] # "none"
      /\ (row[m] = "gone" => m \in torn) /\ (m \in loose => m \in torn)
  <2>1. Up(m) /\ watch[m] \in {"opening", "off"}
    BY <1>1 DEF Up
  <2>2. m \in opening \/ InTodo(m)
    BY FirstAwaited DEF AwaitsWatcher, InTodo
  <2>3. QED
    BY <2>1, <2>2 DEF Up, Down
<1>5. CASE m \in opening
  <2>1. UNCHANGED <<boot, todo, syncers>> /\ opening' = opening \ {m} /\ watch' = w
    BY <1>5 DEF Continue, NextOpens
  <2>2. Lists' /\ Order' /\ Clean'
    BY <1>1, <1>2, <2>1 DEF Lists, Order, Clean
  <2>3. ~InTodo(m) /\ ~(boot = "mounts" /\ Head(todo) = m)
    <3>1. ~InTodo(m)
      BY <1>1, <1>5 DEF Up
    <3>2. QED
      BY <3>1, FirstAwaited DEF InTodo
  <2>4. ASSUME NEW k \in Mounts PROVE Up(k)'
    <3>1. /\ (Registered(k)' <=> Registered(k)) /\ (InTodo(k)' <=> InTodo(k))
          /\ (Later(k)' <=> Later(k)) /\ (k # m => (AwaitsWatcher(k)' <=> AwaitsWatcher(k)))
          /\ ~AwaitsWatcher(m)'
      BY <2>1, <2>3 DEF Registered, AwaitsWatcher, InTodo, Later
    <3>2. Up(k)
      BY <1>1
    <3>3. CASE k # m
      BY <1>3, <2>1, <3>1, <3>2, <3>3, UpStays
    <3>4. CASE k = m
      <4>1. m \notin opening' /\ watch'[m] = w[m] /\ ~Later(m)'
        <5>1. Later(m) => InTodo(m)
          BY <1>1, HeadAndTail DEF Later, InTodo, Lists
        <5>2. QED
          BY <2>1, <2>3, <3>1, <3>4, <5>1
      <4>2. w[m] = "on" => Registered(m)
        BY <3>2, <3>4 DEF Up
      <4>3. QED
        BY <1>3, <1>4, <2>3, <3>1, <3>4, <4>1, <4>2 DEF Up
    <3>5. QED
      BY <3>3, <3>4
  <2>5. QED
    BY <1>1, <1>3, <2>1, <2>2, <2>4 DEF Types, FlagTypes, SetTypes
<1>6. CASE m \notin opening
  <2> DEFINE n == todo[2]
             t == Tail(todo)
  <2>0. boot = "mounts" /\ Head(todo) = m
    BY <1>6 DEF AwaitsWatcher
  <2>1. /\ todo # <<>> /\ List(t) /\ ToSet(todo) = ToSet(t) \cup {m} /\ m \notin ToSet(t)
        /\ t # <<>> => Head(t) = n /\ n \in ToSet(t)
    BY <2>0, FirstAwaited
  <2>2. /\ todo' = t /\ opening' = opening
        /\ boot' = (IF t = <<>> THEN "done" ELSE "mounts")
        /\ syncers' = (IF t = <<>> \/ Registered(n) THEN syncers ELSE Append(syncers, n))
        /\ watch' = (IF t = <<>> THEN w ELSE [w EXCEPT ![n] = "opening"])
    BY <1>6 DEF Continue, NextOpens
  <2>3. t # <<>> => n \in Mounts /\ n # m /\ Head(t) = n /\ n \notin ToSet(Tail(t)) /\ Later(n)
    <3> SUFFICES ASSUME t # <<>>
                 PROVE n \in Mounts /\ n # m /\ Head(t) = n /\ n \notin ToSet(Tail(t)) /\ Later(n)
      OBVIOUS
    <3>1. Head(t) \in Mounts /\ Head(t) \notin ToSet(Tail(t))
      BY <2>1, HeadAndTail
    <3>2. QED
      BY <2>1, <3>1 DEF Later
  <2>4. \A k : k \in ToSet(t) <=> Later(k)
    BY <2>1 DEF Later
  <2>5. t # <<>> => \A k : k \in ToSet(Tail(t)) => k \in ToSet(t)
    <3> HIDE DEF t
    <3>1. t # <<>> => ToSet(t) = ToSet(Tail(t)) \cup {Head(t)}
      BY <2>1, HeadAndTail
    <3>2. QED
      BY <3>1
  <2> HIDE DEF n, t
  <2>6. /\ List(syncers')
        /\ ToSet(syncers') = ToSet(syncers) \cup (IF t = <<>> THEN {} ELSE {n})
    <3>1. List(syncers)
      BY <1>1 DEF Lists
    <3>2. CASE t = <<>> \/ Registered(n)
      BY <2>2, <3>1, <3>2 DEF Registered
    <3>3. CASE ~(t = <<>> \/ Registered(n))
      BY <2>2, <2>3, <3>1, <3>3, Appended DEF Registered
    <3>4. QED
      BY <3>2, <3>3
  <2>7. Lists' /\ Order' /\ Clean'
    BY <1>1, <1>2, <2>1, <2>2, <2>6 DEF Lists, Order, Clean
  <2>8. watch' \in [Mounts -> Watches]
    BY <2>2, <2>3 DEF Watches
  <2>9. ASSUME NEW k \in Mounts PROVE Up(k)'
    <3>1. /\ (Registered(k)' <=> Registered(k) \/ (t # <<>> /\ k = n))
          /\ (InTodo(k)' <=> k \in ToSet(t))
          /\ (Later(k)' <=> t # <<>> /\ k \in ToSet(Tail(t)))
      BY <2>2, <2>6 DEF Registered, InTodo, Later
    <3>2. AwaitsWatcher(k)' <=> (k \in opening \/ (t # <<>> /\ k = n))
      BY <2>2, <2>3 DEF AwaitsWatcher
    <3>3. AwaitsWatcher(k) <=> (k \in opening \/ k = m)
      BY <2>0 DEF AwaitsWatcher
    <3>4. Up(k) /\ (InTodo(k) <=> k \in ToSet(t) \/ k = m)
      BY <1>1, <2>1 DEF InTodo
    <3>5. watch'[k] = IF t # <<>> /\ k = n THEN "opening" ELSE w[k]
      BY <2>2, <2>3
    <3>6. CASE k = m
      <4>1. /\ ~AwaitsWatcher(m)' /\ ~InTodo(m)' /\ ~Later(m)' /\ watch'[m] = w[m]
            /\ (Registered(m)' <=> Registered(m)) /\ m \notin opening'
        BY <1>6, <2>1, <2>2, <2>3, <2>5, <3>1, <3>2, <3>5, <3>6
      <4>2. w[m] = "on" => Registered(m)
        BY <3>4, <3>6 DEF Up
      <4>3. QED
        BY <1>3, <1>4, <3>6, <4>1, <4>2 DEF Up
    <3>7. CASE k # m /\ t # <<>> /\ k = n
      <4>1. Later(k) /\ k \in ToSet(t) /\ InTodo(k)
        BY <2>3, <2>4, <3>4, <3>7
      <4>2. watch[k] = "off" /\ k \notin opening /\ row[k] # "none" /\ k \notin removing
            /\ (row[k] = "gone" => k \in torn) /\ (k \in loose => k \in torn)
        BY <3>4, <4>1 DEF Up, Down
      <4>3. Registered(k)' /\ AwaitsWatcher(k)' /\ watch'[k] = "opening" /\ ~Later(k)'
        BY <2>3, <3>1, <3>2, <3>5, <3>7
      <4>4. QED
        BY <1>3, <2>2, <4>2, <4>3 DEF Up
    <3>8. CASE k # m /\ ~(t # <<>> /\ k = n)
      <4>1. /\ (Registered(k)' <=> Registered(k)) /\ (AwaitsWatcher(k)' <=> AwaitsWatcher(k))
            /\ (InTodo(k)' => InTodo(k)) /\ (Later(k)' => Later(k)) /\ watch'[k] = watch[k]
        BY <2>4, <2>5, <3>1, <3>2, <3>3, <3>4, <3>5, <3>8
      <4>2. QED
        BY <1>3, <2>2, <3>4, <3>8, <4>1, UpStays
    <3>9. QED
      BY <3>6, <3>7, <3>8
  <2>10. QED
    BY <1>1, <1>3, <2>2, <2>7, <2>8, <2>9 DEF Types, FlagTypes, SetTypes, Boots
<1>7. QED
  BY <1>5, <1>6

LEMMA WatchReadyKeeps == ASSUME MountInv, NEW m \in Mounts, WatchReady(m) PROVE MountInv'
<1> DEFINE w == IF watch[m] = "opening" THEN [watch EXCEPT ![m] = "on"] ELSE watch
<1>1. /\ AwaitsWatcher(m) /\ Continue(m) /\ watch' = NextOpens(m, w) /\ timers' = Scheduled(m)
      /\ syncing' = (IF watch[m] = "opening"
                     THEN [syncing EXCEPT ![m] = syncing[m] \cup {"first"}] ELSE syncing)
      /\ Told(m, "metadata") \/ UNCHANGED shown
  BY DEF WatchReady
<1>2. UNCHANGED <<quit, started, row, loose, queued, removing, closing, torn, calm, faults, edits>>
  BY DEF WatchReady, rest
<1>3. shown' \in [Mounts -> Shows] /\ \A k \in Mounts : shown[k] = "absent" => shown'[k] = "absent"
  BY <1>1, ToldShown DEF MountInv, Types
<1>4. watch[m] \in {"opening", "off"}
  BY <1>1 DEF MountInv, Up
<1>5. /\ w \in [Mounts -> Watches] /\ w[m] \in {"on", "off"}
      /\ \A k \in Mounts \ {m} : w[k] = watch[k]
      /\ w[m] = "on" => watch[m] = "opening"
  BY <1>4 DEF MountInv, Types, MapTypes, Watches
<1> HIDE DEF w
<1>6. /\ Lists' /\ Order' /\ Clean' /\ \A k \in Mounts : Up(k)'
      /\ boot' \in Boots /\ watch' \in [Mounts -> Watches]
      /\ opening' \subseteq Mounts /\ loose' \subseteq Mounts /\ timers' \subseteq Mounts
  BY <1>1, <1>2, <1>3, <1>5, GoesOn
<1>7. Types'
  <2>1. FlagTypes' /\ SetTypes' /\ CountTypes'
    BY <1>2, <1>6 DEF MountInv, Types, FlagTypes, SetTypes, CountTypes
  <2>2. MapTypes'
    BY <1>1, <1>2, <1>3, <1>6 DEF MountInv, Types, MapTypes, Kinds
  <2>3. QED
    BY <2>1, <2>2 DEF Types
<1>8. QED
  BY <1>6, <1>7 DEF MountInv

LEMMA WatchFailsKeeps == ASSUME MountInv, NEW m \in Mounts, WatchFails(m) PROVE MountInv'
<1> DEFINE w == IF watch[m] = "opening" THEN [watch EXCEPT ![m] = "off"] ELSE watch
<1>1. /\ AwaitsWatcher(m) /\ Continue(m) /\ watch' = NextOpens(m, w) /\ timers' = Scheduled(m)
      /\ loose' = loose \ {m} /\ faults < MaxFaults /\ faults' = faults + 1
  BY DEF WatchFails
<1>2. UNCHANGED <<quit, started, row, syncing, queued, removing, closing, shown, torn, calm, edits>>
  BY DEF WatchFails
<1>3. watch[m] \in {"opening", "off"}
  BY <1>1 DEF MountInv, Up
<1>4. /\ w \in [Mounts -> Watches] /\ w[m] \in {"on", "off"}
      /\ \A k \in Mounts \ {m} : w[k] = watch[k]
      /\ w[m] = "on" => watch[m] = "opening"
  BY <1>3 DEF MountInv, Types, MapTypes, Watches
<1> HIDE DEF w
<1>5. /\ Lists' /\ Order' /\ Clean' /\ \A k \in Mounts : Up(k)'
      /\ boot' \in Boots /\ watch' \in [Mounts -> Watches]
      /\ opening' \subseteq Mounts /\ loose' \subseteq Mounts /\ timers' \subseteq Mounts
  BY <1>1, <1>2, <1>4, GoesOn
<1>6. Types'
  <2>1. FlagTypes' /\ SetTypes'
    BY <1>2, <1>5 DEF MountInv, Types, FlagTypes, SetTypes
  <2>2. MapTypes'
    BY <1>2, <1>5 DEF MountInv, Types, MapTypes
  <2>3. CountTypes'
    BY <1>1, <1>2, MountsAssumption DEF MountInv, Types, CountTypes
  <2>4. QED
    BY <2>1, <2>2, <2>3 DEF Types
<1>7. QED
  BY <1>5, <1>6 DEF MountInv

-----------------------------------------------------------------------------
(* What is left of the mounts ms when their syncers are dropped.           *)
LEMMA DroppedLists ==
  ASSUME MountInv, NEW ms \in SUBSET Mounts, NEW w \in [Mounts -> Watches], Dropped(ms, w)
  PROVE  /\ List(syncers') /\ ToSet(syncers') = ToSet(syncers) \ ms
         /\ watch' \in [Mounts -> Watches] /\ syncing' \in [Mounts -> SUBSET Kinds]
         /\ loose' \subseteq Mounts /\ torn' \subseteq Mounts /\ torn \subseteq torn'
         /\ \A k \in Mounts : /\ watch'[k] = IF k \in ms THEN "off" ELSE w[k]
                              /\ k \in loose' <=> k \in loose \/ (k \in ms /\ watch[k] = "opening")
                              /\ k \in torn' <=> k \in torn \/ (k \in ms /\ (AwaitsWatcher(k) \/ InTodo(k)))
<1>1. /\ syncers' = Keeping(syncers, Mounts \ ms)
      /\ watch' = [m \in Mounts |-> IF m \in ms THEN "off" ELSE w[m]]
      /\ loose' = loose \cup {m \in ms : watch[m] = "opening"}
      /\ syncing' = [m \in Mounts |-> IF m \in ms THEN {} ELSE syncing[m]]
      /\ torn' = torn \cup {m \in ms : AwaitsWatcher(m) \/ InTodo(m)}
  BY DEF Dropped, InTodo
<1>2. List(syncers) /\ ToSet(syncers) \subseteq Mounts
  BY DEF MountInv, Lists, List, ToSet
<1>3. List(syncers') /\ ToSet(syncers') = ToSet(syncers) \ ms
  BY <1>1, <1>2, KeepingList
<1>4. watch' \in [Mounts -> Watches]
  BY <1>1 DEF Watches
<1>5. syncing' \in [Mounts -> SUBSET Kinds] /\ loose' \subseteq Mounts /\ torn' \subseteq Mounts
  BY <1>1 DEF MountInv, Types, MapTypes, SetTypes
<1>6. torn \subseteq torn'
  BY <1>1
<1>7. ASSUME NEW k \in Mounts
      PROVE  /\ watch'[k] = IF k \in ms THEN "off" ELSE w[k]
             /\ k \in loose' <=> k \in loose \/ (k \in ms /\ watch[k] = "opening")
             /\ k \in torn' <=> k \in torn \/ (k \in ms /\ (AwaitsWatcher(k) \/ InTodo(k)))
  BY <1>1, Zenon
<1>8. QED
  BY <1>3, <1>4, <1>5, <1>6, <1>7

(* A mount whose syncer is dropped, when its node stays and when it goes.  *)
LEMMA DroppedUp ==
  ASSUME MountInv, NEW ms \in SUBSET Mounts, NEW w \in [Mounts -> Watches], Dropped(ms, w),
         UNCHANGED <<boot, todo, opening>>, NEW k \in ms,
         k \notin removing', k \in timers' => k \in timers,
         \/ /\ row'[k] = row[k] /\ (quit' = "no" => quit = "no")
            /\ shown[k] = "absent" => shown'[k] = "absent"
         \/ row'[k] = "gone" /\ k \notin timers' /\ (quit' = "no" => shown'[k] = "absent")
  PROVE  Up(k)'
<1>1. /\ ~Registered(k)' /\ watch'[k] = "off"
      /\ k \in loose' <=> k \in loose \/ watch[k] = "opening"
      /\ k \in torn' <=> k \in torn \/ AwaitsWatcher(k) \/ InTodo(k)
  BY DroppedLists DEF Registered
<1>2. /\ (AwaitsWatcher(k)' <=> AwaitsWatcher(k)) /\ (InTodo(k)' <=> InTodo(k))
      /\ (Later(k)' <=> Later(k)) /\ (k \in opening' <=> k \in opening)
  BY DEF AwaitsWatcher, InTodo, Later
<1>3. Up(k)
  BY DEF MountInv
<1>4. k \in loose' => k \in torn'
  BY <1>1, <1>3 DEF Up
<1>5. (row[k] = "gone" /\ k \notin torn => Down(k)) /\ (k \in opening => ~InTodo(k))
  BY <1>3 DEF Up
<1>6. CASE /\ row'[k] = row[k] /\ (quit' = "no" => quit = "no")
           /\ shown[k] = "absent" => shown'[k] = "absent"
  <2>1. (row[k] = "gone" /\ k \notin torn => Down(k))'
    BY <1>1, <1>2, <1>5, <1>6 DEF Down
  <2>2. row[k] = "none" => ~InTodo(k) /\ k \notin opening
    BY <1>3 DEF Up
  <2>3. QED
    BY <1>1, <1>2, <1>4, <1>5, <1>6, <2>1, <2>2 DEF Up
<1>7. CASE row'[k] = "gone" /\ k \notin timers' /\ (quit' = "no" => shown'[k] = "absent")
  <2>1. k \notin torn' => Down(k)'
    BY <1>1, <1>2, <1>4, <1>7 DEF Down
  <2>2. QED
    BY <1>1, <1>2, <1>4, <1>5, <1>7, <2>1 DEF Up
<1>8. QED
  BY <1>6, <1>7

(* Close goes on from the syncers ids: what it drops, and whom it awaits.  *)
LEMMA ClosesFrom ==
  ASSUME MountInv, NEW ids, List(ids), NEW dropped \in SUBSET Mounts,
         dropped \cap ToSet(ids) = {}, CloseFrom(ids, dropped, watch),
         quit # "no", UNCHANGED <<boot, todo, opening>>,
         removing' = removing \ dropped, timers' \subseteq timers,
         \A k \in Mounts \ dropped : row'[k] = row[k],
         \A k \in dropped : row'[k] = row[k] \/ (row'[k] = "gone" /\ k \notin timers'),
         UNCHANGED shown
  PROVE  /\ \A k \in Mounts : Up(k)'
         /\ List(syncers') /\ ToSet(syncers') \subseteq ToSet(syncers)
         /\ List(closing') /\ quit' \in {"closing", "closed"}
         /\ (quit' = "closing") <=> (closing' # <<>>)
         /\ ToSet(syncers) \subseteq ToSet(ids) \cup dropped => ToSet(syncers') \subseteq ToSet(closing')
         /\ started' \in {started, FALSE} /\ (quit' = "closed" => ~started')
         /\ watch' \in [Mounts -> Watches] /\ syncing' \in [Mounts -> SUBSET Kinds]
         /\ loose' \subseteq Mounts /\ torn' \subseteq Mounts
<1> DEFINE gone == Stopped(ids)
           left == Waiting(ids)
           ms == dropped \cup ToSet(gone)
           h == Head(left)
           w == IF left = <<>> THEN watch ELSE [watch EXCEPT ![h] = "closing"]
<1>1. /\ Dropped(ms, w) /\ closing' = left
      /\ IF left = <<>> THEN quit' = "closed" /\ started' = FALSE
                        ELSE quit' = "closing" /\ started' = started
  BY DEF CloseFrom
<1>2. /\ List(left) /\ ToSet(ids) = ToSet(gone) \cup ToSet(left)
      /\ \A k \in ToSet(gone) : ~Awaits(k)
      /\ left # <<>> => h \in Mounts /\ Awaits(h) /\ h \in ToSet(left)
  BY StoppedFirst, HeadAndTail
<1> HIDE DEF gone, left, h
<1>3. ToSet(ids) \subseteq Mounts
  BY DEF List, ToSet
<1>4. ms \in SUBSET Mounts /\ w \in [Mounts -> Watches]
  BY <1>2, <1>3 DEF MountInv, Types, MapTypes, Watches
<1>5. \A k \in Mounts : w[k] = IF left # <<>> /\ k = h THEN "closing" ELSE watch[k]
  BY <1>2 DEF MountInv, Types, MapTypes
<1> HIDE DEF w
<1>6. /\ List(syncers') /\ ToSet(syncers') = ToSet(syncers) \ ms
      /\ watch' \in [Mounts -> Watches] /\ syncing' \in [Mounts -> SUBSET Kinds]
      /\ loose' \subseteq Mounts /\ torn' \subseteq Mounts /\ torn \subseteq torn'
      /\ \A k \in Mounts : /\ watch'[k] = IF k \in ms THEN "off" ELSE w[k]
                           /\ k \in loose' <=> k \in loose \/ (k \in ms /\ watch[k] = "opening")
  <2> HIDE DEF ms
  <2>1. QED
    BY <1>1, <1>4, DroppedLists
<1>7. left # <<>> => h \notin ms
  <2>1. left # <<>> => h \in ToSet(ids) /\ h \notin ToSet(gone)
    BY <1>2
  <2>2. QED
    BY <2>1
<1>8. ASSUME NEW k \in Mounts PROVE Up(k)'
  <2>1. Up(k) /\ (AwaitsWatcher(k)' <=> AwaitsWatcher(k)) /\ (InTodo(k)' <=> InTodo(k))
        /\ (Later(k)' <=> Later(k))
    BY DEF MountInv, AwaitsWatcher, InTodo, Later
  <2>2. quit' # "no"
    BY <1>1
  <2>3. k \notin ms => (Registered(k)' <=> Registered(k))
    BY <1>6 DEF Registered
  <2>4. CASE k \in ms
    <3>1. k \notin removing'
      <4>1. k \in removing => Awaits(k)
        BY <2>1 DEF Up, Awaits
      <4>2. QED
        BY <1>2, <2>4, <4>1
    <3>2. k \in timers' => k \in timers
      OBVIOUS
    <3>3. \/ /\ row'[k] = row[k] /\ (quit' = "no" => quit = "no")
             /\ shown[k] = "absent" => shown'[k] = "absent"
          \/ row'[k] = "gone" /\ k \notin timers' /\ (quit' = "no" => shown'[k] = "absent")
      BY <2>2
    <3> HIDE DEF ms
    <3>4. QED
      BY <1>1, <1>4, <2>4, <3>1, <3>2, <3>3, DroppedUp
  <2>5. CASE k \notin ms /\ left # <<>> /\ k = h
    <3>1. watch[k] \in {"on", "closing"} /\ watch'[k] = "closing"
      BY <1>2, <1>5, <1>6, <2>5 DEF Awaits
    <3>2. Registered(k) /\ ~AwaitsWatcher(k) /\ ~Later(k) /\ (row[k] = "gone" => k \in torn)
      BY <2>1, <3>1 DEF Up, Down
    <3>3. row'[k] = row[k] /\ (k \in loose' => k \in loose) /\ (k \in opening' => k \in opening)
      BY <1>6, <2>5
    <3>4. QED
      BY <1>6, <2>1, <2>3, <2>5, <3>1, <3>2, <3>3 DEF Up
  <2>6. CASE k \notin ms /\ ~(left # <<>> /\ k = h)
    <3>1. watch'[k] = watch[k] /\ row'[k] = row[k] /\ (k \in loose' => k \in loose)
      BY <1>5, <1>6, <2>6
    <3>2. QED
      BY <1>6, <2>1, <2>2, <2>3, <2>6, <3>1, UpStays
  <2>7. QED
    BY <2>4, <2>5, <2>6
<1>9. ToSet(syncers) \subseteq ToSet(ids) \cup dropped => ToSet(syncers') \subseteq ToSet(closing')
  BY <1>1, <1>2, <1>6
<1>10. started' \in {started, FALSE} /\ (quit' = "closed" => ~started')
  BY <1>1
<1>11. QED
  BY <1>1, <1>2, <1>6, <1>8, <1>9, <1>10

LEMMA CloseKeeps == ASSUME MountInv, Close PROVE MountInv'
<1>1. /\ quit = "worker" /\ timers' = {} /\ CloseFrom(syncers, {}, watch)
      /\ calm' = (boot = "done" /\ opening = {})
  BY DEF Close
<1>2. UNCHANGED <<boot, row, todo, opening, removing, queued, shown, faults, edits>>
  BY DEF Close
<1>3. List(syncers)
  BY DEF MountInv, Lists
<1>4. /\ \A k \in Mounts : Up(k)'
      /\ List(syncers') /\ ToSet(syncers') \subseteq ToSet(syncers)
      /\ List(closing') /\ quit' \in {"closing", "closed"}
      /\ (quit' = "closing") <=> (closing' # <<>>)
      /\ ToSet(syncers') \subseteq ToSet(closing')
      /\ started' \in {started, FALSE} /\ (quit' = "closed" => ~started')
      /\ watch' \in [Mounts -> Watches] /\ syncing' \in [Mounts -> SUBSET Kinds]
      /\ loose' \subseteq Mounts /\ torn' \subseteq Mounts
  BY <1>1, <1>2, <1>3, ClosesFrom
<1>5. Types'
  <2>1. calm' \in BOOLEAN
    BY <1>1, Zenon
  <2>2. FlagTypes' /\ SetTypes' /\ CountTypes'
    BY <1>1, <1>2, <1>4, <2>1 DEF MountInv, Types, FlagTypes, SetTypes, CountTypes, Quits
  <2>3. MapTypes'
    BY <1>2, <1>4 DEF MountInv, Types, MapTypes
  <2>4. QED
    BY <2>2, <2>3 DEF Types
<1>6. Lists'
  BY <1>2, <1>4 DEF MountInv, Lists
<1>7. Order'
  <2>1. boot = "worker" => ~started' /\ syncers' = <<>> /\ opening = {}
    <3>1. boot = "worker" => ~started /\ syncers = <<>> /\ opening = {}
      BY DEF MountInv, Order
    <3>2. boot = "worker" => ToSet(syncers') = {}
      BY <1>4, <3>1, MountList
    <3>3. QED
      BY <1>4, <3>1, <3>2, EmptyList
  <2>2. QED
    BY <1>1, <1>2, <1>4, <2>1 DEF MountInv, Order
<1>8. Clean'
  BY <1>1, <1>2, <1>4 DEF Clean
<1>9. QED
  BY <1>4, <1>5, <1>6, <1>7, <1>8 DEF MountInv

(* A mount whose syncer is dropped while the others stay as they are.      *)
LEMMA OneDropped ==
  ASSUME MountInv, NEW m \in Mounts, Dropped({m}, watch),
         UNCHANGED <<boot, quit, started, todo, opening, closing, calm>>,
         removing' = removing \ {m}, timers' \subseteq timers,
         \/ row' = row /\ shown' = shown
         \/ Removed({m}) /\ m \notin timers'
  PROVE  /\ Lists' /\ Order' /\ Clean' /\ MapTypes' /\ \A k \in Mounts : Up(k)'
         /\ loose' \subseteq Mounts /\ torn' \subseteq Mounts
<1>1. watch \in [Mounts -> Watches] /\ {m} \in SUBSET Mounts
  BY DEF MountInv, Types, MapTypes
<1>2. /\ List(syncers') /\ ToSet(syncers') = ToSet(syncers) \ {m}
      /\ watch' \in [Mounts -> Watches] /\ syncing' \in [Mounts -> SUBSET Kinds]
      /\ loose' \subseteq Mounts /\ torn' \subseteq Mounts /\ torn \subseteq torn'
      /\ \A k \in Mounts : /\ watch'[k] = IF k \in {m} THEN "off" ELSE watch[k]
                           /\ k \in loose' <=> k \in loose \/ (k \in {m} /\ watch[k] = "opening")
  BY <1>1, DroppedLists
<1>3. /\ row' \in [Mounts -> Rows] /\ shown' \in [Mounts -> Shows]
      /\ \A k \in Mounts \ {m} : row'[k] = row[k] /\ shown'[k] = shown[k]
      /\ (row'[m] = row[m] /\ shown'[m] = shown[m])
         \/ (row'[m] = "gone" /\ m \notin timers' /\ (quit = "no" => shown'[m] = "absent"))
  <2>1. CASE row' = row /\ shown' = shown
    BY <2>1 DEF MountInv, Types, MapTypes
  <2>2. CASE Removed({m}) /\ m \notin timers'
    <3>1. row' = [k \in Mounts |-> IF k \in {m} THEN "gone" ELSE row[k]]
          /\ NodesChanged({m}, "absent")
      BY <2>2 DEF Removed
    <3>2. /\ shown' \in [Mounts -> Shows] /\ \A k \in Mounts \ {m} : shown'[k] = shown[k]
          /\ quit = "no" => \A k \in Mounts \cap {m} : shown'[k] = "absent"
      BY <3>1, ChangedShown DEF MountInv, Types, Shows
    <3>3. QED
      BY <2>2, <3>1, <3>2 DEF MountInv, Types, MapTypes, Rows
  <2>3. QED
    BY <2>1, <2>2
<1>4. Lists' /\ Clean'
  BY <1>2 DEF MountInv, Lists, Clean
<1>5. Order'
  <2>1. boot = "worker" => syncers' = <<>>
    <3>1. boot = "worker" => ToSet(syncers') = {}
      BY <1>2, MountList DEF MountInv, Order
    <3>2. QED
      BY <1>2, <3>1, EmptyList
  <2>2. QED
    BY <2>1 DEF MountInv, Order
<1>6. ASSUME NEW k \in Mounts PROVE Up(k)'
  <2>1. CASE k = m
    <3>1. m \notin removing' /\ (m \in timers' => m \in timers) /\ m \in {m}
      OBVIOUS
    <3>2. QED
      BY <1>1, <1>3, <2>1, <3>1, DroppedUp
  <2>2. CASE k # m
    <3>1. Up(k) /\ (AwaitsWatcher(k)' <=> AwaitsWatcher(k)) /\ (InTodo(k)' <=> InTodo(k))
          /\ (Later(k)' <=> Later(k)) /\ (Registered(k)' <=> Registered(k))
      BY <1>2, <2>2 DEF MountInv, AwaitsWatcher, InTodo, Later, Registered
    <3>2. watch'[k] = watch[k] /\ row'[k] = row[k] /\ shown'[k] = shown[k]
          /\ (k \in loose' => k \in loose)
      BY <1>2, <1>3, <2>2
    <3>3. QED
      BY <1>2, <2>2, <3>1, <3>2, UpStays
  <2>3. QED
    BY <2>1, <2>2
<1>7. QED
  BY <1>2, <1>3, <1>4, <1>5, <1>6 DEF MapTypes

LEMMA RemoveMountKeeps == ASSUME MountInv, NEW m \in Mounts, RemoveMount(m) PROVE MountInv'
<1>1. row[m] = "live" /\ m \notin removing /\ timers' = timers \ {m}
  BY DEF RemoveMount, Live
<1>2. UNCHANGED <<boot, quit, started, todo, opening, closing, queued, calm, faults, edits>>
  BY DEF RemoveMount, life
<1>3. CASE Awaits(m)
  <2>1. /\ removing' = removing \cup {m} /\ watch' = [watch EXCEPT ![m] = "closing"]
        /\ UNCHANGED <<row, shown, torn, syncers, loose, syncing>>
    BY <1>3 DEF RemoveMount
  <2>2. Types'
    BY <1>1, <1>2, <2>1 DEF MountInv, Types, FlagTypes, MapTypes, SetTypes, CountTypes, Watches
  <2>3. Lists' /\ Order' /\ Clean'
    BY <1>1, <1>2, <2>1 DEF MountInv, Lists, Order, Clean
  <2>4. ASSUME NEW k \in Mounts PROVE Up(k)'
    <3>1. Up(k) /\ (AwaitsWatcher(k)' <=> AwaitsWatcher(k)) /\ (InTodo(k)' <=> InTodo(k))
          /\ (Later(k)' <=> Later(k)) /\ (Registered(k)' <=> Registered(k))
      BY <1>2, <2>1 DEF MountInv, AwaitsWatcher, InTodo, Later, Registered
    <3>2. watch'[k] = IF k = m THEN "closing" ELSE watch[k]
      BY <2>1 DEF MountInv, Types, MapTypes
    <3>3. CASE k # m
      BY <1>1, <1>2, <2>1, <3>1, <3>2, <3>3, UpStays
    <3>4. CASE k = m
      <4>1. Registered(m) /\ ~AwaitsWatcher(m) /\ ~Later(m) /\ m \notin timers'
        BY <1>1, <1>3, <3>1, <3>4 DEF Up, Awaits
      <4>2. QED
        BY <1>1, <1>2, <2>1, <3>1, <3>2, <3>4, <4>1 DEF Up
    <3>5. QED
      BY <3>3, <3>4
  <2>5. QED
    BY <2>2, <2>3, <2>4 DEF MountInv
<1>4. CASE ~Awaits(m)
  <2>1. Dropped({m}, watch) /\ Removed({m}) /\ removing' = removing
    BY <1>4 DEF RemoveMount
  <2>2. removing' = removing \ {m} /\ timers' \subseteq timers /\ m \notin timers'
    BY <1>1, <2>1
  <2>3. /\ Lists' /\ Order' /\ Clean' /\ MapTypes' /\ \A k \in Mounts : Up(k)'
        /\ loose' \subseteq Mounts /\ torn' \subseteq Mounts
    BY <1>2, <2>1, <2>2, OneDropped
  <2>4. Types'
    BY <1>1, <1>2, <2>1, <2>3 DEF MountInv, Types, FlagTypes, SetTypes, CountTypes
  <2>5. QED
    BY <2>3, <2>4 DEF MountInv
<1>5. QED
  BY <1>3, <1>4

LEMMA WatchClosedKeeps == ASSUME MountInv, NEW m \in Mounts, WatchClosed(m) PROVE MountInv'
<1>1. /\ watch[m] = "closing"
      /\ IF m \in removing THEN Removed({m}) /\ removing' = removing \ {m}
                           ELSE UNCHANGED <<row, shown, removing>>
  BY DEF WatchClosed
<1>2. UNCHANGED <<boot, todo, opening, timers, queued, calm, faults, edits>>
  BY DEF WatchClosed
<1>3. removing' = removing \ {m} /\ (m \in removing => m \notin timers)
  <2>1. m \in removing => m \notin timers
    BY DEF MountInv, Up
  <2>2. QED
    BY <1>1, <2>1
<1>4. CASE quit = "closing" /\ Head(closing) = m
  <2> DEFINE t == Tail(closing)
  <2>1. CloseFrom(t, {m}, watch)
    BY <1>4 DEF WatchClosed
  <2>2. List(t) /\ ToSet(closing) = ToSet(t) \cup {m} /\ {m} \cap ToSet(t) = {}
    <3>1. List(closing) /\ closing # <<>>
      BY <1>4 DEF MountInv, Lists, Order
    <3>2. QED
      BY <1>4, <3>1, HeadAndTail
  <2> HIDE DEF t
  <2>3. /\ shown' = shown /\ row' \in [Mounts -> Rows]
        /\ \A k \in Mounts \ {m} : row'[k] = row[k]
        /\ (row'[m] = row[m] \/ (row'[m] = "gone" /\ m \in removing))
    BY <1>1, <1>4 DEF Removed, NodesChanged, MountInv, Types, MapTypes, Rows
  <2>4. /\ \A k \in Mounts : Up(k)'
        /\ List(syncers') /\ ToSet(syncers') \subseteq ToSet(syncers)
        /\ List(closing') /\ quit' \in {"closing", "closed"}
        /\ (quit' = "closing") <=> (closing' # <<>>)
        /\ ToSet(syncers) \subseteq ToSet(t) \cup {m} => ToSet(syncers') \subseteq ToSet(closing')
        /\ started' \in {started, FALSE} /\ (quit' = "closed" => ~started')
        /\ watch' \in [Mounts -> Watches] /\ syncing' \in [Mounts -> SUBSET Kinds]
        /\ loose' \subseteq Mounts /\ torn' \subseteq Mounts
    <3>1. \A k \in {m} : row'[k] = row[k] \/ (row'[k] = "gone" /\ k \notin timers')
      BY <1>2, <1>3, <2>3
    <3>2. quit # "no" /\ timers' \subseteq timers /\ {m} \in SUBSET Mounts
      BY <1>2, <1>4
    <3>3. QED
      BY <1>2, <1>3, <2>1, <2>2, <2>3, <3>1, <3>2, ClosesFrom
  <2>5. Types'
    <3>1. FlagTypes' /\ SetTypes' /\ CountTypes'
      BY <1>2, <1>3, <2>4 DEF MountInv, Types, FlagTypes, SetTypes, CountTypes, Quits
    <3>2. MapTypes'
      BY <2>3, <2>4 DEF MountInv, Types, MapTypes
    <3>3. QED
      BY <3>1, <3>2 DEF Types
  <2>6. Lists'
    BY <1>2, <2>4 DEF MountInv, Lists
  <2>7. Order'
    <3>1. boot = "worker" => ToSet(syncers') = {} /\ ~started'
      BY <2>4, MountList DEF MountInv, Order
    <3>2. boot = "worker" => syncers' = <<>>
      BY <2>4, <3>1, EmptyList
    <3>3. QED
      BY <1>2, <2>4, <3>1, <3>2 DEF MountInv, Order
  <2>8. Clean'
    <3>1. calm => ToSet(syncers) \subseteq ToSet(t) \cup {m}
      BY <1>4, <2>2 DEF MountInv, Clean
    <3>2. calm => boot = "done" /\ opening = {} /\ timers = {}
      BY <1>4 DEF MountInv, Clean
    <3>3. QED
      BY <1>2, <2>4, <3>1, <3>2 DEF Clean
  <2>9. QED
    BY <2>4, <2>5, <2>6, <2>7, <2>8 DEF MountInv
<1>5. CASE ~(quit = "closing" /\ Head(closing) = m)
  <2>1. Dropped({m}, watch) /\ UNCHANGED <<quit, started, closing>>
    BY <1>5 DEF WatchClosed
  <2>2. \/ row' = row /\ shown' = shown
        \/ Removed({m}) /\ m \notin timers'
    BY <1>1, <1>2, <1>3
  <2>3. /\ Lists' /\ Order' /\ Clean' /\ MapTypes' /\ \A k \in Mounts : Up(k)'
        /\ loose' \subseteq Mounts /\ torn' \subseteq Mounts
    BY <1>2, <1>3, <2>1, <2>2, OneDropped
  <2>4. Types'
    BY <1>2, <1>3, <2>1, <2>3 DEF MountInv, Types, FlagTypes, SetTypes, CountTypes
  <2>5. QED
    BY <2>3, <2>4 DEF MountInv
<1>6. QED
  BY <1>4, <1>5

LEMMA MountNext == MountInv /\ [Next]_vars => MountInv'
<1> SUFFICES ASSUME MountInv, [Next]_vars PROVE MountInv'
  OBVIOUS
<1>1. CASE Start
  BY <1>1, StartKeeps
<1>2. CASE Quit
  BY <1>2, QuitKeeps
<1>3. CASE Close
  BY <1>3, CloseKeeps
<1>4. ASSUME NEW m \in Mounts, \/ Create(m) \/ WatchReady(m) \/ WatchFails(m) \/ WatchEvent(m)
                               \/ Tick(m) \/ Serve(m) \/ RemoveMount(m) \/ WatchClosed(m)
      PROVE MountInv'
  BY <1>4, CreateKeeps, WatchReadyKeeps, WatchFailsKeeps, WatchEventKeeps, TickKeeps,
     ServeKeeps, RemoveMountKeeps, WatchClosedKeeps
<1>5. ASSUME NEW m \in Mounts, NEW kind \in Kinds, SyncEnds(m, kind) \/ SyncFails(m, kind)
      PROVE MountInv'
  BY <1>5, SyncStops
<1>6. CASE UNCHANGED vars
  BY <1>6, StutterKeeps
<1>7. QED
  BY <1>1, <1>2, <1>3, <1>4, <1>5, <1>6 DEF Next

LEMMA MountsInvariant == Spec => []MountInv
<1>1. QED
  BY MountInit, MountNext, PTL DEF Spec

(* Every variable of the mounts has its type, the map of syncers holds a   *)
(* mount once, and a watcher that is not off has its syncer                *)
(* (vfs.service.ts startWatching, stopSyncer).                             *)
THEOREM TypeCorrect == Spec => []TypeOK
<1>1. MountInv => TypeOK
  <2> SUFFICES ASSUME MountInv PROVE TypeOK
    OBVIOUS
  <2>1. FlagTypes /\ MapTypes /\ SetTypes /\ CountTypes
    BY DEF MountInv, Types
  <2>2. \A m \in Mounts : watch[m] # "off" => Registered(m)
    BY DEF MountInv, Up
  <2>3. List(syncers) /\ List(todo) /\ List(closing)
    BY DEF MountInv, Lists
  <2>4. QED
    BY <2>1, <2>2, <2>3
    DEF TypeOK, FlagTypes, MapTypes, SetTypes, CountTypes, List, Boots, Quits, Rows, Watches, Shows
<1>2. QED
  BY <1>1, MountsInvariant, PTL

(* A removed mount has no syncer, timer, watcher or place in the view,     *)
(* unless start or its creation was not done with it (vfs.service.ts       *)
(* delete): whatever order removals, ticks, watchers and the close take.   *)
THEOREM RemovedIsDown == Spec => []GoneIsDown
<1>1. MountInv => GoneIsDown
  BY DEF MountInv, Up, Down, GoneIsDown
<1>2. QED
  BY <1>1, MountsInvariant, PTL

(* A closed service keeps nothing running, unless start or a creation ran  *)
(* beside the close (vfs.service.ts close).                                *)
THEOREM ClosedIsClean == Spec => []CloseIsClean
<1>1. MountInv => CloseIsClean
  <2> SUFFICES ASSUME MountInv, quit = "closed", calm
               PROVE  ~started /\ syncers = <<>> /\ timers = {} /\ loose \subseteq torn
    BY DEF CloseIsClean
  <2>1. ~started /\ timers = {} /\ ToSet(syncers) \subseteq ToSet(closing) /\ closing = <<>>
    BY DEF MountInv, Clean, Order
  <2>2. syncers = <<>>
    BY <2>1, MountList, EmptyList DEF MountInv, Lists
  <2>3. loose \subseteq torn
    BY DEF MountInv, Types, SetTypes, Up
  <2>4. QED
    BY <2>1, <2>2, <2>3
<1>2. QED
  BY <1>1, MountsInvariant, PTL

=============================================================================
