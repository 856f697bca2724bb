-------------------------- MODULE ContentSyncProofs --------------------------
(***************************************************************************)
(* Proofs about ContentSync: the local copy is never a piece of a file or  *)
(* a mixture, for any versions of any sizes, any number of failures and    *)
(* restarts, unless its own download resumed a part of another version.    *)
(***************************************************************************)
EXTENDS ContentSync, TLAPS

-----------------------------------------------------------------------------
Copy == [phase : {"idle", "fetch", "hash", "apply", "prepare", "open", "read"},
         prev : Some, got : Partial, same : BOOLEAN, offset : Nat, retried : BOOLEAN,
         stream : Some]

(* What a stream has written so far is a beginning of its version.         *)
PartIsBegun ==
  ~mixed /\ copy.phase = "read" =>
    /\ Len(part) <= Sizes[copy.stream]
    /\ \A i \in 1..Len(part) : part[i] = copy.stream

(* While a file is downloaded there is no copy of it.                      *)
NoCopyYet == copy.phase \in {"open", "read"} => final = <<>>

CopyInv == TypeOK /\ PartIsBegun /\ NoCopyYet /\ CopyIsWhole

-----------------------------------------------------------------------------
LEMMA SizesArePositive == /\ Versions \subseteq Nat \ {0} /\ 1 \in Versions
                          /\ \A v \in Versions : Sizes[v] \in Nat \ {0}
BY ContentAssumption DEF Versions

(* A sequence of as many blocks of a version as it has is that version.    *)
LEMMA FullIsWhole ==
  ASSUME NEW v \in Versions, NEW s \in Seq(Versions), Len(s) = Sizes[v],
         \A i \in 1..Len(s) : s[i] = v
  PROVE  s = Whole(v)
BY DEF Whole

(* A beginning of a version has only its blocks, and no more of them.      *)
LEMMA PrefixOfWhole ==
  ASSUME NEW v \in Versions, NEW s \in Seq(Versions), IsPrefix(s, Whole(v))
  PROVE  Len(s) <= Sizes[v] /\ \A i \in 1..Len(s) : s[i] = v
<1>1. Sizes[v] \in Nat /\ Whole(v) \in Seq(Versions) /\ Len(Whole(v)) = Sizes[v]
  <2>1. Sizes[v] \in Nat
    BY SizesArePositive
  <2>2. Whole(v) \in [1..Sizes[v] -> Versions]
    BY DEF Whole
  <2>3. QED
    BY <2>1, <2>2
<1>2. Len(s) <= Sizes[v] /\ SubSeq(s, 1, Len(s)) = SubSeq(Whole(v), 1, Len(s))
  BY <1>1 DEF IsPrefix
<1>3. ASSUME NEW i \in 1..Len(s) PROVE s[i] = v
  <2>1. SubSeq(s, 1, Len(s))[i] = s[i]
    OBVIOUS
  <2>2. SubSeq(Whole(v), 1, Len(s))[i] = Whole(v)[i]
    BY <1>1, <1>2
  <2>3. Whole(v)[i] = v
    BY <1>1, <1>2 DEF Whole
  <2>4. QED
    BY <1>2, <2>1, <2>2, <2>3
<1>4. QED
  BY <1>2, <1>3

-----------------------------------------------------------------------------
(* Records of the three who read a node.                                   *)
Node    == Full \cup {None}
RowRec  == [on : BOOLEAN, snap : Node]
SyncRec == [phase : {"idle", "list", "hash"}, node : Node, seen : Partial]
MetaRec == [phase : {"idle", "fetch", "hash", "apply"}, got : Partial, same : BOOLEAN]

(* Of the type, the part each group of steps leaves alone.                 *)
SourceType == remote \in Versions /\ node \in Node
RowType    == rowM \in RowRec /\ rowC \in RowRec
SyncType   == sync \in SyncRec /\ Halves(sync.seen, sync.phase = "list", sync.phase = "hash")
MetaType   == meta \in MetaRec /\ Halves(meta.got, meta.phase = "hash", meta.phase = "apply")
CopierType == /\ copy \in Copy
              /\ Halves(copy.got, copy.phase = "hash",
                        copy.phase \in {"apply", "prepare", "open", "read"})
              /\ copy.phase = "read" => copy.stream \in Versions
FileType   == final \in Seq(Versions) /\ part \in Seq(Versions)
              /\ faults \in 0..MaxFaults
HistType   == mixed \in BOOLEAN /\ dropped \in BOOLEAN

LEMMA TypeParts ==
  TypeOK <=> SourceType /\ RowType /\ SyncType /\ MetaType /\ CopierType /\ FileType /\ HistType
BY DEF TypeOK, SourceType, RowType, SyncType, MetaType, CopierType, FileType, HistType, Node,
       RowRec, SyncRec, MetaRec, Copy

LEMMA TypePartsNext ==
  TypeOK' <=> SourceType' /\ RowType' /\ SyncType' /\ MetaType' /\ CopierType' /\ FileType'
              /\ HistType'
BY TypeParts, PTL

LEMMA SomeFacts == /\ Versions \subseteq Some /\ 0 \in Some /\ 0 \notin Versions
                   /\ Full \subseteq Partial /\ None \in Partial /\ Node \subseteq Partial
                   /\ None \in Node /\ Full \subseteq Node
BY SizesArePositive DEF Some, Full, Partial, None, Known, Node

(* A node read in two halves: the first is partial, with both it is full.  *)
LEMMA KnownTypes == /\ \A v \in Versions : Known(v, 0) \in Partial /\ Known(v, 0).stat \in Versions
                    /\ \A v, w \in Versions : Known(v, w) \in Full
BY DEF Some, Full, Partial, Known

LEMMA HashTypes ==
  /\ \A k \in Partial : k.hash \in Some /\ k.stat \in Some
  /\ \A k \in Node : k.hash \in Some /\ (k # None => k \in Full)
<1>1. \A k \in Partial : k.hash \in Some /\ k.stat \in Some
  BY DEF Partial
<1>2. QED
  BY <1>1, SomeFacts DEF Node

LEMMA CopyIdleType == CopyIdle \in Copy /\ CopyIdle.phase = "idle"
BY SomeFacts DEF CopyIdle, Copy

LEMMA IdleTypes == /\ NoSync \in SyncRec /\ NoSync.phase = "idle"
                   /\ MetaIdle \in MetaRec /\ MetaIdle.phase = "idle"
BY SomeFacts DEF NoSync, MetaIdle, SyncRec, MetaRec

LEMMA RowTypes == NoRow \in RowRec /\ \A k \in Node : Row(k) \in RowRec
BY SomeFacts DEF RowRec, NoRow, Row

(* What a processor takes from its row is a node, or is still to be read.  *)
LEMMA FirstType ==
  ASSUME NEW r \in RowRec
  PROVE  /\ First(r) \in {"fetch", "apply"} /\ r.snap \in Node
         /\ First(r) = "apply" => r.snap \in Full
BY HashTypes DEF RowRec, First

LEMMA TypeInit == Init => TypeOK
<1> SUFFICES ASSUME Init
             PROVE  SourceType /\ RowType /\ SyncType /\ MetaType /\ CopierType /\ FileType
                    /\ HistType
  BY TypeParts
<1>1. SourceType
  BY SizesArePositive, SomeFacts DEF Init, SourceType
<1>2. RowType
  BY RowTypes, SomeFacts DEF Init, RowType
<1>3. SyncType /\ MetaType
  BY IdleTypes DEF Init, SyncType, MetaType, Halves
<1>4. CopierType
  BY CopyIdleType DEF Init, CopierType, Halves
<1>5. FileType
  BY ContentAssumption DEF Init, FileType
<1>6. HistType
  BY DEF Init, HistType
<1>7. QED
  BY <1>1, <1>2, <1>3, <1>4, <1>5, <1>6

(* A row is written: the processors notice that theirs is another one.     *)
LEMMA InsertTypes ==
  ASSUME MetaType, CopierType, HistType, NEW k \in Node, Insert(k)
  PROVE  RowType' /\ MetaType' /\ CopierType' /\ dropped' \in BOOLEAN
<1>1. RowType'
  BY RowTypes DEF Insert, RowType
<1>2. MetaType'
  <2>1. meta \in MetaRec /\ meta' = [meta EXCEPT !.same = FALSE]
    BY DEF Insert, MetaType
  <2>2. meta' \in MetaRec /\ meta'.phase = meta.phase /\ meta'.got = meta.got
    BY <2>1 DEF MetaRec
  <2>3. QED
    BY <2>2 DEF MetaType, Halves
<1>3. CopierType'
  <2>1. copy \in Copy /\ copy' = [copy EXCEPT !.same = FALSE]
    BY DEF Insert, CopierType
  <2>2. /\ copy' \in Copy /\ copy'.phase = copy.phase /\ copy'.got = copy.got
        /\ copy'.stream = copy.stream
    BY <2>1 DEF Copy
  <2>3. QED
    BY <2>2 DEF CopierType, Halves
<1>4. dropped' \in BOOLEAN
  BY DEF Insert
<1>5. QED
  BY <1>1, <1>2, <1>3, <1>4

LEMMA TypeNext == TypeOK /\ [Next]_vars => TypeOK'
<1> SUFFICES ASSUME TypeOK, [Next]_vars
             PROVE  SourceType' /\ RowType' /\ SyncType' /\ MetaType' /\ CopierType'
                    /\ FileType' /\ HistType'
  BY TypePartsNext
<1>t. /\ SourceType /\ RowType /\ SyncType /\ MetaType /\ CopierType /\ FileType /\ HistType
  BY TypeParts
<1>s. UNCHANGED <<remote, node>> => SourceType'
  BY <1>t DEF SourceType
<1>r. UNCHANGED rows => RowType'
  BY <1>t DEF RowType, rows
<1>y. UNCHANGED sync => SyncType'
  BY <1>t DEF SyncType, Halves
<1>m. UNCHANGED meta => MetaType'
  BY <1>t DEF MetaType, Halves
<1>c. UNCHANGED copy => CopierType'
  BY <1>t DEF CopierType, Halves
<1>f. UNCHANGED <<files, faults>> => FileType'
  BY <1>t DEF FileType, files
<1>h. UNCHANGED hist => HistType'
  BY <1>t DEF HistType, hist
<1>i. copy' = CopyIdle => CopierType'
  BY CopyIdleType DEF CopierType, Halves
<1>j. sync' = NoSync => SyncType'
  BY IdleTypes DEF SyncType, Halves
<1>k. meta' = MetaIdle => MetaType'
  BY IdleTypes DEF MetaType, Halves
<1>n. NoRow \in RowRec /\ None \in Node /\ Full \subseteq Node
  BY RowTypes, SomeFacts
<1>v. /\ remote \in Versions /\ remote \in Some /\ node \in Node /\ node.hash \in Some
      /\ Known(remote, 0) \in Partial /\ Known(remote, 0).stat \in Versions
  BY <1>t, SomeFacts, KnownTypes, HashTypes DEF SourceType
<1>w. ASSUME NEW k \in Partial, k.stat \in Versions
      PROVE  Known(k.stat, remote) \in Full /\ Known(k.stat, remote) \in Partial
  BY <1>v, <1>w, KnownTypes, SomeFacts
<1>1. CASE Change
  <2>1. SourceType'
    BY <1>t, <1>1, ContentAssumption DEF Change, SourceType, Versions
  <2>2. RowType' /\ MetaType' /\ CopierType' /\ dropped' \in BOOLEAN
    BY <1>t, <1>n, <1>1, InsertTypes DEF Change
  <2>3. QED
    BY <1>t, <1>y, <1>f, <1>1, <2>1, <2>2 DEF Change, HistType
<1>2. CASE SyncBegins
  <2>1. SyncType'
    BY <1>v, <1>2 DEF SyncBegins, SyncType, SyncRec, Halves
  <2>2. QED
    BY <1>s, <1>r, <1>m, <1>c, <1>f, <1>h, <1>2, <2>1 DEF SyncBegins
<1>3. CASE SyncHashes
  <2>1. sync \in SyncRec /\ sync.seen \in Partial /\ sync.seen.stat \in Versions
    BY <1>t, <1>3 DEF SyncHashes, SyncType, SyncRec, Halves
  <2> DEFINE k == Known(sync.seen.stat, remote)
  <2>2. k \in Full /\ k \in Partial /\ sync' = [sync EXCEPT !.phase = "hash", !.seen = k]
    BY <1>w, <1>3, <2>1 DEF SyncHashes
  <2> HIDE DEF k
  <2>3. sync' \in SyncRec /\ sync'.phase = "hash" /\ sync'.seen = k
    BY <2>1, <2>2 DEF SyncRec
  <2>4. SyncType'
    BY <2>2, <2>3 DEF SyncType, Halves
  <2>5. QED
    BY <1>s, <1>r, <1>m, <1>c, <1>f, <1>h, <1>3, <2>4 DEF SyncHashes
<1>4. CASE SyncEnds
  <2>1. sync.seen \in Node
    BY <1>t, <1>n, <1>4 DEF SyncEnds, SyncType, Halves
  <2>2. CASE Insert(sync.seen)
    <3>1. RowType' /\ MetaType' /\ CopierType' /\ dropped' \in BOOLEAN
      BY <1>t, <2>1, <2>2, InsertTypes
    <3>2. QED
      BY <1>t, <1>s, <1>j, <1>f, <1>4, <3>1 DEF SyncEnds, HistType
  <2>3. CASE UNCHANGED <<rows, meta, copy, dropped>>
    BY <1>s, <1>r, <1>j, <1>m, <1>c, <1>f, <1>h, <1>4, <2>3 DEF SyncEnds, hist
  <2>4. QED
    BY <1>4, <2>2, <2>3 DEF SyncEnds
<1>5. CASE Restart
  <2>1. FileType'
    BY <1>t, <1>5, ContentAssumption DEF Restart, FileType, files
  <2>2. QED
    BY <1>s, <1>r, <1>j, <1>k, <1>i, <1>h, <1>5, <2>1 DEF Restart
<1>6. CASE MetaTakes
  <2>1. /\ First(rowM) \in {"fetch", "apply"} /\ rowM.snap \in Node
        /\ First(rowM) = "apply" => rowM.snap \in Full
    BY <1>t, FirstType DEF RowType
  <2>2. MetaType'
    BY <1>6, <2>1, SomeFacts DEF MetaTakes, MetaType, MetaRec, Halves
  <2>3. QED
    BY <1>s, <1>r, <1>y, <1>c, <1>f, <1>h, <1>6, <2>2 DEF MetaTakes
<1>7. CASE MetaFetches
  <2> DEFINE k == Known(remote, 0)
  <2>1. meta \in MetaRec /\ meta' = [meta EXCEPT !.phase = "hash", !.got = k]
    BY <1>t, <1>7 DEF MetaFetches, MetaType
  <2>2. k \in Partial /\ k.stat \in Versions
    BY <1>v
  <2> HIDE DEF k
  <2>3. meta' \in MetaRec /\ meta'.phase = "hash" /\ meta'.got = k
    BY <2>1, <2>2 DEF MetaRec
  <2>4. MetaType'
    BY <2>2, <2>3 DEF MetaType, Halves
  <2>5. QED
    BY <1>s, <1>r, <1>y, <1>c, <1>f, <1>h, <1>7, <2>4 DEF MetaFetches
<1>8. CASE MetaHashes
  <2>1. meta \in MetaRec /\ meta.got \in Partial /\ meta.got.stat \in Versions
    BY <1>t, <1>8 DEF MetaHashes, MetaType, MetaRec, Halves
  <2> DEFINE k == Known(meta.got.stat, remote)
  <2>2. k \in Full /\ k \in Partial /\ meta' = [meta EXCEPT !.phase = "apply", !.got = k]
    BY <1>w, <1>8, <2>1 DEF MetaHashes
  <2> HIDE DEF k
  <2>3. meta' \in MetaRec /\ meta'.phase = "apply" /\ meta'.got = k
    BY <2>1, <2>2 DEF MetaRec
  <2>4. MetaType'
    BY <2>2, <2>3 DEF MetaType, Halves
  <2>5. QED
    BY <1>s, <1>r, <1>y, <1>c, <1>f, <1>h, <1>8, <2>4 DEF MetaHashes
<1>9. CASE MetaApplies
  <2>1. SourceType'
    BY <1>t, <1>n, <1>9 DEF MetaApplies, SourceType, MetaType, Halves
  <2>2. RowType'
    BY <1>t, <1>n, <1>9 DEF MetaApplies, RowType
  <2>3. QED
    BY <1>y, <1>k, <1>c, <1>f, <1>h, <1>9, <2>1, <2>2 DEF MetaApplies
<1>10. CASE Takes
  <2> DEFINE p == First(rowC)
  <2>1. p \in {"fetch", "apply"} /\ rowC.snap \in Node /\ (p = "apply" => rowC.snap \in Full)
    BY <1>t, FirstType DEF RowType
  <2>2. copy' = [CopyIdle EXCEPT !.phase = p, !.prev = node.hash, !.got = rowC.snap,
                                 !.same = TRUE]
    BY <1>10 DEF Takes
  <2> HIDE DEF p
  <2>3. copy' = [phase |-> p, prev |-> node.hash, got |-> rowC.snap, same |-> TRUE, offset |-> 0,
                 retried |-> FALSE, stream |-> 0]
    BY <2>2 DEF CopyIdle
  <2>4. copy' \in Copy /\ copy'.phase = p /\ copy'.got = rowC.snap
    BY <1>v, <2>1, <2>3, SomeFacts DEF Copy
  <2>5. CopierType'
    BY <2>1, <2>4 DEF CopierType, Halves
  <2>6. QED
    BY <1>s, <1>r, <1>y, <1>m, <1>f, <1>h, <1>10, <2>5 DEF Takes
<1>11. CASE Fetches
  <2> DEFINE k == Known(remote, 0)
  <2>1. copy \in Copy /\ copy' = [copy EXCEPT !.phase = "hash", !.got = k]
    BY <1>t, <1>11 DEF Fetches, CopierType
  <2>2. k \in Partial /\ k.stat \in Versions
    BY <1>v
  <2> HIDE DEF k
  <2>3. copy' \in Copy /\ copy'.phase = "hash" /\ copy'.got = k
    BY <2>1, <2>2 DEF Copy
  <2>4. CopierType'
    BY <2>2, <2>3 DEF CopierType, Halves
  <2>5. QED
    BY <1>s, <1>r, <1>y, <1>m, <1>f, <1>h, <1>11, <2>4 DEF Fetches
<1>12. CASE Hashes
  <2>1. copy \in Copy /\ copy.got \in Partial /\ copy.got.stat \in Versions
    BY <1>t, <1>12 DEF Hashes, CopierType, Copy, Halves
  <2> DEFINE k == Known(copy.got.stat, remote)
  <2>2. k \in Full /\ k \in Partial /\ copy' = [copy EXCEPT !.phase = "apply", !.got = k]
    BY <1>w, <1>12, <2>1 DEF Hashes
  <2> HIDE DEF k
  <2>3. copy' \in Copy /\ copy'.phase = "apply" /\ copy'.got = k
    BY <2>1, <2>2 DEF Copy
  <2>4. CopierType'
    BY <2>2, <2>3 DEF CopierType, Halves
  <2>5. QED
    BY <1>s, <1>r, <1>y, <1>m, <1>f, <1>h, <1>12, <2>4 DEF Hashes
<1>13. CASE Applies
  <2>1. copy \in Copy /\ copy.got \in Full /\ copy' = [copy EXCEPT !.phase = "prepare"]
    BY <1>t, <1>13 DEF Applies, CopierType, Halves
  <2>2. copy' \in Copy /\ copy'.phase = "prepare" /\ copy'.got = copy.got
    BY <2>1 DEF Copy
  <2>3. CopierType'
    BY <2>1, <2>2 DEF CopierType, Halves
  <2>4. SourceType'
    BY <1>t, <1>n, <1>13, <2>1 DEF Applies, SourceType
  <2>5. QED
    BY <1>r, <1>y, <1>m, <1>f, <1>h, <1>13, <2>3, <2>4 DEF Applies
<1>14. CASE Prepares
  <2> DEFINE o == IF copy.prev \in {0, copy.got.hash} /\ Len(part) <= Sizes[copy.got.stat]
                  THEN Len(part) ELSE 0
  <2>1. FileType'
    <3>1. final' \in {final, <<>>} /\ part' \in {part, <<>>} /\ faults' = faults
      BY <1>14 DEF Prepares, files
    <3>2. final \in Seq(Versions) /\ part \in Seq(Versions) /\ <<>> \in Seq(Versions)
      BY <1>t DEF FileType
    <3>3. final' \in Seq(Versions) /\ part' \in Seq(Versions)
      BY <3>1, <3>2, Zenon
    <3>4. QED
      BY <1>t, <3>1, <3>3 DEF FileType
  <2>2. o \in Nat
    BY <1>t DEF FileType
  <2>3. \/ copy' = CopyIdle /\ rowC' \in {rowC, NoRow}
        \/ copy' = [copy EXCEPT !.phase = "open", !.offset = o] /\ UNCHANGED rowC
    BY <1>14 DEF Prepares, Served, OpenAt
  <2> HIDE DEF o
  <2>4. RowType'
    BY <1>t, <1>n, <1>14, <2>3 DEF Prepares, RowType
  <2>5. CopierType'
    <3>1. copy \in Copy /\ copy.got \in Full
      BY <1>t, <1>14 DEF CopierType, Prepares, Halves
    <3>2. CASE copy' = [copy EXCEPT !.phase = "open", !.offset = o]
      <4>1. copy' \in Copy /\ copy'.phase = "open" /\ copy'.got = copy.got
        BY <2>2, <3>1, <3>2 DEF Copy
      <4>2. QED
        BY <3>1, <4>1 DEF CopierType, Halves
    <3>3. QED
      BY <1>i, <2>3, <3>2
  <2>6. QED
    BY <1>s, <1>y, <1>m, <1>h, <1>14, <2>1, <2>4, <2>5 DEF Prepares
<1>15. CASE Opens
  <2>1. copy \in Copy /\ copy.got \in Full /\ copy' = [copy EXCEPT !.phase = "read", !.stream = remote]
    BY <1>t, <1>15 DEF CopierType, Halves, Opens, Streams
  <2>2. /\ copy' \in Copy /\ copy'.phase = "read" /\ copy'.got = copy.got
        /\ copy'.stream = remote
    BY <1>v, <2>1 DEF Copy
  <2>3. CopierType'
    BY <1>v, <2>1, <2>2 DEF CopierType, Halves
  <2>4. FileType'
    BY <1>t, <1>15 DEF Opens, FileType
  <2>5. HistType'
    BY <1>t, <1>15 DEF Opens, HistType
  <2>6. QED
    BY <1>s, <1>r, <1>y, <1>m, <1>15, <2>3, <2>4, <2>5 DEF Opens
<1>16. CASE ReadsBlock
  <2>1. FileType'
    BY <1>t, <1>16 DEF ReadsBlock, FileType, CopierType
  <2>2. QED
    BY <1>s, <1>r, <1>y, <1>m, <1>c, <1>h, <1>16, <2>1 DEF ReadsBlock
<1>17. CASE Renames
  <2>1. FileType'
    BY <1>t, <1>17 DEF Renames, FileType
  <2>2. RowType' /\ CopierType'
    BY <1>t, <1>i, <1>n, <1>17 DEF Renames, Served, RowType
  <2>3. QED
    BY <1>s, <1>y, <1>m, <1>h, <1>17, <2>1, <2>2 DEF Renames
<1>18. CASE Fails
  <2>1. FileType'
    <3>1. part' \in {part, <<>>} /\ final' = final /\ faults < MaxFaults /\ faults' = faults + 1
      BY <1>18 DEF Fails
    <3>2. part \in Seq(Versions) /\ <<>> \in Seq(Versions)
      BY <1>t DEF FileType
    <3>3. part' \in Seq(Versions)
      BY <3>1, <3>2, Zenon
    <3>4. faults' \in 0..MaxFaults
      BY <1>t, <3>1, ContentAssumption DEF FileType
    <3>5. QED
      BY <1>t, <3>1, <3>3, <3>4 DEF FileType
  <2>2. RowType'
    BY <1>t, <1>n, <1>18 DEF Fails, Served, RowType
  <2>3. copy \in Copy /\ copy.got \in Full /\ copy.same \in BOOLEAN
    BY <1>t, <1>18 DEF CopierType, Fails, Halves, Copy
  <2>4. HistType'
    BY <1>t, <1>18, <2>3, Zenon DEF Fails, HistType
  <2>5. CopierType'
    <3>1. \/ copy' = CopyIdle
          \/ copy' = [copy EXCEPT !.phase = "open", !.offset = 0, !.retried = TRUE]
      BY <1>18 DEF Fails, Served
    <3>2. CASE copy' = [copy EXCEPT !.phase = "open", !.offset = 0, !.retried = TRUE]
      <4>1. copy' \in Copy /\ copy'.phase = "open" /\ copy'.got = copy.got
        BY <2>3, <3>2 DEF Copy
      <4>2. QED
        BY <2>3, <4>1 DEF CopierType, Halves
    <3>3. QED
      BY <1>i, <3>1, <3>2
  <2>6. QED
    BY <1>s, <1>y, <1>m, <1>18, <2>1, <2>2, <2>4, <2>5 DEF Fails
<1>19. CASE UNCHANGED vars
  BY <1>s, <1>r, <1>y, <1>m, <1>c, <1>f, <1>h, <1>19 DEF vars, rows, files, hist
<1>20. QED
  BY <1>1, <1>2, <1>3, <1>4, <1>5, <1>6, <1>7, <1>8, <1>9, <1>10, <1>11, <1>12, <1>13, <1>14,
     <1>15, <1>16, <1>17, <1>18, <1>19 DEF Next

(* Every reachable state is well typed, for any versions and bounds.       *)
THEOREM TypeCorrect == Spec => []TypeOK
BY TypeInit, TypeNext, PTL DEF Spec

-----------------------------------------------------------------------------
LEMMA WholeInit == Init => CopyInv
BY TypeInit DEF Init, CopyIdle, CopyInv, PartIsBegun, NoCopyYet, CopyIsWhole

LEMMA WholeNext == CopyInv /\ [Next]_vars => CopyInv'
<1> SUFFICES ASSUME CopyInv, [Next]_vars PROVE PartIsBegun' /\ NoCopyYet' /\ CopyIsWhole'
  BY TypeNext DEF CopyInv
<1> USE DEF CopyInv
<1>c. copy \in Copy /\ copy.offset \in Nat /\ part \in Seq(Versions)
  BY DEF TypeOK, Copy
<1>0. ASSUME UNCHANGED <<files, mixed>>, copy'.phase = copy.phase, copy'.stream = copy.stream
      PROVE  PartIsBegun' /\ NoCopyYet' /\ CopyIsWhole'
  BY <1>0 DEF files, PartIsBegun, NoCopyYet, CopyIsWhole
<1>1. ASSUME UNCHANGED <<files, mixed>>, copy'.phase \notin {"open", "read"}
      PROVE  PartIsBegun' /\ NoCopyYet' /\ CopyIsWhole'
  BY <1>1 DEF files, PartIsBegun, NoCopyYet, CopyIsWhole
<1>2. ASSUME copy'.phase = "open", final' = <<>>, UNCHANGED mixed
      PROVE  PartIsBegun' /\ NoCopyYet' /\ CopyIsWhole'
  BY <1>2 DEF PartIsBegun, NoCopyYet, CopyIsWhole
<1>3. CASE Change \/ SyncEnds
  <2>1. UNCHANGED <<files, mixed>> /\ copy' \in {copy, [copy EXCEPT !.same = FALSE]}
    BY <1>3 DEF Change, SyncEnds, Insert
  <2>2. copy'.phase = copy.phase /\ copy'.stream = copy.stream
    BY <1>c, <2>1 DEF Copy
  <2>3. QED
    BY <1>0, <2>1, <2>2
<1>4. CASE SyncBegins \/ SyncHashes \/ MetaTakes \/ MetaFetches \/ MetaHashes \/ MetaApplies
  BY <1>0, <1>4 DEF SyncBegins, SyncHashes, MetaTakes, MetaFetches, MetaHashes, MetaApplies, hist
<1>5. CASE Restart
  BY <1>1, <1>5, CopyIdleType DEF Restart, hist
<1>6. CASE Takes
  <2>1. copy'.phase = First(rowC)
    BY <1>6 DEF Takes, CopyIdle
  <2>2. copy'.phase \notin {"open", "read"}
    BY <2>1 DEF First
  <2>3. QED
    BY <1>1, <1>6, <2>2 DEF Takes, hist
<1>7. CASE Fetches \/ Hashes \/ Applies
  <2>1. UNCHANGED <<files, mixed>>
    BY <1>7 DEF Fetches, Hashes, Applies, hist
  <2>2. copy'.phase \in {"hash", "apply", "prepare"}
    BY <1>c, <1>7 DEF Fetches, Hashes, Applies, Copy
  <2>3. QED
    BY <1>1, <2>1, <2>2
<1>8. CASE Prepares
  <2>1. /\ \/ copy' = CopyIdle /\ UNCHANGED files
           \/ /\ \E o \in {0, Len(part)} : copy' = [copy EXCEPT !.phase = "open", !.offset = o]
              /\ final' = <<>>
        /\ UNCHANGED mixed
    BY <1>8 DEF Prepares, Served, OpenAt, hist
  <2>2. CASE copy' = CopyIdle /\ UNCHANGED files
    BY <1>1, <2>1, <2>2, CopyIdleType
  <2>3. ASSUME NEW o \in {0, Len(part)}, copy' = [copy EXCEPT !.phase = "open", !.offset = o]
        PROVE  copy'.phase = "open"
    BY <1>c, <2>3 DEF Copy
  <2>4. QED
    BY <1>2, <2>1, <2>2, <2>3
<1>9. CASE Opens
  <2>1. /\ copy'.phase = "read" /\ copy'.stream = remote /\ UNCHANGED final /\ final = <<>>
        /\ part' = IF copy.offset = 0 THEN <<>> ELSE part
        /\ mixed' = (copy.offset > 0 /\ ~IsPrefix(part, Whole(remote)))
    BY <1>c, <1>9 DEF Opens, Streams, Copy, NoCopyYet
  <2>2. CopyIsWhole' /\ NoCopyYet'
    BY <2>1 DEF CopyIsWhole, NoCopyYet
  <2>3. remote \in Versions /\ Sizes[remote] \in Nat
    BY SizesArePositive DEF TypeOK
  <2>4. CASE copy.offset = 0
    BY <2>1, <2>2, <2>3, <2>4 DEF PartIsBegun
  <2>5. CASE copy.offset > 0
    <3>1. ~mixed' => IsPrefix(part, Whole(remote))
      BY <2>1, <2>5
    <3>2. ~mixed' => Len(part) <= Sizes[remote] /\ \A i \in 1..Len(part) : part[i] = remote
      BY <1>c, <2>3, <3>1, PrefixOfWhole
    <3>3. part' = part
      BY <1>c, <2>1, <2>5
    <3>4. PartIsBegun'
      BY <2>1, <3>2, <3>3 DEF PartIsBegun
    <3>5. QED
      BY <2>2, <3>4
  <2>6. QED
    BY <1>c, <2>2, <2>4, <2>5
<1>10. CASE ReadsBlock
  <2>1. /\ copy.phase = "read" /\ Len(part) < Sizes[copy.stream]
        /\ part' = Append(part, copy.stream) /\ UNCHANGED <<copy, final, mixed>>
    BY <1>10 DEF ReadsBlock, hist
  <2>2. copy.stream \in Versions /\ Sizes[copy.stream] \in Nat
    BY <2>1, SizesArePositive DEF TypeOK
  <2>3. /\ Len(part') = Len(part) + 1 /\ part'[Len(part) + 1] = copy.stream
        /\ \A i \in 1..Len(part) : part'[i] = part[i]
    BY <1>c, <2>1, <2>2
  <2>4. PartIsBegun'
    BY <1>c, <2>1, <2>2, <2>3 DEF PartIsBegun
  <2>5. QED
    BY <2>1, <2>4 DEF NoCopyYet, CopyIsWhole
<1>11. CASE Renames
  <2>1. /\ copy.phase = "read" /\ Len(part) >= Sizes[copy.stream]
        /\ final' = part /\ copy' = CopyIdle /\ UNCHANGED mixed
    BY <1>11 DEF Renames, Served, hist
  <2>2. copy.stream \in Versions /\ Sizes[copy.stream] \in Nat
    BY <2>1, SizesArePositive DEF TypeOK
  <2>3. ~mixed => part = Whole(copy.stream)
    BY <1>c, <2>1, <2>2, FullIsWhole DEF PartIsBegun
  <2>4. QED
    BY <2>1, <2>2, <2>3, CopyIdleType DEF PartIsBegun, NoCopyYet, CopyIsWhole
<1>12. CASE Fails
  <2>1. /\ \/ copy' = CopyIdle
           \/ copy' = [copy EXCEPT !.phase = "open", !.offset = 0, !.retried = TRUE]
        /\ UNCHANGED <<final, mixed>> /\ final = <<>>
    BY <1>12 DEF Fails, Served, NoCopyYet
  <2>2. copy'.phase \in {"idle", "open"}
    BY <1>c, <2>1, CopyIdleType DEF Copy
  <2>3. QED
    BY <2>1, <2>2 DEF PartIsBegun, NoCopyYet, CopyIsWhole
<1>13. CASE UNCHANGED vars
  BY <1>0, <1>13 DEF vars, files
<1>14. QED
  BY <1>3, <1>4, <1>5, <1>6, <1>7, <1>8, <1>9, <1>10, <1>11, <1>12, <1>13 DEF Next

(* What is renamed to be the local copy is one version, whole, through     *)
(* failures, resumes and restarts (vfs.node-event-processor.ts             *)
(* downloadWithResume), unless its download resumed a part of another      *)
(* version.                                                                *)
THEOREM RenamedIsWhole == Spec => []CopyIsWhole
<1>1. CopyInv => CopyIsWhole
  BY DEF CopyInv
<1>2. QED
  BY <1>1, WholeInit, WholeNext, PTL DEF Spec
=============================================================================
