-------------------------- MODULE FilesWindowProofs --------------------------
(***************************************************************************)
(* Proofs about FilesWindow: the search panel shows what was asked for     *)
(* last, and the pages miss no file that stays, for any number of files,   *)
(* any page size and any number of timeouts and inputs.                    *)
(***************************************************************************)
EXTENDS FilesWindow, FiniteSetTheorems, WellFoundedInduction, TLAPS

-----------------------------------------------------------------------------
(* The search panel. Requests for a preview are numbered upwards, and the  *)
(* last one is for the file that is selected.                              *)

LatestInv ==
  /\ request \in Nat
  /\ \A p \in previews : p.id \in Nat /\ p.id <= request
  /\ \A p \in previews : p.id = request /\ selected # 0 => p.n = selected
  /\ ShowsLatest

LEMMA LatestInit == Init => LatestInv
BY DEF Init, LatestInv, ShowsLatest

(* A selection, whether of the user or of a search, keeps the previews in  *)
(* order.                                                                  *)
LEMMA SelectKeeps ==
  ASSUME LatestInv, NEW n, Select(n)
  PROVE  /\ request' \in Nat
         /\ \A p \in previews' : p.id \in Nat /\ p.id <= request'
         /\ \A p \in previews' : p.id = request' /\ selected' # 0 => p.n = selected'
         /\ selected' # 0 /\ ~loading' => preview' = selected'
<1> USE DEF LatestInv, ShowsLatest
<1>1. CASE n \in {0, selected}
  BY <1>1 DEF Select
<1>2. CASE n \notin {0, selected}
  <2>1. /\ selected' = n /\ request' = request + 1 /\ loading' = TRUE
        /\ previews' = previews \cup {[id |-> request + 1, n |-> n]}
    BY <1>2 DEF Select
  <2>2. QED
    BY <2>1
<1>3. QED
  BY <1>1, <1>2

LEMMA LatestNext == LatestInv /\ [Next]_vars => LatestInv'
<1> SUFFICES ASSUME LatestInv, [Next]_vars PROVE LatestInv'
  OBVIOUS
<1>1. ASSUME UNCHANGED <<panel, finder>> PROVE LatestInv'
  BY <1>1 DEF LatestInv, ShowsLatest, finder
<1>2. CASE Open \/ LoadMore \/ HostLists \/ ListArrives \/ HostRenames \/ RenameArrives
  BY <1>2, <1>1 DEF Open, LoadMore, HostLists, ListArrives, HostRenames, RenameArrives
<1>3. ASSUME NEW n \in Files \cup {Mount},
             Delete(n) \/ HostDeletes(n) \/ TimesOut(n) \/ LateDelete(n) \/ DeleteArrives(n)
      PROVE  LatestInv'
  BY <1>3, <1>1 DEF Delete, HostDeletes, TimesOut, LateDelete, DeleteArrives
<1>4. ASSUME NEW n \in Files, Upserts(n) \/ Marks(n) \/ (\E to \in Files : Rename(n, to))
      PROVE  LatestInv'
  BY <1>4, <1>1 DEF Upserts, Marks, Rename
<1>5. ASSUME NEW n \in Files, Click(n) PROVE LatestInv'
  <2>1. Select(n) /\ UNCHANGED <<panel, query, searching, resultsOf>>
    BY <1>5 DEF Click
  <2>2. QED
    BY <2>1, SelectKeeps DEF LatestInv, ShowsLatest
<1>6. CASE Type
  BY <1>6 DEF Type, LatestInv, ShowsLatest
<1>7. CASE Ask
  BY <1>7 DEF Ask, LatestInv, ShowsLatest
<1>8. ASSUME NEW q \in asked, Answer(q) PROVE LatestInv'
  <2>1. UNCHANGED <<panel, query>>
    BY <1>8 DEF Answer
  <2>2. CASE q # query
    BY <1>8, <2>1, <2>2 DEF Answer, LatestInv, ShowsLatest
  <2>3. CASE q = query /\ \E n \in Found(q) : Select(n)
    <3>1. resultsOf' = query
      BY <1>8, <2>3 DEF Answer
    <3>2. PICK n \in Found(q) : Select(n)
      BY <2>3
    <3>3. QED
      BY <2>1, <3>1, <3>2, SelectKeeps DEF LatestInv, ShowsLatest
  <2>4. CASE q = query /\ Cleared
    BY <1>8, <2>1, <2>4 DEF Answer, Cleared, LatestInv, ShowsLatest
  <2>5. QED
    BY <1>8, <2>2, <2>3, <2>4 DEF Answer
<1>9. ASSUME NEW p \in previews, Preview(p) PROVE LatestInv'
  BY <1>9 DEF Preview, Markdown, LatestInv, ShowsLatest
<1>10. CASE UNCHANGED vars
  BY <1>10, <1>1 DEF vars
<1>11. QED
  BY <1>2, <1>3, <1>4, <1>5, <1>6, <1>7, <1>8, <1>9, <1>10 DEF Next

(* The results are of the query in the box and the preview is of the       *)
(* selected file, in whatever order the answers come in (search-panel.tsx).*)
THEOREM LatestIsShown == Spec => []ShowsLatest
<1>1. LatestInv => ShowsLatest
  BY DEF LatestInv
<1>2. QED
  BY <1>1, LatestInit, LatestNext, PTL DEF Spec

-----------------------------------------------------------------------------
(* Pages. A page holds the first files after its cursor, and its last one  *)
(* is the next cursor.                                                     *)

(* A nonempty set of files has a least and a greatest one.                 *)
LEMMA Least ==
  ASSUME NEW S, S \subseteq Nat, S # {}
  PROVE  \E n \in S : \A m \in S : n <= m
<1> DEFINE R == OpToRel(<, Nat)
<1>1. IsWellFoundedOn(R, Nat)
  BY NatLessThanWellFounded, Zenon
<1>2. \A x, y \in S : y < x => <<y, x>> \in R
  BY DEF OpToRel
<1> HIDE DEF R
<1>3. PICK x \in S : \A y \in S : <<y, x>> \notin R
  BY <1>1, WFMin, Zenon
<1>4. \A y \in S : ~(y < x)
  BY <1>2, <1>3
<1>5. QED
  BY <1>4

LEMMA Greatest ==
  ASSUME NEW S, S \subseteq Files, S # {}
  PROVE  Max(S) \in S /\ \A n \in S : n <= Max(S)
<1> DEFINE T == {NumFiles - n : n \in S}
<1>1. T \subseteq Nat /\ T # {}
  BY WindowAssumption DEF Files
<1>2. PICK x \in T : \A y \in T : x <= y
  BY <1>1, Least, Zenon
<1>3. PICK n \in S : x = NumFiles - n
  OBVIOUS
<1>4. ASSUME NEW y \in S PROVE n >= y
  <2>1. NumFiles - y \in T
    OBVIOUS
  <2> HIDE DEF T
  <2>2. x <= NumFiles - y
    BY <1>2, <2>1
  <2>3. QED
    BY <1>3, <2>2, WindowAssumption DEF Files
<1>5. Max(S) \in S /\ \A y \in S : Max(S) >= y
  BY <1>4 DEF Max
<1>6. QED
  BY <1>5, WindowAssumption DEF Files

LEMMA FilesAreFinite ==
  \A S \in SUBSET Files : IsFiniteSet(S) /\ Cardinality(S) \in Nat
<1>1. IsFiniteSet(Files)
  BY FS_Interval, WindowAssumption DEF Files
<1>2. QED
  BY <1>1, FS_Subset, FS_CardinalityType

(* The first k of a set: at most k, closed downwards, and all of the set   *)
(* when it has no more than k.                                             *)
LEMMA FirstOf ==
  ASSUME NEW S, S \subseteq Files, NEW k \in Nat \ {0}
  PROVE  /\ First(S, k) \subseteq S /\ Cardinality(First(S, k)) <= k
         /\ \A x \in First(S, k) : \A n \in S : n <= x => n \in First(S, k)
         /\ Cardinality(S) <= k => First(S, k) = S
         /\ S # {} => First(S, k) # {}
<1> DEFINE Upto(n) == {x \in S : x <= n}
           F == First(S, k)
<1>1. F = {n \in S : Cardinality(Upto(n)) <= k}
  BY DEF First
<1>2. \A n : Upto(n) \subseteq S /\ Upto(n) \in SUBSET Files
  OBVIOUS
<1>n. S \subseteq Nat
  BY DEF Files
<1>3. \A n : IsFiniteSet(Upto(n)) /\ Cardinality(Upto(n)) \in Nat
  BY <1>2, FilesAreFinite
<1>4. F \subseteq S
  BY <1>1
<1>5. ASSUME NEW x \in F, NEW n \in S, n <= x PROVE n \in F
  <2>1. x \in S /\ Cardinality(Upto(x)) <= k
    BY <1>1
  <2>2. Upto(n) \subseteq Upto(x)
    <3>1. x \in Nat /\ n \in Nat /\ n <= x
      BY <1>5, <1>n, <2>1
    <3>2. \A y \in S : y <= n => y <= x
      BY <1>n, <3>1
    <3> HIDE DEF F
    <3>3. QED
      BY <3>2
  <2> HIDE DEF Upto
  <2>3. Cardinality(Upto(n)) <= Cardinality(Upto(x))
    BY <1>3, <2>2, FS_Subset
  <2>4. QED
    BY <1>1, <1>3, <2>1, <2>3
<1>6. Cardinality(F) <= k
  <2>1. CASE F = {}
    BY <2>1, FS_EmptySet
  <2>2. CASE F # {}
    <3> DEFINE m == Max(F)
    <3>1. m \in F /\ \A n \in F : n <= m
      BY <1>4, <2>2, Greatest
    <3> HIDE DEF m
    <3>2. F \subseteq Upto(m) /\ Cardinality(Upto(m)) <= k
      BY <1>1, <1>4, <3>1
    <3> HIDE DEF Upto, F
    <3>3. Cardinality(F) <= Cardinality(Upto(m))
      BY <1>3, <3>2, FS_Subset
    <3>4. Cardinality(F) \in Nat
      BY <1>4, FilesAreFinite
    <3>5. QED
      BY <1>3, <3>2, <3>3, <3>4
  <2>3. QED
    BY <2>1, <2>2
<1>7. ASSUME Cardinality(S) <= k, NEW n \in S PROVE n \in F
  <2>1. IsFiniteSet(S) /\ Cardinality(S) \in Nat
    BY FilesAreFinite
  <2> HIDE DEF Upto
  <2>2. Cardinality(Upto(n)) <= Cardinality(S)
    BY <1>2, <2>1, FS_Subset
  <2>3. QED
    BY <1>1, <1>3, <1>7, <2>1, <2>2
<1>8. ASSUME S # {} PROVE F # {}
  <2>1. PICK n \in S : \A m \in S : n <= m
    BY <1>8, <1>n, Least, Zenon
  <2>2. Upto(n) = {n}
    <3>1. \A y \in S : y <= n => y = n
      BY <1>n, <2>1
    <3>2. n <= n
      BY <1>n, <2>1
    <3> HIDE DEF F
    <3>3. QED
      BY <2>1, <3>1, <3>2
  <2>3. Cardinality({n}) = 1
    BY FS_Singleton
  <2>4. QED
    BY <1>1, <2>2, <2>3
<1>9. QED
  BY <1>4, <1>5, <1>6, <1>7, <1>8

(* A page after a cursor: no live file between its rows is skipped, and    *)
(* none is left after the last page.                                       *)
LEMMA PageIsWhole ==
  ASSUME NEW from \in Nat, live \subseteq Files
  PROVE  /\ Page(from).items \in SUBSET live /\ Cardinality(Page(from).items) <= PageSize
         /\ Page(from).more \in BOOLEAN /\ Page(from).last \in Nat
         /\ Page(from).more => Page(from).last \in Files
         /\ \A n \in live : n > from /\ (Page(from).more => n <= Page(from).last) =>
              n \in Page(from).items
<1> DEFINE found == {n \in live : n > from}
           items == First(found, PageSize)
<1>1. found \subseteq Files /\ found \subseteq live /\ PageSize \in Nat \ {0}
  BY WindowAssumption
<1>2. /\ Page(from).items = items /\ Page(from).more = (Cardinality(found) > PageSize)
      /\ Page(from).last = IF found = {} THEN from ELSE Max(items)
  BY DEF Page
<1>a. \A n \in live : n > from => n \in found
  OBVIOUS
<1> HIDE DEF found
<1>3. /\ items \subseteq found /\ Cardinality(items) <= PageSize
      /\ \A x \in items : \A n \in found : n <= x => n \in items
      /\ Cardinality(found) <= PageSize => items = found
      /\ found # {} => items # {}
  BY <1>1, FirstOf, Zenon
<1>4. Cardinality(found) \in Nat /\ (found = {} => Cardinality(found) = 0)
  BY <1>1, FilesAreFinite, FS_EmptySet
<1>5. Page(from).more \in BOOLEAN /\ (~Page(from).more => items = found)
      /\ (Page(from).more => found # {})
  <2> DEFINE b == Cardinality(found) > PageSize
  <2>1. b \in BOOLEAN
    OBVIOUS
  <2>2. (b => found # {}) /\ (~b => Cardinality(found) <= PageSize)
    BY <1>1, <1>4
  <2>3. Page(from).more = b
    BY <1>2
  <2> HIDE DEF b
  <2>4. QED
    BY <1>3, <2>1, <2>2, <2>3, Zenon
<1> HIDE DEF items
<1>6. ASSUME Page(from).more PROVE Page(from).last \in items
  BY <1>1, <1>2, <1>3, <1>5, <1>6, Greatest
<1>7. ASSUME NEW n \in live, n > from, Page(from).more => n <= Page(from).last
      PROVE  n \in items
  BY <1>3, <1>5, <1>6, <1>7, <1>a
<1>8. Page(from).last \in Nat
  <2>1. CASE found = {}
    BY <1>2, <2>1
  <2>2. CASE found # {}
    <3>1. Max(items) \in Files
      BY <1>1, <1>3, <2>2, Greatest
    <3>2. QED
      BY <1>2, <2>2, <3>1 DEF Files
  <2>3. QED
    BY <2>1, <2>2
<1>9. QED
  BY <1>1, <1>2, <1>3, <1>5, <1>6, <1>7, <1>8

(* What the tree shows, page by page. Of the files that are steady, those  *)
(* up to the cursor are in the tree; a listing in flight goes on from that *)
(* cursor, and its answer holds those up to the next one. A file that goes *)
(* leaves both sets at once, and one that comes is not steady.             *)
ListingRec == [state : {"idle", "sent", "answered"}, reset : BOOLEAN, from : Nat,
               items : SUBSET Files, more : BOOLEAN, live : SUBSET Files]
Reached == IF listing.more THEN listing.from ELSE NoMore

TreeTypes ==
  /\ mounted \in BOOLEAN /\ live \subseteq Files
  /\ listing \in ListingRec /\ Cardinality(listing.items) <= PageSize
  /\ listing.state = "answered" /\ listing.more => listing.from \in Files
  /\ nodes \subseteq Files /\ cursor \in NotLoaded..NoMore
  /\ calls \in [Files \cup {Mount} -> {"no", "sent", "ok", "error"}]
  /\ steady \subseteq live
  /\ ren.state \in {"no", "sent", "answered"}
  /\ ren.state = "sent" => ren.n \in Files /\ ren.to \in Files

(* With the mount gone nothing is live.                                    *)
MountHasAll == /\ ~mounted => live = {}
               /\ calls[Mount] = "ok" => ~mounted

Pages ==
  /\ \A n \in steady : n <= cursor => n \in nodes
  /\ listing.state = "sent" => listing.from = IF listing.reset THEN 0 ELSE cursor
  /\ listing.state = "answered" /\ ~listing.reset =>
       \A n \in steady : n <= Reached => n \in nodes \cup listing.items
  /\ listing.state = "answered" /\ listing.reset =>
       \A n \in listing.live : n <= Reached => n \in listing.items

PageInv == TreeTypes /\ MountHasAll /\ Pages

(* A listing when it is sent, and none.                                    *)
LEMMA SentType ==
  ASSUME cursor \in NotLoaded..NoMore, NEW reset \in BOOLEAN
  PROVE  /\ Sent(reset) \in ListingRec /\ Cardinality(Sent(reset).items) <= PageSize
         /\ Sent(reset).state = "sent" /\ Sent(reset).live = {} /\ Sent(reset).reset = reset
         /\ Sent(reset).from = IF reset THEN 0 ELSE cursor
<1>1. (IF reset THEN 0 ELSE cursor) \in Nat /\ Cardinality({}) <= PageSize
  BY FS_EmptySet, WindowAssumption DEF NotLoaded, NoMore
<1>2. {} \in SUBSET Files /\ FALSE \in BOOLEAN /\ "sent" \in {"idle", "sent", "answered"}
  OBVIOUS
<1>3. Sent(reset) \in ListingRec
  BY <1>1, <1>2, Zenon DEF Sent, ListingRec
<1>4. QED
  BY <1>1, <1>3 DEF Sent

LEMMA NoListingType ==
  /\ NoListing \in ListingRec /\ Cardinality(NoListing.items) <= PageSize
  /\ NoListing.state = "idle" /\ NoListing.live = {}
<1>1. Cardinality({}) <= PageSize
  BY FS_EmptySet, WindowAssumption
<1>2. {} \in SUBSET Files /\ FALSE \in BOOLEAN /\ 0 \in Nat
  OBVIOUS
<1>3. NoListing \in ListingRec
  BY <1>2, Zenon DEF NoListing, ListingRec
<1>4. QED
  BY <1>1, <1>3 DEF NoListing

(* An answer.                                                              *)
LEMMA WalkedType ==
  ASSUME PageInv, listing.state = "sent", mounted
  PROVE  /\ Walked \in ListingRec /\ Cardinality(Walked.items) <= PageSize
         /\ Walked.state = "answered" /\ Walked.live = live /\ Walked.reset = listing.reset
         /\ Walked.more => Walked.from \in Files
         /\ \A n \in live : n > listing.from /\ (Walked.more => n <= Walked.from) =>
              n \in Walked.items
<1> DEFINE page == Page(listing.from)
<1>0. listing.from \in Nat /\ listing \in ListingRec /\ live \in SUBSET Files
  BY DEF PageInv, TreeTypes, ListingRec
<1>1. /\ page.items \in SUBSET live /\ Cardinality(page.items) <= PageSize
      /\ page.more \in BOOLEAN /\ page.last \in Nat
      /\ page.more => page.last \in Files
      /\ \A n \in live : n > listing.from /\ (page.more => n <= page.last) => n \in page.items
  BY <1>0, PageIsWhole
<1>2. Walked = [listing EXCEPT !.state = "answered", !.items = page.items, !.more = page.more,
                               !.from = page.last, !.live = live]
  BY DEF Walked
<1> HIDE DEF page
<1>3. Walked = [state |-> "answered", reset |-> listing.reset, from |-> page.last,
                items |-> page.items, more |-> page.more, live |-> live]
  BY <1>0, <1>2 DEF ListingRec
<1>4. page.items \in SUBSET Files /\ listing.reset \in BOOLEAN
      /\ "answered" \in {"idle", "sent", "answered"}
  BY <1>0, <1>1 DEF ListingRec
<1>5. Walked \in ListingRec
  BY <1>0, <1>1, <1>3, <1>4, Zenon DEF ListingRec
<1>6. /\ Walked.state = "answered" /\ Walked.live = live /\ Walked.reset = listing.reset
      /\ Walked.from = page.last /\ Walked.items = page.items /\ Walked.more = page.more
  BY <1>3
<1>7. QED
  BY <1>1, <1>5, <1>6

LEMMA PageInit == Init => PageInv
<1> SUFFICES ASSUME Init PROVE PageInv
  OBVIOUS
<1>1. TreeTypes
  BY NoListingType, WindowAssumption DEF Init, TreeTypes, NotLoaded, NoMore, NoRename
<1>2. MountHasAll
  BY DEF Init, MountHasAll
<1>3. Pages
  BY NoListingType DEF Init, Pages
<1>4. QED
  BY <1>1, <1>2, <1>3 DEF PageInv

(* The same listing, or another of the same state: a file leaves steady    *)
(* when it leaves the tree.                                                *)
LEMMA PagesKept ==
  ASSUME PageInv, UNCHANGED <<listing, cursor, ren>>,
         live' \subseteq Files, nodes' \subseteq Files, steady' \subseteq steady,
         steady' \subseteq live', \A n \in steady' : n \in nodes => n \in nodes',
         calls' \in [Files \cup {Mount} -> {"no", "sent", "ok", "error"}],
         mounted' \in BOOLEAN, MountHasAll'
  PROVE  PageInv'
<1>1. TreeTypes'
  BY DEF PageInv, TreeTypes
<1>2. Reached' = Reached
  BY DEF Reached
<1>3. \A n \in steady' : n <= cursor => n \in nodes'
  BY DEF PageInv, Pages
<1>4. listing.state = "answered" /\ ~listing.reset =>
        \A n \in steady' : n <= Reached => n \in nodes' \cup listing.items
  BY DEF PageInv, Pages
<1>5. /\ listing.state = "answered" /\ listing.reset =>
           \A n \in listing.live : n <= Reached => n \in listing.items
      /\ listing.state = "sent" => listing.from = IF listing.reset THEN 0 ELSE cursor
  BY DEF PageInv, Pages
<1>6. Pages'
  BY <1>2, <1>3, <1>4, <1>5 DEF Pages
<1>7. QED
  BY <1>1, <1>6 DEF PageInv

(* What the pages do not depend on.                                        *)
LEMMA PagesApart ==
  ASSUME PageInv, UNCHANGED <<mounted, listing, nodes, cursor, steady, ren, live, calls>>
  PROVE  PageInv'
BY DEF PageInv, TreeTypes, MountHasAll, Pages, Reached

(* A listing is sent, from no listing.                                     *)
LEMMA SentKeeps ==
  ASSUME PageInv, NEW reset \in BOOLEAN, listing' = Sent(reset),
         UNCHANGED <<mounted, cursor, ren, live>>,
         nodes' \subseteq Files, steady' \subseteq steady,
         \A n \in steady' : n \in nodes => n \in nodes',
         calls' \in [Files \cup {Mount} -> {"no", "sent", "ok", "error"}], MountHasAll'
  PROVE  PageInv'
<1>1. cursor \in NotLoaded..NoMore
  BY DEF PageInv, TreeTypes
<1>2. /\ listing' \in ListingRec /\ Cardinality(listing'.items) <= PageSize
      /\ listing'.state = "sent" /\ listing'.live = {} /\ listing'.reset = reset
      /\ listing'.from = IF reset THEN 0 ELSE cursor
  BY <1>1, SentType
<1>3. TreeTypes'
  BY <1>2 DEF PageInv, TreeTypes
<1>4. Pages'
  BY <1>2 DEF PageInv, Pages
<1>5. QED
  BY <1>3, <1>4 DEF PageInv

(* Rows are marked, by the service or by a processor.                      *)
LEMMA MarkedKeeps ==
  ASSUME PageInv, NEW S, Marked(S), UNCHANGED <<nodes, cursor, listing, ren>>,
         calls' \in [Files \cup {Mount} -> {"no", "sent", "ok", "error"}],
         mounted' \in BOOLEAN, MountHasAll'
  PROVE  PageInv'
<1>1. live' = live \ S /\ steady' = steady \ S
  BY DEF Marked
<1>2. live' \subseteq Files /\ steady' \subseteq live' /\ nodes' \subseteq Files
  BY <1>1 DEF PageInv, TreeTypes
<1>3. QED
  BY <1>1, <1>2, PagesKept

(* The service deletes.                                                    *)
LEMMA DeletedKeeps ==
  ASSUME PageInv, NEW n \in Files \cup {Mount}, Deleted(n),
         UNCHANGED <<nodes, cursor, listing, ren>>,
         calls' \in [Files \cup {Mount} -> {"no", "sent", "ok", "error"}],
         calls'[Mount] = "ok" => n = Mount \/ calls[Mount] = "ok"
  PROVE  PageInv'
<1>1. Marked(Subtree(n)) /\ mounted' = (mounted /\ n # Mount)
  BY Zenon DEF Deleted
<1>2. mounted' \in BOOLEAN /\ (mounted' <=> mounted /\ n # Mount)
  BY <1>1, Zenon DEF PageInv, TreeTypes
<1>3. live' = live \ Subtree(n) /\ (n = Mount => live' = {})
  BY <1>1 DEF Marked, Subtree
<1>4. MountHasAll'
  BY <1>2, <1>3 DEF PageInv, MountHasAll
<1>5. QED
  BY <1>1, <1>2, <1>4, MarkedKeeps

LEMMA PageNext == PageInv /\ [Next]_vars => PageInv'
<1> SUFFICES ASSUME PageInv, [Next]_vars PROVE PageInv'
  OBVIOUS
<1> DEFINE Calls == [Files \cup {Mount} -> {"no", "sent", "ok", "error"}]
<1>0. TreeTypes /\ MountHasAll /\ Pages /\ calls \in Calls /\ mounted \in BOOLEAN
      /\ live \subseteq Files /\ nodes \subseteq Files /\ steady \subseteq live
  BY DEF PageInv, TreeTypes
<1>1. CASE Open \/ LoadMore
  <2>1. /\ listing' = Sent(TRUE) \/ listing' = Sent(FALSE)
        /\ UNCHANGED <<mounted, nodes, cursor, steady, ren, live, calls>>
    BY <1>1 DEF Open, LoadMore, host
  <2>2. MountHasAll'
    BY <1>0, <2>1 DEF MountHasAll
  <2>3. QED
    BY <1>0, <2>1, <2>2, SentKeeps
<1>3. CASE HostLists
  <2>1. /\ listing.state = "sent" /\ listing' = Walked
        /\ UNCHANGED <<mounted, nodes, cursor, steady, ren, live, calls>>
    BY <1>3 DEF HostLists, host
  <2>2. MountHasAll'
    BY <1>0, <2>1 DEF MountHasAll
  <2>3. CASE mounted
    <3>1. /\ listing' \in ListingRec /\ Cardinality(listing'.items) <= PageSize
          /\ listing'.state = "answered" /\ listing'.live = live /\ listing'.reset = listing.reset
          /\ listing'.more => listing'.from \in Files
          /\ \A n \in live : n > listing.from /\ (listing'.more => n <= listing'.from) =>
               n \in listing'.items
      BY <2>1, <2>3, WalkedType
    <3>2. TreeTypes'
      BY <1>0, <2>1, <3>1 DEF TreeTypes
    <3>3. \A n \in live : n > listing.from /\ n <= Reached' => n \in listing'.items
      BY <3>1 DEF Reached
    <3>4. \A n \in live : n \in Nat /\ n > 0
      BY <1>0 DEF Files
    <3>5. ~listing.reset => \A n \in steady : n <= Reached' => n \in nodes \cup listing'.items
      <4> SUFFICES ASSUME ~listing.reset, NEW n \in steady, n <= Reached'
                   PROVE  n \in nodes \cup listing'.items
        OBVIOUS
      <4>1. n \in live /\ n \in Nat /\ cursor \in Nat /\ listing.from = cursor
        BY <1>0, <2>1, <3>4 DEF TreeTypes, Pages, NotLoaded, NoMore
      <4>2. n <= cursor => n \in nodes
        BY <1>0 DEF Pages
      <4>3. QED
        BY <3>3, <4>1, <4>2
    <3>6. listing.reset => \A n \in live : n <= Reached' => n \in listing'.items
      <4>1. listing.reset => listing.from = 0
        BY <1>0, <2>1 DEF Pages
      <4>2. QED
        BY <3>3, <3>4, <4>1
    <3>7. QED
      BY <1>0, <2>1, <2>2, <3>1, <3>2, <3>5, <3>6 DEF PageInv, Pages
  <2>4. CASE ~mounted
    <3>1. listing' = NoListing
      BY <2>1, <2>4 DEF Walked
    <3>2. TreeTypes'
      BY <1>0, <2>1, <3>1, NoListingType DEF TreeTypes
    <3>3. Pages'
      BY <1>0, <2>1, <3>1, NoListingType DEF Pages
    <3>4. QED
      BY <2>2, <3>2, <3>3 DEF PageInv
  <2>5. QED
    BY <2>3, <2>4
<1>4. CASE ListArrives
  <2>1. /\ listing.state = "answered" /\ listing' = NoListing
        /\ nodes' = IF listing.reset THEN listing.items ELSE nodes \cup listing.items
        /\ cursor' = IF listing.more THEN listing.from ELSE NoMore
        /\ steady' = IF listing.reset THEN listing.live \cap live ELSE steady
        /\ UNCHANGED <<mounted, ren, live, calls>>
    BY <1>4 DEF ListArrives, Merged, host
  <2>2. MountHasAll'
    BY <1>0, <2>1 DEF MountHasAll
  <2>3. cursor' = Reached
    BY <2>1 DEF Reached
  <2>4. listing.items \subseteq Files
    BY <1>0 DEF TreeTypes, ListingRec
  <2>5. TreeTypes'
    <3>1. cursor' \in NotLoaded..NoMore
      BY <1>0, <2>1, WindowAssumption DEF TreeTypes, NotLoaded, NoMore, Files
    <3>2. nodes' \subseteq Files /\ steady' \subseteq live'
      BY <1>0, <2>1, <2>4
    <3>3. QED
      BY <1>0, <2>1, <3>1, <3>2, NoListingType DEF TreeTypes
  <2>6. \A n \in steady' : n <= cursor' => n \in nodes'
    BY <1>0, <2>1, <2>3 DEF Pages
  <2>7. Pages'
    BY <2>1, <2>6, NoListingType DEF Pages
  <2>8. QED
    BY <2>2, <2>5, <2>7 DEF PageInv
<1>5. CASE HostRenames
  <2>1. /\ UNCHANGED <<mounted, cursor, listing, calls, nodes>>
        /\ ren.state = "sent" /\ ren'.state = "answered"
    BY <1>5 DEF HostRenames, NoRename
  <2>2. ren.n \in Files /\ ren.to \in Files
    BY <1>0, <2>1 DEF TreeTypes
  <2>3. \/ /\ ren.n \in live /\ live' = (live \ {ren.n}) \cup {ren.to}
           /\ steady' = steady \ {ren.n}
        \/ UNCHANGED <<live, steady>>
    BY <1>5 DEF HostRenames
  <2>4. live' \subseteq Files /\ steady' \subseteq steady /\ steady' \subseteq live'
    BY <1>0, <2>2, <2>3
  <2>5. MountHasAll'
    BY <1>0, <2>1, <2>3 DEF MountHasAll
  <2>6. ren'.state \in {"no", "sent", "answered"} /\ ren'.state # "sent"
    BY <2>1
  <2>7. TreeTypes'
    BY <1>0, <2>1, <2>4, <2>6 DEF TreeTypes
  <2>8. Pages'
    BY <1>0, <2>1, <2>4 DEF Pages, Reached
  <2>9. QED
    BY <2>5, <2>7, <2>8 DEF PageInv
<1>6. ASSUME NEW n \in Files \cup {Mount}, Delete(n) \/ TimesOut(n) PROVE PageInv'
  <2>1. /\ UNCHANGED <<mounted, listing, nodes, cursor, steady, ren, live>>
        /\ calls' = [calls EXCEPT ![n] = "sent"]
    BY <1>6 DEF Delete, TimesOut, host
  <2>2. calls' \in Calls /\ (calls'[Mount] = "ok" => calls[Mount] = "ok")
    BY <1>0, <2>1
  <2>3. MountHasAll'
    BY <1>0, <2>1, <2>2 DEF MountHasAll
  <2>4. QED
    BY <1>0, <2>1, <2>2, <2>3, PagesKept
<1>7. ASSUME NEW n \in Files \cup {Mount}, HostDeletes(n) PROVE PageInv'
  <2>1. UNCHANGED <<nodes, cursor, listing, ren>>
    BY <1>7 DEF HostDeletes
  <2>2. calls' = [calls EXCEPT ![n] = IF Known(n) THEN "ok" ELSE "error"]
    BY <1>7 DEF HostDeletes
  <2>3. calls' \in Calls /\ (calls'[Mount] = "ok" => n = Mount \/ calls[Mount] = "ok")
    BY <1>0, <2>2
  <2>4. CASE Known(n)
    <3>1. Deleted(n)
      BY <1>7, <2>4 DEF HostDeletes
    <3>2. QED
      BY <2>1, <2>3, <3>1, DeletedKeeps
  <2>5. CASE ~Known(n)
    <3>1. UNCHANGED <<mounted, live, steady>>
      BY <1>7, <2>5 DEF HostDeletes, host
    <3>2. calls'[Mount] = "ok" => calls[Mount] = "ok"
      BY <1>0, <2>2, <2>5
    <3>3. MountHasAll'
      BY <1>0, <3>1, <3>2 DEF MountHasAll
    <3>4. QED
      BY <1>0, <2>1, <2>3, <3>1, <3>3, PagesKept
  <2>6. QED
    BY <2>4, <2>5
<1>8. ASSUME NEW n \in Files \cup {Mount}, LateDelete(n) PROVE PageInv'
  <2>1. UNCHANGED <<nodes, cursor, listing, ren, calls>>
    BY <1>8 DEF LateDelete
  <2>2. CASE Known(n)
    <3>1. Deleted(n)
      BY <1>8, <2>2 DEF LateDelete
    <3>2. QED
      BY <1>0, <2>1, <3>1, DeletedKeeps
  <2>3. CASE ~Known(n)
    <3>1. UNCHANGED <<mounted, live, steady>>
      BY <1>8, <2>3 DEF LateDelete, host
    <3>2. QED
      BY <2>1, <3>1, PagesApart
  <2>4. QED
    BY <2>2, <2>3
<1>9. ASSUME NEW n \in Files \cup {Mount}, DeleteArrives(n) PROVE PageInv'
  <2>1. /\ UNCHANGED <<mounted, live, cursor, ren>>
        /\ calls' = [calls EXCEPT ![n] = "no"] /\ calls[n] \in {"ok", "error"}
    BY <1>9 DEF DeleteArrives, host
  <2>2. calls' \in Calls /\ (calls'[Mount] = "ok" => calls[Mount] = "ok")
    BY <1>0, <2>1
  <2>3. MountHasAll'
    BY <1>0, <2>1, <2>2 DEF MountHasAll
  <2>4. CASE calls[n] = "ok"
    <3>1. /\ nodes' = IF n = Mount THEN {} ELSE nodes \ {n}
          /\ steady' = steady \ {n}
          /\ listing' = IF listing.state = "idle" /\ n # Mount THEN Sent(TRUE) ELSE listing
      BY <1>9, <2>4 DEF DeleteArrives
    <3>2. nodes' \subseteq Files /\ steady' \subseteq steady /\ steady' \subseteq live'
      BY <1>0, <2>1, <3>1
    <3>3. n = Mount => steady = {}
      BY <1>0, <2>4 DEF MountHasAll
    <3>4. \A x \in steady' : x \in nodes => x \in nodes'
      BY <3>1, <3>3
    <3>5. CASE listing' = listing
      BY <1>0, <2>1, <2>2, <2>3, <3>2, <3>4, <3>5, PagesKept
    <3>6. CASE listing' = Sent(TRUE)
      BY <1>0, <2>1, <2>2, <2>3, <3>2, <3>4, <3>6, SentKeeps
    <3>7. QED
      BY <3>1, <3>5, <3>6
  <2>5. CASE calls[n] # "ok"
    <3>1. UNCHANGED <<nodes, listing, steady>>
      BY <1>9, <2>5 DEF DeleteArrives
    <3>2. QED
      BY <1>0, <2>1, <2>2, <2>3, <3>1, PagesKept
  <2>6. QED
    BY <2>4, <2>5
<1>10. ASSUME NEW n \in Files, NEW to \in Files, Rename(n, to) PROVE PageInv'
  <2>1. /\ UNCHANGED <<mounted, listing, nodes, cursor, steady, live, calls>>
        /\ ren'.state = "sent" /\ ren'.n = n /\ ren'.to = to
    BY <1>10 DEF Rename, host
  <2>2. QED
    BY <1>0, <2>1 DEF PageInv, TreeTypes, MountHasAll, Pages, Reached
<1>11. CASE RenameArrives
  <2>1. /\ UNCHANGED <<mounted, listing, nodes, cursor, steady, live, calls>>
        /\ ren'.state = "no"
    BY <1>11 DEF RenameArrives, NoRename, host
  <2>2. QED
    BY <1>0, <2>1 DEF PageInv, TreeTypes, MountHasAll, Pages, Reached
<1>12. ASSUME NEW n \in Files, Upserts(n) PROVE PageInv'
  <2>1. /\ UNCHANGED <<mounted, tree>> /\ mounted /\ live' = live \cup {n}
    BY <1>12 DEF Upserts
  <2>2. MountHasAll'
    BY <1>0, <2>1 DEF MountHasAll, tree
  <2>3. live' \subseteq Files /\ steady \subseteq live'
    BY <1>0, <2>1
  <2>4. QED
    BY <1>0, <2>1, <2>2, <2>3, PagesKept DEF tree
<1>13. ASSUME NEW n \in Files, Marks(n) PROVE PageInv'
  <2>1. /\ Marked({n}) /\ live' \subseteq live
        /\ UNCHANGED <<mounted, nodes, cursor, listing, calls, ren>>
    BY <1>13 DEF Marks, Marked
  <2>2. MountHasAll'
    BY <1>0, <2>1 DEF MountHasAll
  <2>3. QED
    BY <1>0, <2>1, <2>2, MarkedKeeps
<1>14. CASE \/ Type \/ Ask \/ (\E n \in Files : Click(n))
            \/ (\E q \in asked : Answer(q)) \/ (\E p \in previews : Preview(p))
  BY <1>14, PagesApart DEF Click, Type, Ask, Answer, Preview, host, tree
<1>15. CASE UNCHANGED vars
  BY <1>15, PagesApart DEF vars, host, tree
<1>16. QED
  BY <1>1, <1>3, <1>4, <1>5, <1>6, <1>7, <1>8, <1>9, <1>10, <1>11, <1>12, <1>13, <1>14, <1>15
     DEF Next

(* When the last page is there, the tree shows every file that has been in *)
(* the table since the folder was read anew, whatever was deleted, renamed *)
(* or reloaded between two pages (vfs.repository.ts listChildrenPageLocal, *)
(* files-panel.tsx loadNodes).                                             *)
THEOREM NoPageMisses == Spec => []PagesMissNothing
<1>1. PageInv => PagesMissNothing
  <2> SUFFICES ASSUME PageInv, cursor = NoMore PROVE steady \subseteq nodes
    BY DEF PagesMissNothing
  <2>1. \A n \in steady : n \in Files /\ (n <= cursor => n \in nodes)
    BY DEF PageInv, TreeTypes, Pages
  <2>2. \A n \in Files : n <= NoMore
    BY WindowAssumption DEF Files, NoMore
  <2>3. QED
    BY <2>1, <2>2
<1>2. QED
  BY <1>1, PageInit, PageNext, PTL DEF Spec

-----------------------------------------------------------------------------
(* The types: with those of the tree, those of the calls that are late and *)
(* of the search panel.                                                    *)
RestTypes == /\ panel \in {"files", "search"}
             /\ late \subseteq Files \cup {Mount} /\ timeouts \in 0..MaxTimeouts

FinderTypes ==
  /\ query \in 1..MaxInputs /\ asked \subseteq 1..query /\ resultsOf \in 0..query
  /\ typing \in BOOLEAN /\ searching \in BOOLEAN /\ loading \in BOOLEAN
  /\ selected \in {0} \cup Files /\ preview \in {0} \cup Files /\ request \in 0..MaxInputs
  /\ previews \subseteq [id : 1..request, n : Files]

LEMMA AllTypes == PageInv /\ RestTypes /\ FinderTypes => TypeOK
<1> SUFFICES ASSUME PageInv, RestTypes, FinderTypes PROVE TypeOK
  OBVIOUS
<1>1. TreeTypes
  BY DEF PageInv
<1>2. listing.items \subseteq Files /\ listing.state \in {"idle", "sent", "answered"}
  BY <1>1 DEF TreeTypes, ListingRec
<1>3. QED
  BY <1>1, <1>2, Zenon DEF TreeTypes, RestTypes, FinderTypes, TypeOK

LEMMA RestNext == RestTypes /\ [Next]_vars => RestTypes'
<1> SUFFICES ASSUME RestTypes, [Next]_vars PROVE RestTypes'
  OBVIOUS
<1>1. ASSUME UNCHANGED <<panel, late, timeouts>> PROVE RestTypes'
  BY <1>1 DEF RestTypes
<1>2. CASE Open \/ LoadMore \/ HostLists \/ ListArrives \/ HostRenames \/ RenameArrives
  BY <1>1, <1>2 DEF Open, LoadMore, HostLists, ListArrives, HostRenames, RenameArrives
<1>3. ASSUME NEW n \in Files \cup {Mount}, Delete(n) \/ HostDeletes(n) \/ DeleteArrives(n)
      PROVE  RestTypes'
  BY <1>1, <1>3 DEF Delete, HostDeletes, DeleteArrives
<1>4. ASSUME NEW n \in Files \cup {Mount}, LateDelete(n) PROVE RestTypes'
  BY <1>4 DEF LateDelete, RestTypes
<1>5. ASSUME NEW n \in Files \cup {Mount}, TimesOut(n) PROVE RestTypes'
  BY <1>5, WindowAssumption DEF TimesOut, RestTypes
<1>6. ASSUME NEW n \in Files, Upserts(n) \/ Marks(n) \/ Click(n) \/ \E to \in Files : Rename(n, to)
      PROVE  RestTypes'
  BY <1>1, <1>6 DEF Upserts, Marks, Click, Rename, tree
<1>7. CASE Type \/ Ask \/ (\E q \in asked : Answer(q)) \/ (\E p \in previews : Preview(p))
  BY <1>1, <1>7 DEF Type, Ask, Answer, Preview, tree
<1>8. CASE UNCHANGED vars
  BY <1>1, <1>8 DEF vars, tree
<1>9. QED
  BY <1>2, <1>3, <1>4, <1>5, <1>6, <1>7, <1>8 DEF Next

(* A selection of a file, or of none.                                      *)
LEMMA SelectTypes ==
  ASSUME FinderTypes, NEW n \in {0} \cup Files, Select(n)
  PROVE  /\ selected' \in {0} \cup Files /\ preview' \in {0} \cup Files /\ loading' \in BOOLEAN
         /\ request' \in 0..MaxInputs /\ previews' \subseteq [id : 1..request', n : Files]
<1>0. /\ preview \in {0} \cup Files /\ loading \in BOOLEAN /\ request \in 0..MaxInputs
      /\ previews \subseteq [id : 1..request, n : Files] /\ selected' = n
  BY Zenon DEF FinderTypes, Select
<1>1. CASE n = selected
  BY <1>0, <1>1 DEF Select
<1>2. CASE n # selected /\ n = 0
  BY <1>0, <1>2 DEF Select
<1>3. CASE n # selected /\ n # 0
  <2>1. /\ request < MaxInputs /\ request' = request + 1 /\ loading' = TRUE /\ preview' = preview
        /\ previews' = previews \cup {[id |-> request + 1, n |-> n]}
    BY <1>3 DEF Select
  <2>2. request' \in 0..MaxInputs
    BY <1>0, <2>1, WindowAssumption
  <2>3. previews' \subseteq [id : 1..request', n : Files]
    BY <1>0, <1>3, <2>1
  <2>4. QED
    BY <1>0, <2>1, <2>2, <2>3
<1>4. QED
  BY <1>1, <1>2, <1>3

LEMMA FinderNext == PageInv /\ FinderTypes /\ [Next]_vars => FinderTypes'
<1> SUFFICES ASSUME PageInv, FinderTypes, [Next]_vars PROVE FinderTypes'
  OBVIOUS
<1>0. /\ query \in 1..MaxInputs /\ asked \subseteq 1..query /\ resultsOf \in 0..query
      /\ typing \in BOOLEAN /\ searching \in BOOLEAN /\ loading \in BOOLEAN
      /\ selected \in {0} \cup Files /\ preview \in {0} \cup Files /\ request \in 0..MaxInputs
      /\ previews \subseteq [id : 1..request, n : Files]
  BY Zenon DEF FinderTypes
<1>1. ASSUME UNCHANGED finder PROVE FinderTypes'
  BY <1>1 DEF FinderTypes, finder
<1>2. CASE Open \/ LoadMore \/ HostLists \/ ListArrives \/ HostRenames \/ RenameArrives
  BY <1>2, <1>1 DEF Open, LoadMore, HostLists, ListArrives, HostRenames, RenameArrives
<1>3. ASSUME NEW n \in Files \cup {Mount},
             Delete(n) \/ HostDeletes(n) \/ TimesOut(n) \/ LateDelete(n) \/ DeleteArrives(n)
      PROVE  FinderTypes'
  BY <1>3, <1>1 DEF Delete, HostDeletes, TimesOut, LateDelete, DeleteArrives
<1>4. ASSUME NEW n \in Files, Upserts(n) \/ Marks(n) \/ (\E to \in Files : Rename(n, to))
      PROVE  FinderTypes'
  BY <1>4, <1>1 DEF Upserts, Marks, Rename
<1>5. ASSUME NEW n \in Files, Click(n) PROVE FinderTypes'
  <2>1. Select(n) /\ UNCHANGED <<query, typing, searching, asked, resultsOf>>
    BY <1>5 DEF Click
  <2>2. QED
    BY <1>0, <2>1, SelectTypes, Zenon DEF FinderTypes
<1>6. CASE Type
  <2>1. /\ query < MaxInputs /\ query' = query + 1 /\ typing' = TRUE /\ searching' = TRUE
        /\ UNCHANGED <<asked, resultsOf, selected, preview, loading, request, previews>>
    BY <1>6 DEF Type
  <2>2. query' \in 1..MaxInputs /\ asked' \subseteq 1..query' /\ resultsOf' \in 0..query'
    BY <1>0, <2>1, WindowAssumption
  <2>3. QED
    BY <1>0, <2>1, <2>2, Zenon DEF FinderTypes
<1>7. CASE Ask
  <2>1. /\ typing' = FALSE /\ asked' = asked \cup {query}
        /\ UNCHANGED <<query, searching, resultsOf, selected, preview, loading, request, previews>>
    BY <1>7 DEF Ask
  <2>2. asked' \subseteq 1..query
    BY <1>0, <2>1
  <2>3. QED
    BY <1>0, <2>1, <2>2, Zenon DEF FinderTypes
<1>8. ASSUME NEW q \in asked, Answer(q) PROVE FinderTypes'
  <2>1. UNCHANGED <<query, typing>> /\ asked' \subseteq 1..query
    BY <1>0, <1>8 DEF Answer
  <2>2. CASE q # query
    <3>1. UNCHANGED <<searching, resultsOf, selected, preview, loading, request, previews>>
      BY <1>8, <2>2 DEF Answer
    <3>2. QED
      BY <1>0, <2>1, <3>1, Zenon DEF FinderTypes
  <2>3. CASE q = query
    <3>1. searching' = FALSE /\ resultsOf' = query /\ ((\E n \in Found(q) : Select(n)) \/ Cleared)
      BY <1>8, <2>3 DEF Answer
    <3>2. resultsOf' \in 0..query
      BY <1>0, <3>1
    <3>3. Found(q) \subseteq {0} \cup Files
      BY DEF Found, Recent, PageInv, TreeTypes
    <3>4. /\ selected' \in {0} \cup Files /\ preview' \in {0} \cup Files /\ loading' \in BOOLEAN
          /\ request' \in 0..MaxInputs /\ previews' \subseteq [id : 1..request', n : Files]
      <4>1. CASE \E n \in Found(q) : Select(n)
        BY <3>3, <4>1, SelectTypes
      <4>2. CASE Cleared
        <5>1. selected' = 0 /\ preview' = 0 /\ UNCHANGED <<request, previews>>
          BY <4>2 DEF Cleared
        <5>2. loading' \in BOOLEAN
          BY <4>2, Zenon DEF Cleared
        <5>3. QED
          BY <1>0, <5>1, <5>2
      <4>3. QED
        BY <3>1, <4>1, <4>2
    <3>5. QED
      BY <1>0, <2>1, <3>1, <3>2, <3>4, Zenon DEF FinderTypes
  <2>4. QED
    BY <2>2, <2>3
<1>9. ASSUME NEW p \in previews, Preview(p) PROVE FinderTypes'
  <2>1. /\ UNCHANGED <<query, typing, searching, asked, resultsOf, selected, request>>
        /\ previews' \subseteq [id : 1..request, n : Files]
    BY <1>0, <1>9 DEF Preview
  <2>2. loading' \in BOOLEAN /\ preview' \in {0} \cup Files
    BY <1>0, <1>9 DEF Preview, Markdown
  <2>3. QED
    BY <1>0, <2>1, <2>2, Zenon DEF FinderTypes
<1>10. CASE UNCHANGED vars
  BY <1>10, <1>1 DEF vars
<1>11. QED
  BY <1>2, <1>3, <1>4, <1>5, <1>6, <1>7, <1>8, <1>9, <1>10 DEF Next

(* The window and the host keep their types: a page is no longer than its  *)
(* limit, a cursor is a row of the table, the tree's steady rows are live. *)
THEOREM TypeCorrect == Spec => []TypeOK
<1>1. Init => RestTypes
  BY WindowAssumption DEF Init, RestTypes
<1>2. Init => FinderTypes
  <2> SUFFICES ASSUME Init PROVE FinderTypes
    OBVIOUS
  <2>1. /\ query \in 1..MaxInputs /\ asked \subseteq 1..query /\ resultsOf \in 0..query
        /\ request \in 0..MaxInputs /\ previews \subseteq [id : 1..request, n : Files]
    BY WindowAssumption DEF Init
  <2>2. /\ typing \in BOOLEAN /\ searching \in BOOLEAN /\ loading \in BOOLEAN
        /\ selected \in {0} \cup Files /\ preview \in {0} \cup Files
    BY DEF Init
  <2>3. QED
    BY <2>1, <2>2, Zenon DEF FinderTypes
<1>3. PageInv /\ RestTypes /\ FinderTypes /\ [Next]_vars => PageInv' /\ RestTypes' /\ FinderTypes'
  BY PageNext, RestNext, FinderNext
<1>4. QED
  BY <1>1, <1>2, <1>3, PageInit, AllTypes, PTL DEF Spec

=============================================================================
