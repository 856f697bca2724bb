------------------------------ MODULE FilesWindow ------------------------------
(***************************************************************************)
(* The window and the requests it sends to the host: the files panel lists *)
(* a mounted folder page by page, deletes and renames in it and takes the  *)
(* mount away (files-panel.tsx, bun/index.ts, vfs.service.ts); the search  *)
(* panel asks for a query after a pause in typing and for the preview of   *)
(* what is selected (search-panel.tsx). A request of the files panel       *)
(* travels, is executed by the host and is answered in three steps, one of *)
(* the search panel in two, and answers come in any order; a deletion that *)
(* times out is sent again (App.tsx requestWithRetry).                     *)
(*                                                                         *)
(* Abstracted: one folder, whose files are numbered in the order of the    *)
(* pages, (name, node id); what the processors write to the node table,    *)
(* which may be anything (VfsEvents and VfsRemoval have them in full); the *)
(* search index, which may find any file. A node is deleted by one call at *)
(* a time. The panels share no state of the window, so the user stays in   *)
(* one of them.                                                            *)
(***************************************************************************)
EXTENDS Naturals, FiniteSets, FiniteSetsExt, SequencesExt

CONSTANTS NumFiles,    \* files, in the order of the listing
          PageSize,    \* limit of a page
          MaxCalls,    \* bound: deletions under way at a time
          MaxTimeouts, \* bound: requests that time out
          MaxInputs    \* bound: queries typed, and selections

ASSUME WindowAssumption == /\ NumFiles \in Nat /\ PageSize \in Nat \ {0}
                           /\ MaxCalls \in Nat /\ MaxTimeouts \in Nat /\ MaxInputs \in Nat \ {0}

Files == 1..NumFiles
Mount == 0              \* the mount, as the target of a delete
NotLoaded == 0          \* the cursor of a folder never listed, undefined ...
NoMore == NumFiles + 1  \* ... and after the last page, null

VARIABLES
  panel,   \* where the user is
  live,    \* host: files with a node in vfs_nodes that is not deleted
  mounted, \* host: the mount has its node
  nodes,   \* nodesByParent of the folder
  cursor,  \* nextCursorByParent of the folder
  listing, \* the listing in flight, at most one
  calls,   \* calls[n]: the deletion of n: "no", "sent", "ok", "error"
  late,    \* deletions that timed out and are still to be executed
  ren,     \* a rename, at most one
  steady,  \* history: files live when the folder was last listed anew and
           \* since the answer came, and which no deletion took out
  timeouts,
  query,   \* number of the query; typing: its pause has not passed
  typing, searching, asked, resultsOf,
  selected, preview, loading, request, previews

host   == <<live, mounted>>
tree   == <<nodes, cursor, listing, calls, late, ren, steady, timeouts>>
finder == <<query, typing, searching, asked, resultsOf, selected, preview, loading, request,
            previews>>
vars   == <<panel, host, tree, finder>>

NoListing == [state |-> "idle", reset |-> FALSE, from |-> 0, items |-> {}, more |-> FALSE,
              live |-> {}]
NoRename == [state |-> "no", n |-> 1, to |-> 1]

Init == /\ panel \in {"files", "search"}
        /\ live \in SUBSET Files /\ mounted = TRUE
        /\ nodes = {} /\ cursor = NotLoaded /\ listing = NoListing
        /\ calls = [n \in Files \cup {Mount} |-> "no"]
        /\ late = {} /\ ren = NoRename /\ steady = {} /\ timeouts = 0
        \* the first effect of the search panel, the empty query
        /\ query = 1 /\ typing = TRUE /\ searching = TRUE /\ asked = {} /\ resultsOf = 0
        /\ selected = 0 /\ preview = 0 /\ loading = FALSE /\ request = 0 /\ previews = {}

-----------------------------------------------------------------------------
(* Listing. loadNodes drops a call while one of the folder is in flight.   *)

Sent(reset) == [state |-> "sent", reset |-> reset, from |-> IF reset THEN 0 ELSE cursor,
                items |-> {}, more |-> FALSE, live |-> {}]

Open == /\ panel = "files" /\ cursor = NotLoaded /\ listing.state = "idle" /\ mounted
        /\ listing' = Sent(TRUE)
        /\ UNCHANGED <<panel, host, nodes, cursor, calls, late, ren, steady, timeouts, finder>>

LoadMore == /\ cursor \in Files /\ listing.state = "idle"
            /\ listing' = Sent(FALSE)
            /\ UNCHANGED <<panel, host, nodes, cursor, calls, late, ren, steady, timeouts,
                           finder>>

\* Wrong variants, here and below: each shows that a property can fail.
FirstAndExtra(S, k) == {n \in S : Cardinality({x \in S : x < n}) <= k}

First(S, k) == {n \in S : Cardinality({x \in S : x <= n}) <= k}

PageFromExtraRow(from) ==
  LET found == {n \in live : n > from}
  IN  [items |-> First(found, PageSize), more |-> Cardinality(found) > PageSize,
       last |-> IF found = {} THEN from ELSE Max(First(found, PageSize + 1))]

\* listChildrenPageLocal: rows after the cursor, one more than the limit.
Page(from) ==
  LET found == {n \in live : n > from}
  IN  [items |-> First(found, PageSize), more |-> Cardinality(found) > PageSize,
       last |-> IF found = {} THEN from ELSE Max(First(found, PageSize))]

\* walkChildren; an unknown parent is an error.
Walked ==
  LET page == Page(listing.from)
  IN  IF mounted THEN [listing EXCEPT !.state = "answered", !.items = page.items,
                         !.more = page.more, !.from = page.last, !.live = live]
      ELSE NoListing

\* listFilesNodes, with the cursor of the window.
HostLists ==
  /\ listing.state = "sent"
  /\ listing' = Walked
  /\ UNCHANGED <<panel, host, nodes, cursor, calls, late, ren, steady, timeouts, finder>>

Merged(items) == nodes \cup items

ListArrives ==
  /\ listing.state = "answered"
  /\ listing' = NoListing
  /\ nodes' = IF listing.reset THEN listing.items ELSE Merged(listing.items)
  /\ cursor' = IF listing.more THEN listing.from ELSE NoMore
  /\ steady' = IF listing.reset THEN listing.live \cap live ELSE steady
  /\ UNCHANGED <<panel, host, calls, late, ren, timeouts, finder>>

-----------------------------------------------------------------------------
(* Deletion of a file or of the mount, and rename.                         *)

Delete(n) == /\ panel = "files" /\ calls[n] = "no"
             /\ n \in nodes \/ (n = Mount /\ mounted)
             /\ Cardinality({m \in DOMAIN calls : calls[m] # "no"}) < MaxCalls
             /\ calls' = [calls EXCEPT ![n] = "sent"]
             /\ UNCHANGED <<panel, host, nodes, cursor, listing, late, ren, steady, timeouts,
                            finder>>

Known(n) == IF n = Mount THEN mounted ELSE n \in live

\* collectSubtree: what is not deleted below n.
Subtree(n) == IF n = Mount THEN live ELSE {n}

\* Rows marked as deleted; a page that was read before keeps them.
Marked(S) == /\ live' = live \ S
             /\ steady' = steady \ S

\* The service's delete: the file's row is marked, of a mount the subtree's.
Deleted(n) == /\ Marked(Subtree(n))
              /\ mounted' = (mounted /\ n # Mount)

HostDeletes(n) ==
  /\ calls[n] = "sent"
  /\ calls' = [calls EXCEPT ![n] = IF Known(n) THEN "ok" ELSE "error"]
  /\ IF Known(n) THEN Deleted(n) ELSE UNCHANGED <<host, steady>>
  /\ UNCHANGED <<panel, nodes, cursor, listing, late, ren, timeouts, finder>>

\* No answer in time: what was sent may still be executed, and is sent again.
TimesOut(n) ==
  /\ calls[n] # "no" /\ timeouts < MaxTimeouts
  /\ timeouts' = timeouts + 1
  /\ late' = IF calls[n] = "sent" THEN late \cup {n} ELSE late
  /\ calls' = [calls EXCEPT ![n] = "sent"]
  /\ UNCHANGED <<panel, host, nodes, cursor, listing, ren, steady, finder>>

LateDelete(n) ==
  /\ n \in late
  /\ late' = late \ {n}
  /\ IF Known(n) THEN Deleted(n) ELSE UNCHANGED <<host, steady>>
  /\ UNCHANGED <<panel, nodes, cursor, listing, calls, ren, timeouts, finder>>

\* onDeleteNode with its answer. An error leaves the tree as it is, even
\* when it says that the node is gone.
DeleteArrives(n) ==
  /\ calls[n] \in {"ok", "error"}
  /\ calls' = [calls EXCEPT ![n] = "no"]
  /\ IF calls[n] = "ok"
     THEN /\ nodes' = IF n = Mount THEN {} ELSE nodes \ {n}
          /\ listing' = IF listing.state = "idle" /\ n # Mount THEN Sent(TRUE) ELSE listing
          /\ steady' = steady \ {n}
     ELSE UNCHANGED <<nodes, listing, steady>>
  /\ UNCHANGED <<panel, host, cursor, late, ren, timeouts, finder>>

Rename(n, to) ==
  /\ n \in nodes /\ ren.state = "no" /\ to # n
  /\ ren' = [state |-> "sent", n |-> n, to |-> to]
  /\ UNCHANGED <<panel, host, nodes, cursor, listing, calls, late, steady, timeouts, finder>>

\* renameFileNode: the new name is a new node, the old one is marked. It is an
\* error when the file is gone or the name is taken.
HostRenames ==
  /\ ren.state = "sent"
  /\ ren' = [NoRename EXCEPT !.state = "answered"]
  /\ \/ /\ ren.n \in live
        /\ live' = (live \ {ren.n}) \cup {ren.to}
        /\ steady' = steady \ {ren.n}
     \/ UNCHANGED <<live, steady>>
  /\ UNCHANGED <<panel, mounted, nodes, cursor, listing, calls, late, timeouts, finder>>

\* onRenameNode puts the answer where the tree has its id: nowhere, as yet.
RenameArrives ==
  /\ ren.state = "answered"
  /\ ren' = NoRename
  /\ UNCHANGED <<panel, host, nodes, cursor, listing, calls, late, steady, timeouts, finder>>

-----------------------------------------------------------------------------
(* The processors serve the rows of the watcher and of full syncs. A row   *)
(* with the node of a walk brings back what was deleted meanwhile.         *)

\* applyNodeEvent writes a node that is not deleted; without a mount its row
\* is dropped.
Upserts(n) == /\ mounted /\ n \notin live
              /\ live' = live \cup {n}
              /\ UNCHANGED <<panel, mounted, tree, finder>>

\* A delete row, or one whose file is gone when its metadata is fetched.
Marks(n) == /\ n \in live
            /\ Marked({n})
            /\ UNCHANGED <<panel, mounted, nodes, cursor, listing, calls, late, ren, timeouts, finder>>

-----------------------------------------------------------------------------
(* The search panel. Its effects run when the query or the selection has   *)
(* changed; an answer counts if its request is the last one.               *)

\* setSelectedNodeId and the effect on it.
Select(n) ==
  /\ n \in {0, selected} \/ request < MaxInputs
  /\ selected' = n
  /\ IF n = selected THEN UNCHANGED <<preview, loading, request, previews>>
     ELSE IF n = 0 THEN preview' = 0 /\ loading' = FALSE /\ UNCHANGED <<request, previews>>
     ELSE /\ request' = request + 1
          /\ previews' = previews \cup {[id |-> request + 1, n |-> n]}
          /\ loading' = TRUE
          /\ UNCHANGED preview

\* A search that fails clears what is shown; the effect on the selection runs
\* only if there was one.
Cleared == /\ selected' = 0 /\ preview' = 0
           /\ loading' = (loading /\ selected = 0)
           /\ UNCHANGED <<request, previews>>

Type == /\ panel = "search" /\ query < MaxInputs
        /\ query' = query + 1 /\ typing' = TRUE /\ searching' = TRUE
        /\ UNCHANGED <<panel, host, tree, asked, resultsOf, selected, preview, loading, request,
                       previews>>

\* The pause of debounceMs has passed.
Ask == /\ panel = "search" /\ typing
       /\ typing' = FALSE
       /\ asked' = asked \cup {query}
       /\ UNCHANGED <<panel, host, tree, query, searching, resultsOf, selected, preview, loading,
                      request, previews>>

\* The first result of a search, 0 for none. The empty query, the first one,
\* lists the recent files of the table.
Recent == IF live = {} THEN {0} ELSE live
Found(q) == IF q = 1 THEN Recent ELSE {0} \cup Files

AnswerKeepingFlag(q) ==
  /\ q \in asked
  /\ asked' = asked \ {q}
  /\ IF q # query THEN UNCHANGED <<searching, resultsOf, selected, preview, loading, request, previews>>
     ELSE /\ resultsOf' = q
          /\ \E n \in Found(q) : Select(n) /\ searching' = (n = 0)
  /\ UNCHANGED <<panel, host, tree, query, typing>>

\* Results, of which the first is selected, or an error.
Answer(q) ==
  /\ q \in asked
  /\ asked' = asked \ {q}
  /\ IF q # query THEN UNCHANGED <<searching, resultsOf, selected, preview, loading, request, previews>>
     ELSE /\ searching' = FALSE /\ resultsOf' = q
          /\ (\E n \in Found(q) : Select(n)) \/ Cleared
  /\ UNCHANGED <<panel, host, tree, query, typing>>

Click(n) == /\ panel = "search" /\ resultsOf # 0
            /\ Select(n)
            /\ UNCHANGED <<panel, host, tree, query, typing, searching, asked, resultsOf>>

\* getFileMarkdown: the text of the file asked for, or why it has none.
Markdown(p) == p.n

AnyPreview(p) ==
  /\ p \in previews
  /\ previews' = previews \ {p}
  /\ loading' = FALSE /\ preview' = Markdown(p)
  /\ UNCHANGED <<panel, host, tree, query, typing, searching, asked, resultsOf, selected, request>>

\* A preview is answered.
Preview(p) ==
  /\ p \in previews
  /\ previews' = previews \ {p}
  /\ IF p.id # request THEN UNCHANGED <<loading, preview>>
                       ELSE loading' = FALSE /\ preview' = Markdown(p)
  /\ UNCHANGED <<panel, host, tree, query, typing, searching, asked, resultsOf, selected, request>>

-----------------------------------------------------------------------------
Next == \/ Open \/ LoadMore \/ HostLists \/ ListArrives \/ HostRenames \/ RenameArrives
        \/ \E n \in Files \cup {Mount} : \/ Delete(n) \/ HostDeletes(n) \/ TimesOut(n)
                                         \/ LateDelete(n) \/ DeleteArrives(n)
        \/ \E n \in Files : \/ Upserts(n) \/ Marks(n) \/ Click(n)
                            \/ \E to \in Files : Rename(n, to)
        \/ Type \/ Ask
        \/ \E q \in asked : Answer(q)
        \/ \E p \in previews : Preview(p)

(* The pause of the search panel passes, and a query is answered, if only  *)
(* by its timeout.                                                         *)
Fairness == /\ WF_vars(Ask)
            /\ \A q \in 1..MaxInputs : WF_vars(q \in asked /\ Answer(q))

Spec == Init /\ [][Next]_vars /\ Fairness

-----------------------------------------------------------------------------
\* Types; what is in flight belongs to what was asked.
TypeOK ==
  /\ panel \in {"files", "search"} /\ live \subseteq Files /\ mounted \in BOOLEAN
  /\ nodes \subseteq Files /\ cursor \in NotLoaded..NoMore
  /\ listing.state \in {"idle", "sent", "answered"} /\ listing.items \subseteq Files
  /\ Cardinality(listing.items) <= PageSize
  /\ calls \in [Files \cup {Mount} -> {"no", "sent", "ok", "error"}]
  /\ late \subseteq Files \cup {Mount} /\ ren.state \in {"no", "sent", "answered"}
  /\ steady \subseteq live /\ timeouts \in 0..MaxTimeouts
  /\ query \in 1..MaxInputs /\ asked \subseteq 1..query /\ resultsOf \in 0..query
  /\ typing \in BOOLEAN /\ searching \in BOOLEAN /\ loading \in BOOLEAN
  /\ selected \in {0} \cup Files /\ preview \in {0} \cup Files /\ request \in 0..MaxInputs
  /\ previews \subseteq [id : 1..request, n : Files]

(* When the last page is there, the tree shows every file that has been in *)
(* the table since the folder was read anew, whatever was deleted, renamed *)
(* or reloaded between two pages (vfs.repository.ts listChildrenPageLocal, *)
(* files-panel.tsx loadNodes).                                             *)
PagesMissNothing ==
  cursor = NoMore /\ listing.state = "idle" => steady \subseteq nodes

(* What the search panel shows is what was asked for last: the results are *)
(* of the query in the box and the preview is of the selected file         *)
(* (search-panel.tsx). With nothing selected an answer still on its way is *)
(* shown all the same.                                                     *)
ShowsLatest == /\ panel = "search" /\ ~searching => resultsOf = query
               /\ selected # 0 /\ ~loading => preview = selected

(* A search ends: the panel does not go on saying that it searches, however*)
(* the answers to earlier queries come in (search-panel.tsx).              *)
SearchSettles == (panel = "search" /\ searching) ~> ~searching
=============================================================================
