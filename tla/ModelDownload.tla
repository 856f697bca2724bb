--------------------------- MODULE ModelDownload ---------------------------
(***************************************************************************)
(* The files of one model in the cache of the worker: ensure_artifacts of  *)
(* artifact_manager.py, download_file of download.py and the test of       *)
(* completeness of artifacts.py, over a network that fails and a process   *)
(* that dies and is started again.                                         *)
(*                                                                         *)
(* A file is a sequence of Size blocks; a block is its position and the    *)
(* version of the remote file it was read from, so that a gap, a repeated  *)
(* block and a mixture show. Written blocks may still be in a buffer when  *)
(* the process dies: it then died before it wrote them.                    *)
(*                                                                         *)
(* Abstracted: the listing's choice of files and its sizes, always known;  *)
(* progress; a response that is no 200 or 206 raises like a broken         *)
(* connection, only without the retries.                                   *)
(***************************************************************************)
EXTENDS Naturals, Sequences

CONSTANTS Files,        \* the files to download, in the order of the listing
          Required,     \* local_required_files: those the test of completeness asks for
          Weights,      \* ... beside any one of the weight files
          Size,         \* blocks of a file
          MaxAttempts,  \* max_attempts of download_file
          MaxVersion    \* bound: versions of a remote file

ASSUME DownloadAssumption == /\ Files \in Seq(STRING) /\ Files # <<>>
                             /\ Size \in Nat \ {0}
                             /\ MaxAttempts \in Nat \ {0}
                             /\ MaxVersion \in Nat \ {0}

Names == {Files[i] : i \in DOMAIN Files}

ASSUME RequiredAssumption == Required \subseteq Names /\ Weights \subseteq Names

VARIABLES
  ranges,    \* whether the server honours a Range header
  remote,    \* remote[f]: the version the server has of file f
  part,      \* blocks of the .part files there are: its domain is a set of files
  dest,      \* the promoted files: blocks, and whether their length was told
  at,        \* "idle", "files", "request", "body" or "promote"
  current,   \* index in Files of the file at hand
  attempt,   \* attempts of download_file that failed
  response,  \* the response being read: version, next block, total (0 if not told)
  calm       \* no more failures: the premise of the liveness property

server == <<ranges, remote>>
disk == <<part, dest>>
vars == <<server, part, dest, at, current, attempt, response, calm>>

Block == [pos : 1..Size, version : 1..MaxVersion]
NoResponse == [version |-> 0, next |-> 1, total |-> 0]
File == Files[current]

\* A file is put into a function of files, or taken out.
With(fs, f, x) == [g \in DOMAIN fs \cup {f} |-> IF g = f THEN x ELSE fs[g]]
Without(fs, f) == [g \in DOMAIN fs \ {f} |-> fs[g]]

Resumed == IF File \in DOMAIN part THEN Len(part[File]) ELSE 0

(* has_complete_local_model_artifacts: no part file is left, and the files  *)
(* the code asks for are there; it does not ask for every listed file.     *)
CompleteLocally == /\ DOMAIN part = {}
                   /\ Required \subseteq DOMAIN dest
                   /\ Weights \cap DOMAIN dest # {}

\* _is_completed_file
CompletedFile(f) == /\ f \in DOMAIN dest
                    /\ f \notin DOMAIN part
                    /\ Len(dest[f].blocks) = Size

Init == /\ ranges \in BOOLEAN
        /\ remote = [f \in Names |-> 1]
        /\ part = [f \in {} |-> <<>>]
        /\ dest = [f \in {} |-> <<>>]
        /\ at = "idle"
        /\ current = 1
        /\ attempt = 0
        /\ response = NoResponse
        /\ calm = FALSE

-----------------------------------------------------------------------------
(* ensure_artifacts: a complete model needs no network; otherwise the      *)
(* files are listed and gone through in order.                             *)
Ensure == /\ at = "idle"
          /\ ~CompleteLocally
          /\ at' = "files"
          /\ current' = 1
          /\ UNCHANGED <<server, disk, attempt, response, calm>>

NextFile == IF current = Len(Files)
            THEN at' = "idle" /\ current' = 1
            ELSE at' = "files" /\ current' = current + 1

SkipEnds == /\ at = "files"   \* a wrong variant: return for continue
            /\ CompletedFile(File)
            /\ at' = "idle" /\ current' = 1
            /\ UNCHANGED <<server, disk, attempt, response, calm>>

Skip == /\ at = "files"
        /\ CompletedFile(File)
        /\ NextFile
        /\ UNCHANGED <<server, disk, attempt, response, calm>>

Fetch == /\ at = "files"
         /\ ~CompletedFile(File)
         /\ at' = "request"
         /\ UNCHANGED <<server, disk, current, attempt, response, calm>>

-----------------------------------------------------------------------------
(* _download_file_once.                                                    *)

\* A 206 goes on where the part file ends.
PartialContent ==
  /\ at = "request"
  /\ ranges
  /\ Resumed \in 1..(Size - 1)
  /\ at' = "body"
  /\ response' = [version |-> remote[File], next |-> Resumed + 1, total |-> Size]
  /\ UNCHANGED <<server, disk, current, attempt, calm>>

WholeBody == \E total \in {0, Size} :
  response' = [version |-> remote[File], next |-> 1, total |-> total]

WholeContentAppended ==   \* a wrong variant: "ab" whatever the status is
  /\ at = "request"
  /\ ranges => Resumed = 0
  /\ at' = "body"
  /\ WholeBody
  /\ part' = IF File \in DOMAIN part THEN part ELSE With(part, File, <<>>)
  /\ UNCHANGED <<server, dest, current, attempt, calm>>

\* A 200, to a request without a range or from a server without ranges:
\* the part file is written anew.
WholeContent ==
  /\ at = "request"
  /\ ranges => Resumed = 0
  /\ at' = "body"
  /\ WholeBody
  /\ part' = With(part, File, <<>>)
  /\ UNCHANGED <<server, dest, current, attempt, calm>>

Chunk == /\ at = "body"
         /\ response.next <= Size
         /\ part' = [part EXCEPT ![File] =
                       Append(@, [pos |-> response.next, version |-> response.version])]
         /\ response' = [response EXCEPT !.next = @ + 1]
         /\ UNCHANGED <<server, dest, at, current, attempt, calm>>

FailedOnceMore ==   \* a wrong variant: one attempt too many
  IF attempt < MaxAttempts
  THEN at' = "request" /\ attempt' = attempt + 1 /\ UNCHANGED current
  ELSE at' = "idle" /\ attempt' = 0 /\ current' = 1

\* The except clause of download_file, for an error that is retryable.
FailedOnce == IF attempt + 1 < MaxAttempts
              THEN at' = "request" /\ attempt' = attempt + 1 /\ UNCHANGED current
              ELSE at' = "idle" /\ attempt' = 0 /\ current' = 1

\* The server has no range behind the last block (status 416).
Refused == /\ at = "request"
           /\ ranges
           /\ Resumed >= Size
           /\ FailedOnce
           /\ UNCHANGED <<server, disk, response, calm>>

\* The connection fails, or the disk does, in a write or in the renaming.
Breaks == /\ ~calm
          /\ at \in {"request", "body", "promote"}
          /\ FailedOnce
          /\ response' = NoResponse
          /\ UNCHANGED <<server, disk, calm>>

\* The server answers nonsense: another status, another range.
Raises == /\ ~calm
          /\ at = "request"
          /\ at' = "idle" /\ attempt' = 0 /\ current' = 1
          /\ UNCHANGED <<server, disk, response, calm>>

\* The body ends, early if the connection was closed.
BodyEnds == /\ at = "body"
            /\ response.next > Size \/ ~calm

Incomplete == /\ BodyEnds
              /\ response.total # 0
              /\ Len(part[File]) # response.total
              /\ FailedOnce
              /\ response' = NoResponse
              /\ UNCHANGED <<server, disk, calm>>

Written == /\ BodyEnds
           /\ response.total # 0 => Len(part[File]) = response.total
           /\ at' = "promote"
           /\ UNCHANGED <<server, disk, current, attempt, response, calm>>

\* part_path.replace(destination_path), and on to the next file.
Promote == /\ at = "promote"
           /\ dest' = With(dest, File, [blocks |-> part[File],
                                        told |-> response.total # 0])
           /\ part' = Without(part, File)
           /\ NextFile
           /\ attempt' = 0
           /\ response' = NoResponse
           /\ UNCHANGED <<server, calm>>

-----------------------------------------------------------------------------
(* What happens to the worker and to the server.                           *)
Crash == /\ ~calm
         /\ at # "idle"
         /\ at' = "idle" /\ attempt' = 0 /\ current' = 1
         /\ response' = NoResponse
         /\ UNCHANGED <<server, disk, calm>>

Publish(f) == /\ ~calm
              /\ remote[f] < MaxVersion
              /\ remote' = [remote EXCEPT ![f] = @ + 1]
              /\ UNCHANGED <<ranges, disk, at, current, attempt, response, calm>>

CalmsDown == /\ ~calm
             /\ calm' = TRUE
             /\ UNCHANGED <<server, disk, at, current, attempt, response>>

Download == \/ Ensure \/ Skip \/ Fetch
            \/ PartialContent \/ WholeContent \/ Refused
            \/ Chunk \/ Incomplete \/ Written \/ Promote

Next == \/ Download
        \/ Breaks \/ Raises \/ Crash \/ CalmsDown
        \/ \E f \in Names : Publish(f)

(* The download goes on, and after a failure the worker is started again   *)
(* or asked for the model again.                                           *)
Spec     == Init /\ [][Next]_vars
FairSpec == Spec /\ WF_vars(Download)

-----------------------------------------------------------------------------
TypeOK ==
  /\ ranges \in BOOLEAN /\ calm \in BOOLEAN
  /\ remote \in [Names -> 1..MaxVersion]
  /\ DOMAIN part \subseteq Names /\ DOMAIN dest \subseteq Names
  /\ \A f \in DOMAIN part : part[f] \in Seq(Block)
  /\ \A f \in DOMAIN dest : dest[f] \in [blocks : Seq(Block), told : BOOLEAN]
  /\ at \in {"idle", "files", "request", "body", "promote"}
  /\ current \in DOMAIN Files
  /\ attempt \in 0..(MaxAttempts - 1)
  /\ response \in [version : 0..MaxVersion, next : 1..(Size + 1), total : {0, Size}]

(* However often a download is interrupted and resumed, no block is missing *)
(* or written twice, and a file promoted after a response that told its    *)
(* length is whole. Its blocks are of one version unless the server had    *)
(* another version in the meantime (download.py:39-74).                    *)
InOrder(blocks) == \A i \in DOMAIN blocks : blocks[i].pos = i
OneVersion(blocks) == \A i, j \in DOMAIN blocks : blocks[i].version = blocks[j].version
FilesAreWhole ==
  /\ \A f \in DOMAIN part : InOrder(part[f])
  /\ \A f \in DOMAIN dest : /\ InOrder(dest[f].blocks)
                            /\ dest[f].told => Len(dest[f].blocks) = Size
                            /\ remote[f] = 1 => OneVersion(dest[f].blocks)

(* A download that goes on once failures have ceased fetches every listed  *)
(* file, also behind the ones it finds there or has to resume, unless an   *)
(* earlier end of the process or a failed renaming has left a part file    *)
(* with its last block written: the server refuses each request to resume  *)
(* it, and nothing removes it. A model the code took for complete before   *)
(* is not downloaded any more (artifacts.py:71-74).                        *)
AllThere == at = "idle" /\ DOMAIN part = {} /\ Names \subseteq DOMAIN dest
Taken    == at = "idle" /\ CompleteLocally
Stuck    == ranges /\ \E f \in DOMAIN part :
                        Len(part[f]) >= Size /\ ~(f = File /\ at \in {"body", "promote"})
CompletesOrStuck == calm /\ ~Taken ~> AllThere \/ Stuck
=============================================================================
