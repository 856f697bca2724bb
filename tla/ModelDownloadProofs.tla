------------------------- MODULE ModelDownloadProofs -------------------------
(***************************************************************************)
(* Proofs about ModelDownload: downloads that are resumed leave whole      *)
(* files, for any number of files, blocks, attempts and versions.          *)
(***************************************************************************)
EXTENDS ModelDownload, TLAPS

AnyBlock == [pos : Nat, version : Nat]

(* Blocks read one after the other, of versions the server has had.        *)
Good(blocks, latest) ==
  /\ blocks \in Seq(AnyBlock)
  /\ \A i \in DOMAIN blocks : blocks[i].pos = i /\ blocks[i].version \in 1..latest

(* The body being read continues the part file where it ends; a part file  *)
(* about to be promoted has the length that was told.                      *)
PartsGood == /\ DOMAIN part \subseteq Names
             /\ \A f \in DOMAIN part : Good(part[f], remote[f])
DestGood == /\ DOMAIN dest \subseteq Names
            /\ \A f \in DOMAIN dest : /\ Good(dest[f].blocks, remote[f])
                                      /\ dest[f].told => Len(dest[f].blocks) = Size
BodyGood == at = "body" => /\ File \in DOMAIN part
                           /\ response.next = Len(part[File]) + 1
                           /\ response.version \in 1..remote[File]
                           /\ response.total \in {0, Size}
                           /\ response = [version |-> response.version, next |-> response.next,
                                          total |-> response.total]
PromoteGood == at = "promote" => /\ File \in DOMAIN part
                                 /\ response.total # 0 => Len(part[File]) = Size

DownloadInv == /\ remote \in [Names -> Nat \ {0}]
               /\ current \in DOMAIN Files
               /\ PartsGood /\ DestGood /\ BodyGood /\ PromoteGood

LEMMA FileNames == current \in DOMAIN Files => File \in Names
BY DEF File, Names

LEMMA GoodEmpty == ASSUME NEW n PROVE Good(<<>>, n)
BY DEF Good

LEMMA GoodLater ==
  ASSUME NEW b, NEW m \in Nat, NEW n \in Nat, m <= n, Good(b, m)
  PROVE  Good(b, n)
BY DEF Good

LEMMA GoodNext ==
  ASSUME NEW b, NEW n \in Nat, NEW v \in 1..n, Good(b, n)
  PROVE  /\ Good(Append(b, [pos |-> Len(b) + 1, version |-> v]), n)
         /\ Len(Append(b, [pos |-> Len(b) + 1, version |-> v])) = Len(b) + 1
<1> DEFINE x == [pos |-> Len(b) + 1, version |-> v]
<1>1. b \in Seq(AnyBlock) /\ Len(b) \in Nat
  BY DEF Good
<1>2. x \in AnyBlock /\ x.pos = Len(b) + 1 /\ x.version = v
  BY <1>1 DEF AnyBlock
<1> HIDE DEF x
<1>3. Append(b, x) \in Seq(AnyBlock) /\ Len(Append(b, x)) = Len(b) + 1
  BY <1>1, <1>2
<1>4. ASSUME NEW i \in DOMAIN Append(b, x)
      PROVE  Append(b, x)[i].pos = i /\ Append(b, x)[i].version \in 1..n
  <2>1. CASE i = Len(b) + 1
    <3>1. Append(b, x)[i] = x
      BY <1>1, <2>1
    <3>2. QED
      BY <1>2, <2>1, <3>1
  <2>2. CASE i # Len(b) + 1
    <3>1. i \in DOMAIN b /\ Append(b, x)[i] = b[i]
      BY <1>1, <1>3, <2>2
    <3>2. QED
      BY <3>1 DEF Good
  <2>3. QED
    BY <2>1, <2>2
<1>5. QED
  BY <1>3, <1>4 DEF Good, x

-----------------------------------------------------------------------------
LEMMA DownloadInit == Init => DownloadInv
<1> SUFFICES ASSUME Init PROVE DownloadInv
  OBVIOUS
<1>1. remote \in [Names -> Nat \ {0}] /\ at = "idle"
  BY DEF Init
<1>2. current \in DOMAIN Files
  BY DownloadAssumption DEF Init
<1>3. DOMAIN part = {} /\ DOMAIN dest = {}
  BY DEF Init
<1>4. QED
  BY <1>1, <1>2, <1>3 DEF DownloadInv, PartsGood, DestGood, BodyGood, PromoteGood

(* A step that leaves the files alone and reads no body.                   *)
LEMMA Elsewhere ==
  ASSUME DownloadInv, UNCHANGED <<part, dest>>, UNCHANGED remote, current' \in DOMAIN Files,
         at' \notin {"body", "promote"}
  PROVE  DownloadInv'
BY DEF DownloadInv, PartsGood, DestGood, BodyGood, PromoteGood

LEMMA NextFiles ==
  ASSUME DownloadInv, NextFile \/ FailedOnce
  PROVE  at' \notin {"body", "promote"} /\ current' \in DOMAIN Files
<1>1. Len(Files) \in Nat \ {0} /\ DOMAIN Files = 1..Len(Files) /\ current \in DOMAIN Files
  BY DownloadAssumption DEF DownloadInv
<1>2. QED
  BY <1>1 DEF NextFile, FailedOnce

-----------------------------------------------------------------------------
LEMMA DownloadNext == DownloadInv /\ [Next]_vars => DownloadInv'
<1> SUFFICES ASSUME DownloadInv, [Next]_vars PROVE DownloadInv'
  OBVIOUS
<1>c. /\ current \in DOMAIN Files /\ File \in Names /\ remote[File] \in Nat \ {0}
      /\ PartsGood /\ DestGood /\ BodyGood /\ PromoteGood
  BY FileNames DEF DownloadInv
<1>o. 1 \in DOMAIN Files
  BY DownloadAssumption
<1>1. CASE Ensure \/ Fetch
  BY <1>1, <1>c, <1>o, Elsewhere DEF Ensure, Fetch, server, disk
<1>2. CASE Skip
  BY <1>2, NextFiles, Elsewhere DEF Skip, server, disk
<1>3. CASE PartialContent
  <2>1. /\ UNCHANGED <<part, dest, remote, current>> /\ at' = "body"
        /\ Resumed \in 1..(Size - 1)
        /\ response' = [version |-> remote[File], next |-> Resumed + 1, total |-> Size]
    BY <1>3 DEF PartialContent, server, disk
  <2>2. File \in DOMAIN part /\ Resumed = Len(part[File])
    BY <2>1 DEF Resumed
  <2>3. File' = File
    BY <2>1 DEF File
  <2>4. BodyGood'
    BY <1>c, <2>1, <2>2, <2>3 DEF BodyGood
  <2>5. PromoteGood' /\ PartsGood' /\ DestGood'
    BY <1>c, <2>1 DEF PromoteGood, PartsGood, DestGood
  <2>6. QED
    BY <2>1, <2>4, <2>5 DEF DownloadInv
<1>4. CASE WholeContent
  <2>1. /\ UNCHANGED <<dest, remote, current>> /\ at' = "body" /\ part' = With(part, File, <<>>)
    BY <1>4 DEF WholeContent, server
  <2>2. PICK total \in {0, Size} :
          response' = [version |-> remote[File], next |-> 1, total |-> total]
    BY <1>4 DEF WholeContent, WholeBody
  <2>3. File' = File
    BY <2>1 DEF File
  <2>4. /\ DOMAIN part' = DOMAIN part \cup {File} /\ part'[File] = <<>>
        /\ \A f \in DOMAIN part' : f # File => f \in DOMAIN part /\ part'[f] = part[f]
    BY <2>1 DEF With
  <2>5. BodyGood'
    BY <1>c, <2>1, <2>2, <2>3, <2>4 DEF BodyGood
  <2>6. PartsGood'
    BY <1>c, <2>1, <2>4, GoodEmpty DEF PartsGood
  <2>7. PromoteGood' /\ DestGood'
    BY <1>c, <2>1 DEF PromoteGood, DestGood
  <2>8. QED
    BY <2>1, <2>5, <2>6, <2>7 DEF DownloadInv
<1>5. CASE Refused \/ Incomplete \/ Breaks
  <2>1. FailedOnce /\ UNCHANGED <<part, dest, remote>>
    BY <1>5 DEF Refused, Incomplete, Breaks, server, disk
  <2>2. QED
    BY <2>1, NextFiles, Elsewhere
<1>6. CASE Chunk
  <2> DEFINE new == Append(part[File], [pos |-> Len(part[File]) + 1,
                                        version |-> response.version])
  <2>1. /\ File \in DOMAIN part /\ response.next = Len(part[File]) + 1
        /\ response.version \in 1..remote[File] /\ response.total \in {0, Size}
        /\ response = [version |-> response.version, next |-> response.next,
                       total |-> response.total]
        /\ Good(part[File], remote[File])
    BY <1>6, <1>c DEF Chunk, BodyGood, PartsGood
  <2>2. /\ UNCHANGED <<dest, remote, current, at>> /\ at = "body"
        /\ part' = [part EXCEPT ![File] = new]
        /\ response' = [response EXCEPT !.next = @ + 1]
    BY <1>6, <2>1 DEF Chunk, server
  <2>3. Good(new, remote[File]) /\ Len(new) = Len(part[File]) + 1
    BY <1>c, <2>1, GoodNext
  <2> HIDE DEF new
  <2>4. /\ DOMAIN part' = DOMAIN part /\ part'[File] = new
        /\ \A f \in DOMAIN part : f # File => part'[f] = part[f]
    BY <2>1, <2>2
  <2>5. response' = [version |-> response.version, next |-> response.next + 1,
                     total |-> response.total]
    BY <2>1, <2>2
  <2>6. File' = File
    BY <2>2 DEF File
  <2>7. BodyGood'
    BY <2>1, <2>2, <2>3, <2>4, <2>5, <2>6 DEF BodyGood
  <2>8. PartsGood'
    BY <1>c, <2>2, <2>3, <2>4 DEF PartsGood
  <2>9. PromoteGood' /\ DestGood'
    BY <1>c, <2>2 DEF PromoteGood, DestGood
  <2>10. QED
    BY <1>c, <2>2, <2>7, <2>8, <2>9 DEF DownloadInv
<1>7. CASE Written
  <2>1. /\ UNCHANGED <<part, dest, remote, current, response>> /\ at = "body" /\ at' = "promote"
        /\ response.total # 0 => Len(part[File]) = response.total
    BY <1>7 DEF Written, BodyEnds, server, disk
  <2>2. File' = File
    BY <2>1 DEF File
  <2>3. PromoteGood'
    BY <1>c, <2>1, <2>2 DEF PromoteGood, BodyGood
  <2>4. BodyGood' /\ PartsGood' /\ DestGood'
    BY <1>c, <2>1 DEF BodyGood, PartsGood, DestGood
  <2>5. QED
    BY <2>1, <2>3, <2>4 DEF DownloadInv
<1>8. CASE Promote
  <2>1. /\ UNCHANGED remote /\ NextFile /\ part' = Without(part, File)
        /\ dest' = With(dest, File, [blocks |-> part[File], told |-> response.total # 0])
        /\ File \in DOMAIN part /\ (response.total # 0 => Len(part[File]) = Size)
    BY <1>8, <1>c DEF Promote, PromoteGood, server
  <2>2. /\ DOMAIN part' \subseteq DOMAIN part
        /\ \A f \in DOMAIN part' : part'[f] = part[f]
    BY <2>1 DEF Without
  <2>3. PartsGood'
    BY <1>c, <2>1, <2>2 DEF PartsGood
  <2>4. /\ DOMAIN dest' = DOMAIN dest \cup {File}
        /\ dest'[File].blocks = part[File] /\ dest'[File].told = (response.total # 0)
        /\ \A f \in DOMAIN dest' : f # File => f \in DOMAIN dest /\ dest'[f] = dest[f]
    BY <2>1 DEF With
  <2>5. DestGood'
    <3>1. Good(part[File], remote[File]) /\ File \in Names
      BY <1>c, <2>1 DEF PartsGood
    <3>2. DOMAIN dest' \subseteq Names
      BY <1>c, <2>4, <3>1 DEF DestGood
    <3>3. ASSUME NEW f \in DOMAIN dest', f # File
          PROVE  Good(dest'[f].blocks, remote'[f]) /\ (dest'[f].told => Len(dest'[f].blocks) = Size)
      BY <1>c, <2>1, <2>4, <3>3, Zenon DEF DestGood
    <3>4. /\ Good(dest'[File].blocks, remote'[File])
          /\ dest'[File].told => Len(dest'[File].blocks) = Size
      BY <2>1, <2>4, <3>1, Zenon
    <3>5. QED
      BY <3>2, <3>3, <3>4, Zenon DEF DestGood
  <2>6. at' \notin {"body", "promote"} /\ current' \in DOMAIN Files
    BY <2>1, NextFiles
  <2>7. QED
    BY <2>1, <2>3, <2>5, <2>6 DEF DownloadInv, BodyGood, PromoteGood
<1>9. CASE Raises \/ Crash
  BY <1>9, <1>o, Elsewhere DEF Raises, Crash, server, disk
<1>10. ASSUME NEW g \in Names, Publish(g) PROVE DownloadInv'
  <2>1. /\ UNCHANGED <<part, dest, at, current, response>>
        /\ remote' = [remote EXCEPT ![g] = @ + 1]
    BY <1>10 DEF Publish, disk
  <2>2. /\ remote' \in [Names -> Nat \ {0}]
        /\ \A f \in Names : remote[f] \in Nat /\ remote'[f] \in Nat /\ remote[f] <= remote'[f]
    BY <2>1 DEF DownloadInv
  <2>3. File' = File
    BY <2>1 DEF File
  <2>4. PartsGood'
    BY <1>c, <2>1, <2>2, GoodLater DEF PartsGood
  <2>5. DestGood'
    BY <1>c, <2>1, <2>2, GoodLater DEF DestGood
  <2>6. BodyGood'
    BY <1>c, <2>1, <2>2, <2>3 DEF BodyGood
  <2>7. PromoteGood'
    BY <1>c, <2>1, <2>3 DEF PromoteGood
  <2>8. QED
    BY <1>c, <2>1, <2>2, <2>4, <2>5, <2>6, <2>7 DEF DownloadInv
<1>11. CASE CalmsDown \/ UNCHANGED vars
  <2>1. UNCHANGED <<part, dest, at, current, response, remote>>
    BY <1>11 DEF CalmsDown, vars, server, disk
  <2>2. QED
    BY <1>c, <2>1 DEF DownloadInv, PartsGood, DestGood, BodyGood, PromoteGood, File
<1>12. QED
  BY <1>1, <1>2, <1>3, <1>4, <1>5, <1>6, <1>7, <1>8, <1>9, <1>10, <1>11 DEF Next, Download

(* However often a download breaks and is resumed, no block is missing,    *)
(* written twice or out of its place, a file whose length was told is      *)
(* whole, and one the server never replaced is of one version              *)
(* (download.py _download_file_once, artifact_manager.py).                 *)
THEOREM ResumedIsWhole == Spec => []FilesAreWhole
<1>1. ASSUME DownloadInv PROVE FilesAreWhole
  <2>1. \A f \in DOMAIN part : InOrder(part[f])
    BY <1>1 DEF DownloadInv, PartsGood, Good, InOrder
  <2>2. ASSUME NEW f \in DOMAIN dest
        PROVE  /\ InOrder(dest[f].blocks)
               /\ dest[f].told => Len(dest[f].blocks) = Size
               /\ remote[f] = 1 => OneVersion(dest[f].blocks)
    <3>1. Good(dest[f].blocks, remote[f]) /\ (dest[f].told => Len(dest[f].blocks) = Size)
      BY <1>1 DEF DownloadInv, DestGood
    <3>2. remote[f] = 1 => \A i \in DOMAIN dest[f].blocks : dest[f].blocks[i].version = 1
      BY <3>1 DEF Good
    <3>3. QED
      BY <3>1, <3>2 DEF Good, InOrder, OneVersion
  <2>3. QED
    BY <2>1, <2>2 DEF FilesAreWhole
<1>2. QED
  BY <1>1, DownloadInit, DownloadNext, PTL DEF Spec

-----------------------------------------------------------------------------
(* The types, with the blocks of the part files and of the promoted ones.  *)
Phases == {"idle", "files", "request", "body", "promote"}
Responses == [version : 0..MaxVersion, next : 1..(Size + 1), total : {0, Size}]
PartTypes == DOMAIN part \subseteq Names /\ \A f \in DOMAIN part : part[f] \in Seq(Block)
DestTypes == /\ DOMAIN dest \subseteq Names
             /\ \A f \in DOMAIN dest : dest[f] \in [blocks : Seq(Block), told : BOOLEAN]
ServerTypes == ranges \in BOOLEAN /\ remote \in [Names -> 1..MaxVersion]
LoopTypes == at \in Phases /\ current \in DOMAIN Files /\ attempt \in 0..(MaxAttempts - 1)

LEMMA NextFileTypes ==
  ASSUME LoopTypes, NextFile
  PROVE  at' \in Phases /\ current' \in DOMAIN Files
<1>1. Len(Files) \in Nat \ {0} /\ DOMAIN Files = 1..Len(Files)
  BY DownloadAssumption
<1>2. QED
  BY <1>1 DEF NextFile, LoopTypes, Phases

LEMMA FailedOnceTypes ==
  ASSUME LoopTypes, FailedOnce
  PROVE  LoopTypes'
<1>1. 1 \in DOMAIN Files /\ MaxAttempts \in Nat \ {0}
  BY DownloadAssumption
<1>2. QED
  BY <1>1 DEF FailedOnce, LoopTypes, Phases

LEMMA NoResponseType == NoResponse \in Responses
BY DownloadAssumption DEF NoResponse, Responses

LEMMA LoopStep ==
  ASSUME TypeOK, [Next]_vars PROVE LoopTypes'
<1>1. LoopTypes /\ 1 \in DOMAIN Files /\ 0 \in 0..(MaxAttempts - 1)
  BY DownloadAssumption DEF TypeOK, LoopTypes, Phases
<1>2. CASE Ensure \/ Fetch \/ PartialContent \/ WholeContent \/ Chunk \/ Written
  BY <1>1, <1>2 DEF Ensure, Fetch, PartialContent, WholeContent, Chunk, Written,
                    LoopTypes, Phases
<1>3. CASE Skip
  BY <1>1, <1>3, NextFileTypes DEF Skip, LoopTypes
<1>4. CASE Promote
  BY <1>1, <1>4, NextFileTypes DEF Promote, LoopTypes
<1>5. CASE Refused \/ Incomplete \/ Breaks
  BY <1>1, <1>5, FailedOnceTypes DEF Refused, Incomplete, Breaks
<1>6. CASE Raises \/ Crash
  BY <1>1, <1>6 DEF Raises, Crash, LoopTypes, Phases
<1>7. CASE CalmsDown \/ UNCHANGED vars \/ \E f \in Names : Publish(f)
  BY <1>1, <1>7 DEF CalmsDown, vars, Publish, LoopTypes, Phases
<1>8. QED
  BY <1>2, <1>3, <1>4, <1>5, <1>6, <1>7 DEF Next, Download

LEMMA ResponseStep ==
  ASSUME TypeOK, [Next]_vars PROVE response' \in Responses
<1>1. response \in Responses /\ File \in Names /\ Size \in Nat \ {0}
  BY DownloadAssumption, FileNames DEF TypeOK, Responses
<1>2. remote[File] \in 0..MaxVersion
  BY <1>1, DownloadAssumption DEF TypeOK
<1>3. CASE PartialContent
  <2>1. /\ Resumed \in 1..(Size - 1)
        /\ response' = [version |-> remote[File], next |-> Resumed + 1, total |-> Size]
    BY <1>3 DEF PartialContent
  <2> HIDE DEF Resumed
  <2>2. QED
    BY <1>1, <1>2, <2>1 DEF Responses
<1>4. CASE WholeContent
  BY <1>1, <1>2, <1>4 DEF WholeContent, WholeBody, Responses
<1>5. CASE Chunk
  <2>1. response.next <= Size /\ response' = [response EXCEPT !.next = @ + 1]
    BY <1>5 DEF Chunk
  <2>2. QED
    BY <1>1, <2>1 DEF Responses
<1>6. CASE \/ Ensure \/ Skip \/ Fetch \/ Refused \/ Written \/ Raises \/ CalmsDown
           \/ UNCHANGED vars \/ \E f \in Names : Publish(f)
  BY <1>1, <1>6 DEF Ensure, Skip, Fetch, Refused, Written, Raises, CalmsDown, vars, Publish
<1>7. CASE Incomplete \/ Breaks \/ Promote \/ Crash
  BY <1>7, NoResponseType DEF Incomplete, Breaks, Promote, Crash
<1>8. QED
  BY <1>3, <1>4, <1>5, <1>6, <1>7 DEF Next, Download

LEMMA ServerStep ==
  ASSUME TypeOK, [Next]_vars PROVE ServerTypes' /\ calm' \in BOOLEAN
<1>1. CASE UNCHANGED <<server, calm>>
  BY <1>1, Zenon DEF TypeOK, ServerTypes, server
<1>2. CASE CalmsDown
  BY <1>2, Zenon DEF CalmsDown, TypeOK, ServerTypes, server
<1>3. ASSUME NEW f \in Names, Publish(f) PROVE ServerTypes' /\ calm' \in BOOLEAN
  <2>1. ranges' = ranges /\ calm' = calm
    BY <1>3 DEF Publish
  <2>2. remote' \in [Names -> 1..MaxVersion]
    BY <1>3, DownloadAssumption DEF Publish, TypeOK
  <2>3. QED
    BY <2>1, <2>2, Zenon DEF TypeOK, ServerTypes
<1>4. QED
  BY <1>1, <1>2, <1>3
     DEF Next, Download, Ensure, Skip, Fetch, PartialContent, WholeContent, Refused, Chunk,
         Incomplete, Written, Promote, Breaks, Raises, Crash, vars

(* A block that is written is the next one of the version being served.    *)
LEMMA DiskStep ==
  ASSUME TypeOK, DownloadInv, [Next]_vars PROVE PartTypes' /\ DestTypes'
<1>1. PartTypes /\ DestTypes /\ File \in Names
  BY FileNames DEF TypeOK, PartTypes, DestTypes
<1>2. CASE WholeContent
  <2>1. dest' = dest /\ part' = With(part, File, <<>>)
    BY <1>2 DEF WholeContent
  <2>2. DestTypes'
    BY <1>1, <2>1 DEF DestTypes
  <2>3. DOMAIN part' = DOMAIN part \cup {File}
    BY <2>1 DEF With
  <2>4. \A f \in DOMAIN part' : part'[f] = IF f = File THEN <<>> ELSE part[f]
    BY <2>1 DEF With
  <2>5. <<>> \in Seq(Block)
    OBVIOUS
  <2>6. QED
    BY <1>1, <2>2, <2>3, <2>4, <2>5 DEF PartTypes
<1>3. CASE Chunk
  <2> DEFINE b == [pos |-> response.next, version |-> response.version]
  <2>1. /\ dest' = dest /\ part' = [part EXCEPT ![File] = Append(part[File], b)]
        /\ response.next <= Size /\ at = "body"
    BY <1>3 DEF Chunk
  <2>2. /\ File \in DOMAIN part /\ response.version \in 1..remote[File]
        /\ remote[File] \in 1..MaxVersion
    BY <1>1, <2>1 DEF DownloadInv, BodyGood, TypeOK
  <2>3. response.next \in 1..(Size + 1)
    BY DEF TypeOK
  <2>4. b \in Block
    BY <2>1, <2>2, <2>3, DownloadAssumption DEF Block
  <2> HIDE DEF b
  <2>5. Append(part[File], b) \in Seq(Block)
    BY <1>1, <2>2, <2>4 DEF PartTypes
  <2>6. QED
    BY <1>1, <2>1, <2>2, <2>5 DEF PartTypes, DestTypes
<1>4. CASE Promote
  <2> DEFINE d == [blocks |-> part[File], told |-> response.total # 0]
  <2>1. at = "promote" /\ part' = Without(part, File) /\ dest' = With(dest, File, d)
    BY <1>4 DEF Promote
  <2>2. File \in DOMAIN part
    BY <2>1 DEF DownloadInv, PromoteGood
  <2>3. d \in [blocks : Seq(Block), told : BOOLEAN]
    BY <1>1, <2>2, Zenon DEF PartTypes
  <2> HIDE DEF d
  <2>4. DOMAIN dest' = DOMAIN dest \cup {File}
    BY <2>1 DEF With
  <2>5. \A f \in DOMAIN dest' : dest'[f] = IF f = File THEN d ELSE dest[f]
    BY <2>1 DEF With
  <2>6. DestTypes'
    BY <1>1, <2>3, <2>4, <2>5 DEF DestTypes
  <2>7. PartTypes'
    BY <1>1, <2>1 DEF PartTypes, Without
  <2>8. QED
    BY <2>6, <2>7
<1>5. CASE UNCHANGED disk
  BY <1>1, <1>5 DEF disk, PartTypes, DestTypes
<1>6. UNCHANGED vars => UNCHANGED disk
  BY DEF vars, disk
<1>7. ASSUME NEW f \in Names, Publish(f) PROVE UNCHANGED disk
  BY <1>7 DEF Publish
<1>8. QED
  BY <1>2, <1>3, <1>4, <1>5, <1>6, <1>7
     DEF Next, Download, Ensure, Skip, Fetch, PartialContent, Refused, Incomplete, Written,
         Breaks, Raises, Crash, CalmsDown

(* The type invariant of the download: a block has a place in the file and *)
(* a version the server has had, a counter stays in its bounds             *)
(* (download.py, artifact_manager.py).                                     *)
THEOREM TypeCorrect == Spec => []TypeOK
<1>1. Init => TypeOK
  <2>1. 1 \in DOMAIN Files /\ 0 \in 0..(MaxAttempts - 1) /\ 1 \in 1..MaxVersion
    BY DownloadAssumption
  <2>2. QED
    BY <2>1, NoResponseType DEF Init, TypeOK, Responses
<1>2. TypeOK /\ DownloadInv /\ [Next]_vars => TypeOK'
  <2> SUFFICES ASSUME TypeOK, DownloadInv, [Next]_vars PROVE TypeOK'
    OBVIOUS
  <2>1. LoopTypes' /\ response' \in Responses /\ ServerTypes' /\ calm' \in BOOLEAN
    BY LoopStep, ResponseStep, ServerStep
  <2>2. PartTypes' /\ DestTypes'
    BY DiskStep
  <2>3. QED
    BY <2>1, <2>2, Zenon
       DEF TypeOK, LoopTypes, Phases, Responses, ServerTypes, PartTypes, DestTypes
<1>3. QED
  BY <1>1, <1>2, DownloadInit, DownloadNext, PTL DEF Spec

=============================================================================
