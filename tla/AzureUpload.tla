----------------------------- MODULE AzureUpload -----------------------------
(***************************************************************************)
(* An upload in one part to Azure, from UploadPart (block/azure/adapter.go)*)
(* to its completion (multipart_block_writer.go, completeMultipart), which *)
(* the client may try again.  The lists that the copy staged are kept in   *)
(* two auxiliary blobs, which the completion reads and removes.            *)
(***************************************************************************)
EXTENDS BlockCopy

VARIABLES step,     \* where the completion is
          got,      \* what it has read of the list
          object    \* the list of chunks of the object; NoList before

completeVars == <<step, got, object>>
uploadVars   == <<copyVars, completeVars>>

BadList == -2    \* a list with an id that the service does not know

UploadInit == CopyInit /\ step = "idle" /\ got = NoList /\ object = NoList

\* UploadPart answers without an error when the copy returns and nothing failed.
PartAccepted == pc = "returned" /\ err = "EOF"

\* The client completes the upload once its part is accepted.
Complete ==
    /\ PartAccepted /\ step = "idle" /\ step' = "ids"
    /\ UNCHANGED <<copyVars, got, object>>

\* A refusal of the service ends the completion where it is.
Refused == step # "idle" /\ step' = "idle" /\ UNCHANGED <<copyVars, got, object>>

\* The list of an empty part is one empty line.
WholeList == IF idList = 0 THEN BadList ELSE idList

\* getMultipartIDs: commits the list and reads it, which fails once it is gone,
\* and removes it; that the removal fails is only logged.  That the download
\* breaks off is not asked for (scanner.Err): a part of the list, the last id
\* cut short or not, is used for the list.
ReadIds ==
    /\ step = "ids" /\ idList # NoList /\ step' = "sizes"
    /\ \/ got' = WholeList /\ UNCHANGED cut
       \/ got' \in {BadList} \cup 0..idList /\ cut' = cut \cup {"list"}
    /\ idList' \in {idList, NoList}
    /\ UNCHANGED <<readerVars, writer, errCh, poolVars, staged, failures, canceled, sized,
                   part, object>>

\* getMultipartSize does the same with the size.
ReadSizes ==
    /\ step = "sizes" /\ sized
    /\ step' = "commit" /\ sized' \in BOOLEAN
    /\ UNCHANGED <<readerVars, writer, errCh, poolVars, staged, failures, canceled, idList,
                   partVars, got, object>>

\* The service makes the object of chunks it holds, and drops the chunks that
\* the list leaves out.
CommitObject ==
    /\ step = "commit" /\ step' = "idle"
    /\ got # BadList /\ 1..got \subseteq staged
    /\ object' = got /\ staged' = 1..got
    /\ UNCHANGED <<readerVars, writer, errCh, poolVars, failures, canceled, listVars,
                   partVars, got>>

UploadNext ==
    \/ CopyNext /\ UNCHANGED completeVars
    \/ Complete \/ Refused \/ ReadIds \/ ReadSizes \/ CommitObject

\* The Go scheduler runs every goroutine that can go on, and the service
\* answers every call.
UploadFairness == WF_copyVars(Read) /\ \A c \in Chunks : WF_copyVars(Write(c))
UploadSpec == UploadInit /\ [][UploadNext]_uploadVars /\ UploadFairness

----------------------------------------------------------------------------
UploadTypeOK ==
    /\ CopyTypeOK
    /\ step \in {"idle", "ids", "sizes", "commit"}
    /\ {got, object} \subseteq {NoList, BadList} \cup 0..MaxChunks

\* A list of chunks is staged only when the part was read to its end, or to
\* where it broke off, and the service holds every chunk, whatever failed or was
\* cancelled meanwhile (copyFromReader, close); it holds them until a completion
\* makes the object.
ListedIsStaged == idList # NoList =>
    /\ err # "none" /\ idList = issued
    /\ object = NoList => 1..issued \subseteq staged

\* An accepted part was stored without a failure: no error of a writer is lost
\* on its way to the caller (errCh, getErr).  The service holds its chunks, and
\* after a completion those of the object.
AcceptedIsStored == PartAccepted =>
    failures = 0 /\ staged = 1..(IF object = NoList THEN issued ELSE object)

\* However often the completion is tried, the object is of an accepted part and
\* of its first chunks, in their order and all held by the service.  It is the
\* whole part unless the part's body or a download of the list broke off, which
\* neither sendChunk nor getMultipartIDs reports.
ObjectIsPart == object # NoList =>
    /\ PartAccepted /\ object \in 0..issued /\ 1..object \subseteq staged
    /\ cut = {} => object = part

\* UploadPart returns: every writer gives its buffer back, and with the one
\* buffer that UploadPart has the next writer starts only after the reader met
\* the error of the one before, so none waits for room in the channel.
CopyReturns == <>(pc = "returned")
=============================================================================
