------------------------------ MODULE BlockCopy ------------------------------
(***************************************************************************)
(* One part on its way to Azure (block/azure/chunkwriting.go): the reading *)
(* goroutine cuts the part into chunks and starts a writer for each; the   *)
(* writers share a pool of buffers and a channel that holds one error.     *)
(* When the reader is at the end and the writers are done, the list of the *)
(* chunks is staged for the completion of the upload                       *)
(* (multipart_block_writer.go, CommitBlockList).                           *)
(*                                                                         *)
(* Chunks are numbered in the order in which they are read.  The service's *)
(* answers, the length of the part, whether its body breaks off on the way *)
(* and the caller's cancellation are choices of the environment.           *)
(***************************************************************************)
EXTENDS Integers, FiniteSets

CONSTANTS MaxChunks,     \* bound: chunks of the part
          Concurrency,   \* buffers of the pool; the only caller, UploadPart, has one
          MaxFailures    \* bound: writes that fail

ASSUME BlockCopyAssumption ==
    /\ MaxChunks \in Nat /\ MaxFailures \in Nat
    /\ Concurrency \in Nat \ {0}

VARIABLES pc,         \* where the reading goroutine is
          err,        \* its error: none, the end of the part, or a real one
          issued,     \* chunks read so far
          writer,     \* per chunk, where its writer is
          errCh,      \* errors in the channel, at most one
          pool,       \* free buffers
          count,      \* buffers the pool has made
          staged,     \* chunks the service holds
          failures,   \* writes that failed
          canceled,   \* the caller's context is cancelled
          idList,     \* the staged list of chunks; NoList if there is none
          sized,      \* the size of the part is staged
          part,       \* chunks of the part the client sends
          cut         \* what broke off unnoticed: the part's body, the list's download

readerVars == <<pc, err, issued>>
poolVars   == <<pool, count>>
listVars   == <<idList, sized>>
partVars   == <<part, cut>>
copyVars   == <<pc, err, issued, writer, errCh, pool, count, staged, failures,
                canceled, idList, sized, part, cut>>

Chunks == 1..MaxChunks
NoList == -1    \* a list is the number of the chunks it names, in order

Reading == {"acquire", "check", "read"}
Closing == {"ids", "sizes"}
Writing == {"started", "staging", "failing", "releasing", "finishing"}

CopyInit ==
    /\ pc = "acquire" /\ err = "none" /\ issued = 0
    /\ writer = [c \in Chunks |-> "none"]
    /\ errCh = 0 /\ pool = 0 /\ count = 0
    /\ staged = {} /\ failures = 0 /\ canceled = FALSE
    /\ idList = NoList /\ sized = FALSE
    /\ part \in 0..MaxChunks /\ cut = {}

----------------------------------------------------------------------------
(* The reading goroutine. *)

\* Mutant of the next action: the pool grows by one buffer more.
AcquireMore ==
    /\ pc = "acquire"
    /\ \/ pool > 0 /\ pool' = pool - 1 /\ UNCHANGED count
       \/ pool = 0 /\ count <= Concurrency /\ count' = count + 1 /\ UNCHANGED pool
    /\ pc' = "check"
    /\ UNCHANGED <<err, issued, writer, errCh, staged, failures, canceled, listVars, partVars>>

\* A free buffer, or a new one while the pool may grow; else the goroutine waits.
Acquire ==
    /\ pc = "acquire"
    /\ \/ pool > 0 /\ pool' = pool - 1 /\ UNCHANGED count
       \/ pool = 0 /\ count < Concurrency /\ count' = count + 1 /\ UNCHANGED pool
    /\ pc' = "check"
    /\ UNCHANGED <<err, issued, writer, errCh, staged, failures, canceled, listVars, partVars>>

\* getErr: a writer's error first, which it takes out of the channel; then the
\* context's.
HasErr  == errCh > 0 \/ canceled
TakeErr == errCh' = 0

\* The reader stops with e and gives its buffer back.
StopReading(e) == pc' = "wait" /\ err' = e /\ pool' = pool + 1

Check ==
    /\ pc = "check" /\ TakeErr
    /\ IF HasErr
       THEN StopReading("error")
       ELSE pc' = "read" /\ UNCHANGED <<err, pool>>
    /\ UNCHANGED <<issued, writer, count, staged, failures, canceled, listVars, partVars>>

\* A body that breaks off (io.ErrUnexpectedEOF) is taken for one that ends.
BreakOff == issued < part /\ cut' = cut \cup {"body"}

\* A chunk is read, and its writer started with the buffer.  Full chunks go on;
\* a short one is the last of the part, or of what came of it.
ReadChunk ==
    /\ pc = "read" /\ issued < part
    /\ issued' = issued + 1
    /\ writer' = [writer EXCEPT ![issued + 1] = "started"]
    /\ \/ pc' = "acquire" /\ UNCHANGED <<err, cut>>
       \/ /\ pc' = "wait" /\ err' = "EOF"
          /\ BreakOff \/ (issued + 1 = part /\ UNCHANGED cut)
    /\ UNCHANGED <<errCh, poolVars, staged, failures, canceled, listVars, part>>

\* The part ended or broke off with the chunk before, or the read failed: then a
\* writer's error counts more, and either way the copy fails.
ReadEnd ==
    /\ pc = "read"
    /\ \/ StopReading("EOF") /\ issued = part /\ UNCHANGED <<errCh, cut>>
       \/ StopReading("EOF") /\ BreakOff /\ UNCHANGED errCh
       \/ StopReading("error") /\ TakeErr /\ UNCHANGED cut
    /\ UNCHANGED <<issued, writer, count, staged, failures, canceled, listVars, part>>

\* cp.wg.Wait, and then close with its getErr.
WritersDone == \A c \in Chunks : writer[c] \notin Writing

\* Mutants of the next action: close without getErr; close as soon as the part is read.
WaitOnly ==
    /\ pc = "wait" /\ WritersDone
    /\ pc' = IF err = "EOF" THEN "ids" ELSE "free"
    /\ UNCHANGED <<err, errCh, issued, writer, poolVars, staged, failures, canceled,
                   listVars, partVars>>
WaitForNone ==
    /\ pc = "wait"
    /\ pc' = IF err = "EOF" THEN "ids" ELSE "free"
    /\ UNCHANGED <<err, errCh, issued, writer, poolVars, staged, failures, canceled,
                   listVars, partVars>>

Wait ==
    /\ pc = "wait" /\ WritersDone
    /\ IF err = "EOF"
       THEN TakeErr /\ IF HasErr THEN pc' = "free" /\ err' = "error"
                                 ELSE pc' = "ids" /\ UNCHANGED err
       ELSE pc' = "free" /\ UNCHANGED <<err, errCh>>
    /\ UNCHANGED <<issued, writer, poolVars, staged, failures, canceled, listVars, partVars>>

\* Mutant: the last, short chunk is not listed.
StageFullIds ==
    /\ pc = "ids"
    /\ idList' = IF issued > 0 THEN issued - 1 ELSE 0
    /\ pc' = "sizes"
    /\ UNCHANGED <<err, issued, writer, errCh, poolVars, staged, failures, canceled, sized,
                   partVars>>

\* CommitBlockList stages the ids issued, then the size; the service may refuse
\* each.
StageIds ==
    /\ pc = "ids"
    /\ \/ idList' = issued /\ pc' = "sizes" /\ UNCHANGED err
       \/ pc' = "free" /\ err' = "error" /\ UNCHANGED idList
    /\ UNCHANGED <<issued, writer, errCh, poolVars, staged, failures, canceled, sized,
                   partVars>>

StageSizes ==
    /\ pc = "sizes" /\ pc' = "free"
    /\ \/ sized' = TRUE /\ UNCHANGED err
       \/ err' = "error" /\ UNCHANGED sized
    /\ UNCHANGED <<issued, writer, errCh, poolVars, staged, failures, canceled, idList,
                   partVars>>

\* Free takes back every buffer the pool has made, waiting for each.
Free ==
    /\ pc = "free"
    /\ IF count > 0
       THEN pool > 0 /\ pool' = pool - 1 /\ count' = count - 1 /\ UNCHANGED pc
       ELSE pc' = "returned" /\ UNCHANGED poolVars
    /\ UNCHANGED <<err, issued, writer, errCh, staged, failures, canceled, listVars, partVars>>

Read == Acquire \/ Check \/ ReadChunk \/ ReadEnd \/ Wait \/ StageIds \/ StageSizes \/ Free

----------------------------------------------------------------------------
(* The writer of chunk c. *)

Moves(c, from, to) == writer[c] = from /\ writer' = [writer EXCEPT ![c] = to]

\* A writer that finds its context cancelled returns without a word.
StartWrite(c) ==
    /\ Moves(c, "started", IF canceled THEN "releasing" ELSE "staging")
    /\ UNCHANGED <<readerVars, errCh, poolVars, staged, failures, canceled, listVars,
                   partVars>>

Stage(c) ==
    /\ \/ Moves(c, "staging", "releasing") /\ staged' = staged \cup {c} /\ UNCHANGED failures
       \/ /\ Moves(c, "staging", "failing")
          /\ failures < MaxFailures /\ failures' = failures + 1 /\ UNCHANGED staged
    /\ UNCHANGED <<readerVars, errCh, poolVars, canceled, listVars, partVars>>

\* The channel holds one error: the next writer that fails waits for room.
SendErr(c) ==
    /\ Moves(c, "failing", "releasing")
    /\ errCh = 0 /\ errCh' = 1
    /\ UNCHANGED <<readerVars, poolVars, staged, failures, canceled, listVars, partVars>>

\* Mutant: the writer keeps its buffer.
KeepBuffer(c) ==
    /\ Moves(c, "releasing", "finishing")
    /\ UNCHANGED <<readerVars, errCh, poolVars, staged, failures, canceled, listVars,
                   partVars>>

\* The deferred calls: first the buffer, then the wait group.
ReleaseBuffer(c) ==
    /\ Moves(c, "releasing", "finishing")
    /\ pool' = pool + 1
    /\ UNCHANGED <<readerVars, errCh, count, staged, failures, canceled, listVars, partVars>>

FinishWrite(c) ==
    /\ Moves(c, "finishing", "done")
    /\ UNCHANGED <<readerVars, errCh, poolVars, staged, failures, canceled, listVars,
                   partVars>>

Write(c) ==
    \/ StartWrite(c) \/ Stage(c) \/ SendErr(c) \/ ReleaseBuffer(c) \/ FinishWrite(c)

\* The caller gives up.
Cancel ==
    /\ pc # "returned" /\ ~canceled /\ canceled' = TRUE
    /\ UNCHANGED <<readerVars, writer, errCh, poolVars, staged, failures, listVars,
                   partVars>>

CopyNext == Read \/ Cancel \/ \E c \in Chunks : Write(c)

----------------------------------------------------------------------------
CopyTypeOK ==
    /\ pc \in Reading \cup Closing \cup {"wait", "free", "returned"}
    /\ err \in {"none", "EOF", "error"}
    /\ issued \in 0..MaxChunks /\ part \in 0..MaxChunks /\ cut \subseteq {"body", "list"}
    /\ writer \in [Chunks -> Writing \cup {"none", "done"}]
    /\ errCh \in 0..1
    /\ pool \in 0..Concurrency /\ count \in 0..Concurrency
    /\ staged \subseteq Chunks /\ failures \in 0..MaxFailures
    /\ canceled \in BOOLEAN /\ sized \in BOOLEAN
    /\ idList \in {NoList} \cup 0..MaxChunks

\* Every buffer is in the pool, with the reader or with a writer that still
\* runs, and none is with a writer once the call returns ("Need to find a
\* solution to all the buffers.Release", sendChunk).
WithWriter == {c \in Chunks : writer[c] \in Writing \ {"finishing"}}
WithReader == IF pc \in {"check", "read"} THEN 1 ELSE 0
BuffersBalance ==
    /\ count = pool + WithReader + Cardinality(WithWriter)
    /\ pc = "returned" => count = 0 /\ WritersDone
=============================================================================
