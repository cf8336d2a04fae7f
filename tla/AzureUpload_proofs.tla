------------------------- MODULE AzureUpload_proofs -------------------------
(***************************************************************************)
(* Theorems about AzureUpload for every number of chunks, buffers and      *)
(* failing writes, and every order in which the goroutines, the service    *)
(* and the caller act.                                                     *)
(***************************************************************************)
EXTENDS AzureUpload, FiniteSetTheorems, TLAPS

----------------------------------------------------------------------------
(* The inductive invariant.                                                *)

Past == Closing \cup {"free", "returned"}    \* after cp.wg.Wait

\* A chunk has a writer once it is read, and the service holds no other chunk.
ChunksHaveWriters ==
    /\ \A c \in Chunks : writer[c] = "none" <=> c > issued
    /\ \A c \in staged : c <= issued

\* The reader stops for a reason, and goes on when the writers are done.
ReaderInStep ==
    /\ pc \in Reading <=> err = "none"
    /\ pc \in Closing => err = "EOF"
    /\ pc \in Past => WritersDone
    /\ pc = "returned" => count = 0

\* The reader takes no more than the part, and all of it unless the body breaks
\* off; the list is read when the copy is over.
ReadsThePart ==
    /\ issued <= part
    /\ err = "EOF" /\ "body" \notin cut => issued = part
    /\ "list" \in cut => pc = "returned" /\ err = "EOF"

\* A writer that is past the service has its chunk stored, or had a reason not to,
\* or a short list has dropped it.
Reason(c) == c \in staged \/ canceled \/ failures > 0 \/ "list" \in cut

WritersHaveReasons == \A c \in Chunks :
    /\ writer[c] = "failing" => failures > 0
    /\ writer[c] \in {"releasing", "finishing", "done"} => Reason(c)

\* A failure is with its writer, in the channel, or known to the reader.
FailureIsKnown == failures > 0 =>
    (\E c \in Chunks : writer[c] = "failing") \/ errCh = 1 \/ err = "error"

\* What the reader has made sure of when it goes on without an error.
AllStored == pc \in Past /\ err = "EOF" =>
    failures = 0 /\ ("list" \notin cut => 1..issued \subseteq staged)

Listed == idList # NoList =>
    /\ pc \in {"sizes", "free", "returned"} /\ err # "none" /\ idList = issued
    /\ "list" \notin cut => 1..issued \subseteq staged

Balance == count = pool + WithReader + Cardinality(WithWriter)

CopyInv ==
    /\ CopyTypeOK /\ ChunksHaveWriters /\ ReaderInStep /\ ReadsThePart
    /\ WritersHaveReasons /\ FailureIsKnown /\ AllStored /\ Listed /\ Balance

\* The completion runs once the part is accepted, on the list of all its chunks
\* or what is read of it; the service holds them all, and then the object's.
CompletionSound ==
    /\ step \in {"idle", "ids", "sizes", "commit"}
    /\ {got, object} \subseteq {NoList, BadList} \cup 0..MaxChunks
    /\ step # "idle" \/ got # NoList \/ object # NoList => PartAccepted
    /\ PartAccepted /\ object = NoList => 1..issued \subseteq staged
    /\ step = "commit" \/ step = "sizes" => got # NoList
    /\ got \in Nat => got <= issued /\ ("list" \notin cut => got = issued)
    /\ object # NoList => /\ object \in 0..issued /\ staged = 1..object
                          /\ "list" \notin cut => object = issued

IInv == CopyInv /\ CompletionSound

----------------------------------------------------------------------------
(* The buffers that writers hold.                                          *)

\* A writer holds its buffer up to its release.
Holding == Writing \ {"finishing"}

\* The number of buffers with writers is a number, and positive if a writer has one.
LEMMA BuffersCounted ==
    ASSUME CopyTypeOK
    PROVE  /\ IsFiniteSet(WithWriter) /\ Cardinality(WithWriter) \in Nat
           /\ \A c \in WithWriter : Cardinality(WithWriter) > 0
<1>1. IsFiniteSet(Chunks)
    BY FS_Interval, BlockCopyAssumption DEF Chunks
<1>2. IsFiniteSet(WithWriter) /\ Cardinality(WithWriter) \in Nat
    BY <1>1, FS_Subset, FS_CardinalityType DEF WithWriter
<1> QED
    BY <1>2, FS_EmptySet

\* A writer's step that neither takes a buffer nor gives one back.
LEMMA BufferKept ==
    ASSUME CopyTypeOK, NEW c \in Chunks, NEW to, writer' = [writer EXCEPT ![c] = to],
           writer[c] \in Holding <=> to \in Holding
    PROVE  WithWriter' = WithWriter
BY DEF CopyTypeOK, WithWriter, Holding

\* A chunk's writer starts with the buffer the chunk was read to.
LEMMA BufferTaken ==
    ASSUME CopyTypeOK, NEW c \in Chunks, NEW to, writer' = [writer EXCEPT ![c] = to],
           writer[c] \notin Holding, to \in Holding
    PROVE  Cardinality(WithWriter)' = Cardinality(WithWriter) + 1
<1>1. WithWriter' = WithWriter \cup {c} /\ c \notin WithWriter
    BY DEF CopyTypeOK, WithWriter, Holding
<1> QED
    BY <1>1, BuffersCounted, FS_AddElement

\* A writer gives its buffer back.
LEMMA BufferGiven ==
    ASSUME CopyTypeOK, NEW c \in Chunks, NEW to, writer' = [writer EXCEPT ![c] = to],
           writer[c] \in Holding, to \notin Holding
    PROVE  Cardinality(WithWriter)' = Cardinality(WithWriter) - 1
<1>1. WithWriter' = WithWriter \ {c} /\ c \in WithWriter
    BY DEF CopyTypeOK, WithWriter, Holding
<1> QED
    BY <1>1, BuffersCounted, FS_RemoveElement

\* Whoever holds a buffer can give it back: the pool is not full.
LEMMA PoolHasRoom ==
    ASSUME CopyTypeOK, Balance, WithReader = 1 \/ WithWriter # {}
    PROVE  pool + 1 \in 0..Concurrency
<1>1. Cardinality(WithWriter) \in Nat /\ (WithWriter # {} => Cardinality(WithWriter) > 0)
    BY BuffersCounted
<1>2. WithReader \in {0, 1}
    BY DEF WithReader
<1>3. pool \in Nat /\ count \in 0..Concurrency /\ Concurrency \in Nat
    BY BlockCopyAssumption DEF CopyTypeOK
<1> QED
    BY <1>1, <1>2, <1>3 DEF Balance

----------------------------------------------------------------------------
(* The reading goroutine's steps.                                          *)

\* copyFromReader begins with an empty pool and no writer.
LEMMA CopyInitially == CopyInit => CopyInv
<1> SUFFICES ASSUME CopyInit PROVE CopyInv
    OBVIOUS
<1>1. CopyTypeOK
  <2>1. 0 \in 0..MaxChunks /\ 0 \in 0..Concurrency /\ 0 \in 0..MaxFailures
    BY BlockCopyAssumption
  <2>2. writer \in [Chunks -> Writing \cup {"none", "done"}]
    BY DEF CopyInit
  <2>3. canceled \in BOOLEAN /\ sized \in BOOLEAN
    BY Zenon DEF CopyInit
  <2> QED
    BY <2>1, <2>2, <2>3 DEF CopyInit, CopyTypeOK, Reading
<1>2. WithWriter = {}
    BY DEF CopyInit, WithWriter, Writing
<1>3. Balance
    BY <1>2, FS_EmptySet DEF CopyInit, Balance, WithReader
<1>4. ChunksHaveWriters /\ WritersHaveReasons
    BY BlockCopyAssumption DEF CopyInit, ChunksHaveWriters, WritersHaveReasons, Chunks
<1>5. ReaderInStep /\ ReadsThePart /\ FailureIsKnown /\ AllStored /\ Listed
    BY BlockCopyAssumption DEF CopyInit, ReaderInStep, ReadsThePart, FailureIsKnown, Reason,
        AllStored, Listed, Reading, Closing, Past
<1> QED
    BY <1>1, <1>3, <1>4, <1>5 DEF CopyInv

\* A buffer moves from the pool, or from nowhere, to the reader.
LEMMA AcquireStep == ASSUME CopyInv, Acquire PROVE CopyInv'
<1>1. WithWriter' = WithWriter
    BY DEF Acquire, WithWriter
<1>2. CopyTypeOK'
    BY BlockCopyAssumption DEF CopyInv, CopyTypeOK, Acquire, Reading, listVars, partVars
<1>3. Balance'
    BY <1>1, BuffersCounted DEF CopyInv, CopyTypeOK, Balance, Acquire, WithReader
<1> QED
    BY <1>2, <1>3 DEF CopyInv, Acquire, listVars, partVars, ChunksHaveWriters, ReaderInStep,
        WritersHaveReasons, Reason, FailureIsKnown, ReadsThePart, AllStored, Listed, Reading,
        Closing, Past, WritersDone

\* The reader meets a writer's error, or goes on to read.
LEMMA CheckStep == ASSUME CopyInv, Check PROVE CopyInv'
<1>1. WithWriter' = WithWriter
    BY DEF Check, WithWriter
<1>2. Balance'
    BY <1>1, BuffersCounted
    DEF CopyInv, CopyTypeOK, Balance, Check, StopReading, WithReader
<1>3. pool + 1 \in 0..Concurrency
    BY PoolHasRoom DEF CopyInv, Check, WithReader
<1>4. CopyTypeOK'
    BY <1>3 DEF CopyInv, CopyTypeOK, Check, TakeErr, StopReading, Reading, listVars, partVars
<1> QED
    BY <1>2, <1>4 DEF CopyInv, CopyTypeOK, Check, HasErr, TakeErr, StopReading, listVars,
        partVars, ChunksHaveWriters, ReaderInStep, WritersHaveReasons, Reason, FailureIsKnown,
        ReadsThePart, AllStored, Listed, Reading, Closing, Past, WritersDone

\* The reader hands its buffer to a new writer.
LEMMA ReadChunkStep == ASSUME CopyInv, ReadChunk PROVE CopyInv'
<1> DEFINE c == issued + 1
<1>1. c \in Chunks /\ writer[c] = "none" /\ writer' = [writer EXCEPT ![c] = "started"]
    BY BlockCopyAssumption DEF CopyInv, CopyTypeOK, ChunksHaveWriters, ReadChunk, Chunks
<1>2. Cardinality(WithWriter)' = Cardinality(WithWriter) + 1
    BY <1>1, BufferTaken DEF CopyInv, Holding, Writing
<1>3. Balance'
    BY <1>2, BuffersCounted
    DEF CopyInv, CopyTypeOK, Balance, ReadChunk, WithReader, poolVars
<1>3a. cut' \subseteq {"body", "list"}
    BY DEF CopyInv, CopyTypeOK, ReadChunk, BreakOff
<1>4. CopyTypeOK'
    BY <1>1, <1>3a, BlockCopyAssumption
    DEF CopyInv, CopyTypeOK, ReadChunk, Reading, Writing, poolVars, listVars
<1>5. ChunksHaveWriters'
    BY <1>1, BlockCopyAssumption
    DEF CopyInv, CopyTypeOK, ChunksHaveWriters, ReadChunk, Chunks, poolVars, listVars, partVars
<1>6. WritersHaveReasons'
    BY <1>1 DEF CopyInv, CopyTypeOK, WritersHaveReasons, Reason, ReadChunk, BreakOff
<1>7. FailureIsKnown'
    BY <1>1 DEF CopyInv, CopyTypeOK, FailureIsKnown, ReaderInStep, ReadChunk, Reading
<1>8. ReadsThePart'
    BY DEF CopyInv, CopyTypeOK, ReadsThePart, ReaderInStep, ReadChunk, BreakOff, Reading
<1>9. ReaderInStep' /\ AllStored' /\ Listed'
    BY DEF CopyInv, ReaderInStep, ReadsThePart, Reason, AllStored, Listed, ReadChunk, Reading,
        Closing, Past, listVars, partVars
<1> QED
    BY <1>3, <1>4, <1>5, <1>6, <1>7, <1>8, <1>9 DEF CopyInv

\* The part ends without a chunk, or the read fails.
LEMMA ReadEndStep == ASSUME CopyInv, ReadEnd PROVE CopyInv'
<1>1. WithWriter' = WithWriter
    BY DEF ReadEnd, WithWriter
<1>2. Balance'
    BY <1>1, BuffersCounted
    DEF CopyInv, CopyTypeOK, Balance, ReadEnd, StopReading, WithReader
<1>3. pool + 1 \in 0..Concurrency
    BY PoolHasRoom DEF CopyInv, ReadEnd, WithReader
<1>4. CopyTypeOK'
  <2>1. cut' \subseteq {"body", "list"}
    BY DEF CopyInv, CopyTypeOK, ReadEnd, BreakOff
  <2> QED
    BY <1>3, <2>1 DEF CopyInv, CopyTypeOK, ReadEnd, TakeErr, StopReading, Reading, listVars,
        partVars
<1> QED
    BY <1>2, <1>4 DEF CopyInv, CopyTypeOK, ReadEnd, BreakOff, TakeErr, StopReading, listVars,
        partVars, ChunksHaveWriters, ReaderInStep, WritersHaveReasons, Reason, FailureIsKnown,
        ReadsThePart, AllStored, Listed, Reading, Closing, Past, WritersDone

\* The heart of it: at the end of the part, with all writers done, no error in
\* the channel and a live context, every chunk is stored.
LEMMA WaitStep == ASSUME CopyInv, Wait PROVE CopyInv'
<1>1. WithWriter' = WithWriter
    BY DEF Wait, WithWriter
<1>2. Balance'
    BY <1>1 DEF CopyInv, Balance, Wait, WithReader, poolVars
<1>3. CopyTypeOK'
    BY DEF CopyInv, CopyTypeOK, Wait, TakeErr, Closing, poolVars, listVars, partVars
<1>4. ASSUME pc' = "ids" PROVE failures = 0 /\ 1..issued \subseteq staged
  <2>1. err = "EOF" /\ errCh = 0 /\ ~canceled
    BY <1>4 DEF CopyInv, CopyTypeOK, Wait, HasErr
  <2>2. \A c \in Chunks : writer[c] \in {"none", "done"}
    BY DEF CopyInv, CopyTypeOK, Wait, WritersDone
  <2>3. failures = 0
    BY <2>1, <2>2 DEF CopyInv, CopyTypeOK, FailureIsKnown
  <2>4. ASSUME NEW c \in 1..issued PROVE c \in staged
    <3>1. c \in Chunks /\ writer[c] # "none"
      BY BlockCopyAssumption DEF CopyInv, CopyTypeOK, ChunksHaveWriters, Chunks
    <3> QED
      BY <2>1, <2>2, <2>3, <3>1 DEF CopyInv, WritersHaveReasons, Reason, ReadsThePart, Wait
  <2> QED
    BY <2>3, <2>4
<1>5. ReaderInStep'
    BY DEF CopyInv, ReaderInStep, Wait, Reading, Closing, Past, WritersDone
<1>6. FailureIsKnown'
    BY <1>4 DEF CopyInv, CopyTypeOK, FailureIsKnown, Wait, TakeErr, HasErr, poolVars, listVars,
        partVars
<1>7. AllStored'
    BY <1>4 DEF CopyInv, ReaderInStep, AllStored, Wait, Past, Closing
<1> QED
    BY <1>2, <1>3, <1>5, <1>6, <1>7 DEF CopyInv, Wait, listVars, partVars, ChunksHaveWriters,
        WritersHaveReasons, Reason, ReadsThePart, Listed

\* The list of the chunks is staged once all of them are.
LEMMA StageIdsStep == ASSUME CopyInv, StageIds PROVE CopyInv'
<1>1. WithWriter' = WithWriter
    BY DEF StageIds, WithWriter
<1> QED
    BY <1>1, BlockCopyAssumption DEF CopyInv, CopyTypeOK, StageIds, poolVars, listVars,
        partVars, ChunksHaveWriters, ReaderInStep, WritersHaveReasons, Reason, FailureIsKnown,
        ReadsThePart, AllStored, Listed, Balance, WithReader, Reading, Closing, Past,
        WritersDone

\* The size of the part is staged.
LEMMA StageSizesStep == ASSUME CopyInv, StageSizes PROVE CopyInv'
<1>1. WithWriter' = WithWriter
    BY DEF StageSizes, WithWriter
<1> QED
    BY <1>1 DEF CopyInv, CopyTypeOK, StageSizes, poolVars, partVars, ChunksHaveWriters,
        ReaderInStep, WritersHaveReasons, Reason, FailureIsKnown, ReadsThePart, AllStored,
        Listed, Balance, WithReader, Reading, Closing, Past, WritersDone

\* A buffer is taken back; after the last one the call returns.
LEMMA FreeStep == ASSUME CopyInv, Free PROVE CopyInv'
<1>1. WithWriter' = WithWriter
    BY DEF Free, WithWriter
<1>2. Balance' /\ CopyTypeOK'
    BY <1>1, BuffersCounted, BlockCopyAssumption
    DEF CopyInv, CopyTypeOK, Free, Balance, WithReader, poolVars, listVars, partVars
<1> QED
    BY <1>2 DEF CopyInv, CopyTypeOK, Free, poolVars, listVars, partVars, ChunksHaveWriters,
        ReaderInStep, WritersHaveReasons, Reason, FailureIsKnown, ReadsThePart, AllStored,
        Listed, Reading, Closing, Past, WritersDone

----------------------------------------------------------------------------
(* The writers' steps, and the caller's.                                   *)

\* While a writer still runs, the reader has not gone on.
LEMMA WriterRuns ==
    ASSUME CopyInv, NEW c \in Chunks, writer[c] \in Writing
    PROVE  pc \notin Past /\ idList = NoList
BY DEF CopyInv, ReaderInStep, WritersDone, Listed, Past, Closing

\* What no step of a writer does otherwise.
OnlyWrites(c) ==
    /\ UNCHANGED <<readerVars, count, canceled, listVars, partVars>>
    /\ errCh' \in 0..1 /\ pool' \in 0..Concurrency
    /\ failures' \in 0..MaxFailures /\ failures' >= failures
    /\ staged' \in {staged, staged \cup {c}}

\* What a writer's step leaves to show: its own part of the invariant.
LEMMA WriterStep ==
    ASSUME CopyInv, NEW c \in Chunks, NEW to \in Writing \cup {"done"},
           writer[c] \in Writing, writer' = [writer EXCEPT ![c] = to],
           OnlyWrites(c),
           to = "failing" => failures' > 0,
           to \in {"releasing", "finishing", "done"} => Reason(c)',
           FailureIsKnown', Balance'
    PROVE  CopyInv'
<1>1. pc \notin Past /\ idList = NoList
    BY WriterRuns
<1>2. c <= issued
    BY DEF CopyInv, CopyTypeOK, ChunksHaveWriters, Chunks, Writing
<1>3. CopyTypeOK'
    BY DEF CopyInv, CopyTypeOK, OnlyWrites, readerVars, listVars, partVars
<1>4. ChunksHaveWriters'
    BY <1>2 DEF CopyInv, CopyTypeOK, ChunksHaveWriters, OnlyWrites, readerVars, Writing
<1>5. ReaderInStep' /\ ReadsThePart' /\ AllStored' /\ Listed'
    BY <1>1 DEF CopyInv, ReaderInStep, ReadsThePart, partVars, AllStored, Listed, OnlyWrites,
        readerVars, listVars, Past, Closing
<1>6. WritersHaveReasons'
  <2> SUFFICES ASSUME NEW d \in Chunks
               PROVE  /\ writer'[d] = "failing" => failures' > 0
                      /\ writer'[d] \in {"releasing", "finishing", "done"} => Reason(d)'
    BY DEF WritersHaveReasons
  <2>1. canceled' = canceled /\ failures \in Nat /\ failures' \in Nat
    BY BlockCopyAssumption DEF CopyInv, CopyTypeOK, OnlyWrites
  <2>2. CASE d = c
    BY <2>1, <2>2 DEF CopyInv, CopyTypeOK
  <2>3. CASE d # c
    BY <2>1, <2>3 DEF CopyInv, CopyTypeOK, WritersHaveReasons, Reason, OnlyWrites, partVars
  <2> QED
    BY <2>2, <2>3
<1> QED
    BY <1>3, <1>4, <1>5, <1>6 DEF CopyInv

\* A writer starts, or sees that its context is cancelled.
LEMMA StartWriteStep == ASSUME CopyInv, NEW c \in Chunks, StartWrite(c) PROVE CopyInv'
<1> DEFINE to == IF canceled THEN "releasing" ELSE "staging"
<1>1. writer[c] = "started" /\ writer' = [writer EXCEPT ![c] = to]
    BY DEF StartWrite, Moves
<1>2. WithWriter' = WithWriter
    BY <1>1, BufferKept DEF CopyInv, Holding, Writing
<1>3. Balance'
    BY <1>2 DEF CopyInv, Balance, StartWrite, WithReader, readerVars, poolVars
<1>4. FailureIsKnown'
    BY <1>1 DEF CopyInv, CopyTypeOK, FailureIsKnown, StartWrite, readerVars
<1>5. OnlyWrites(c)
    BY DEF CopyInv, CopyTypeOK, StartWrite, OnlyWrites, readerVars, poolVars, listVars,
        partVars
<1>6. to = "releasing" => Reason(c)'
    BY DEF Reason, StartWrite
<1>7. to \in {"releasing", "staging"} /\ writer[c] \in Writing /\ to \in Writing
    BY <1>1 DEF Writing
<1> HIDE DEF to
<1> QED
    BY <1>1, <1>3, <1>4, <1>5, <1>6, <1>7, WriterStep

\* A chunk reaches the service, or its write fails: now a writer has an error to send.
LEMMA StageStep == ASSUME CopyInv, NEW c \in Chunks, Stage(c) PROVE CopyInv'
<1>1. PICK to \in {"releasing", "failing"} :
          writer[c] = "staging" /\ writer' = [writer EXCEPT ![c] = to]
    BY DEF Stage, Moves
<1>2. WithWriter' = WithWriter
    BY <1>1, BufferKept DEF CopyInv, Holding, Writing
<1>3. Balance'
    BY <1>2 DEF CopyInv, Balance, Stage, WithReader, readerVars, poolVars
<1>4. CASE Moves(c, "staging", "releasing") /\ staged' = staged \cup {c} /\ UNCHANGED failures
  <2>1. FailureIsKnown'
    BY <1>4 DEF CopyInv, CopyTypeOK, FailureIsKnown, Stage, Moves, readerVars
  <2>2. OnlyWrites(c)
    BY <1>4 DEF CopyInv, CopyTypeOK, Stage, OnlyWrites, readerVars, poolVars, listVars,
        partVars
  <2>3. writer[c] \in Writing /\ "releasing" \in Writing /\ Reason(c)'
        /\ writer' = [writer EXCEPT ![c] = "releasing"]
    BY <1>4 DEF Writing, Moves, Reason
  <2> QED
    BY <1>3, <2>1, <2>2, <2>3, WriterStep
<1>5. CASE Moves(c, "staging", "failing") /\ failures < MaxFailures
           /\ failures' = failures + 1 /\ UNCHANGED staged
  <2>1. FailureIsKnown'
    BY <1>5 DEF CopyInv, CopyTypeOK, FailureIsKnown, Moves
  <2>2. OnlyWrites(c) /\ failures' > 0
    BY <1>5, BlockCopyAssumption
    DEF CopyInv, CopyTypeOK, Stage, OnlyWrites, readerVars, poolVars, listVars, partVars
  <2>3. writer[c] \in Writing /\ "failing" \in Writing
        /\ writer' = [writer EXCEPT ![c] = "failing"]
    BY <1>5 DEF Writing, Moves
  <2> QED
    BY <1>3, <2>1, <2>2, <2>3, WriterStep
<1> QED
    BY <1>4, <1>5 DEF Stage

\* The error moves from the writer to the channel.
LEMMA SendErrStep == ASSUME CopyInv, NEW c \in Chunks, SendErr(c) PROVE CopyInv'
<1>1. writer[c] = "failing" /\ writer' = [writer EXCEPT ![c] = "releasing"]
    BY DEF SendErr, Moves
<1>2. WithWriter' = WithWriter
    BY <1>1, BufferKept DEF CopyInv, Holding, Writing
<1>3. Balance'
    BY <1>2 DEF CopyInv, Balance, SendErr, WithReader, readerVars, poolVars
<1>4. failures > 0 /\ FailureIsKnown'
    BY <1>1 DEF CopyInv, WritersHaveReasons, FailureIsKnown, SendErr
<1>5. OnlyWrites(c) /\ Reason(c)'
    BY <1>4, BlockCopyAssumption
    DEF CopyInv, CopyTypeOK, Reason, SendErr, OnlyWrites, readerVars, poolVars, listVars,
        partVars
<1>6. writer[c] \in Writing /\ "releasing" \in Writing
    BY <1>1 DEF Writing
<1> QED
    BY <1>1, <1>3, <1>4, <1>5, <1>6, WriterStep

\* The buffer moves from the writer to the pool.
LEMMA ReleaseBufferStep == ASSUME CopyInv, NEW c \in Chunks, ReleaseBuffer(c) PROVE CopyInv'
<1>1. writer[c] = "releasing" /\ writer' = [writer EXCEPT ![c] = "finishing"]
    BY DEF ReleaseBuffer, Moves
<1>2. Cardinality(WithWriter)' = Cardinality(WithWriter) - 1
    BY <1>1, BufferGiven DEF CopyInv, Holding, Writing
<1>3. Balance'
    BY <1>2, BuffersCounted
    DEF CopyInv, CopyTypeOK, Balance, ReleaseBuffer, WithReader, readerVars
<1>4. pool + 1 \in 0..Concurrency
    BY <1>1, PoolHasRoom DEF CopyInv, WithWriter, Writing
<1>5. FailureIsKnown'
    BY <1>1 DEF CopyInv, CopyTypeOK, FailureIsKnown, ReleaseBuffer, readerVars
<1>6. Reason(c)
    BY <1>1 DEF CopyInv, WritersHaveReasons
<1>7. OnlyWrites(c)
    BY <1>4 DEF CopyInv, CopyTypeOK, ReleaseBuffer, OnlyWrites, readerVars, listVars, partVars
<1>8. writer[c] \in Writing /\ "finishing" \in Writing
      /\ Reason(c)'
    BY <1>1, <1>6 DEF Writing, ReleaseBuffer, Reason, partVars
<1> QED
    BY <1>1, <1>3, <1>5, <1>7, <1>8, WriterStep

\* A writer that is done has its chunk stored, or had a reason not to.
LEMMA FinishWriteStep == ASSUME CopyInv, NEW c \in Chunks, FinishWrite(c) PROVE CopyInv'
<1>1. writer[c] = "finishing" /\ writer' = [writer EXCEPT ![c] = "done"]
    BY DEF FinishWrite, Moves
<1>2. WithWriter' = WithWriter
    BY <1>1, BufferKept DEF CopyInv, Holding, Writing
<1>3. Balance'
    BY <1>2 DEF CopyInv, Balance, FinishWrite, WithReader, readerVars, poolVars
<1>4. FailureIsKnown'
    BY <1>1 DEF CopyInv, CopyTypeOK, FailureIsKnown, FinishWrite, readerVars
<1>5. Reason(c)
    BY <1>1 DEF CopyInv, WritersHaveReasons
<1>6. OnlyWrites(c)
    BY DEF CopyInv, CopyTypeOK, FinishWrite, OnlyWrites, readerVars, poolVars, listVars,
        partVars
<1>7. writer[c] \in Writing /\ Reason(c)'
    BY <1>1, <1>5 DEF Writing, FinishWrite, Reason, partVars
<1> QED
    BY <1>1, <1>3, <1>4, <1>6, <1>7, WriterStep

\* Giving up is a reason for every writer that has not stored its chunk.
LEMMA CancelStep == ASSUME CopyInv, Cancel PROVE CopyInv'
<1>1. WithWriter' = WithWriter
    BY DEF Cancel, WithWriter
<1> QED
    BY <1>1 DEF CopyInv, CopyTypeOK, Cancel, readerVars, poolVars, listVars, partVars,
        ChunksHaveWriters, ReaderInStep, WritersHaveReasons, Reason, FailureIsKnown,
        ReadsThePart, AllStored, Listed, Balance, WithReader, WritersDone

\* The copy's part of the invariant speaks of the copy's variables only.
LEMMA CopyStays == ASSUME CopyInv, UNCHANGED copyVars PROVE CopyInv'
<1>1. WithWriter' = WithWriter
    BY DEF copyVars, WithWriter
<1> QED
    BY <1>1 DEF CopyInv, CopyTypeOK, copyVars, ChunksHaveWriters, ReaderInStep,
        WritersHaveReasons, Reason, FailureIsKnown, ReadsThePart, AllStored, Listed, Balance,
        WithReader, WritersDone

----------------------------------------------------------------------------
(* The copy and the completion together.                                   *)

\* Every step of the copy keeps its part of the invariant.
LEMMA CopyNextStep == ASSUME CopyInv, CopyNext PROVE CopyInv'
<1>1. CASE Read
    BY <1>1, AcquireStep, CheckStep, ReadChunkStep, ReadEndStep, WaitStep, StageIdsStep,
        StageSizesStep, FreeStep DEF Read
<1>2. CASE Cancel
    BY <1>2, CancelStep
<1>3. ASSUME NEW c \in Chunks, Write(c) PROVE CopyInv'
    BY <1>3, StartWriteStep, StageStep, SendErrStep, ReleaseBufferStep, FinishWriteStep
    DEF Write
<1> QED
    BY <1>1, <1>2, <1>3 DEF CopyNext

\* Nothing of an accepted part changes any more but that a list may be removed.
LEMMA AcceptedStays ==
    ASSUME CopyInv, PartAccepted, CopyNext
    PROVE  PartAccepted' /\ UNCHANGED <<issued, staged, cut>>
<1>1. ~Read
    BY DEF PartAccepted, Read, Acquire, Check, ReadChunk, ReadEnd, Wait, StageIds, StageSizes,
        Free, CopyInv, CopyTypeOK, ReaderInStep
<1>2. \A c \in Chunks : ~Write(c)
    BY DEF PartAccepted, CopyInv, ReaderInStep, Past, Closing, WritersDone, Writing, Write,
        StartWrite, Stage, SendErr, ReleaseBuffer, FinishWrite, Moves
<1> QED
    BY <1>1, <1>2 DEF CopyNext, Cancel, PartAccepted, readerVars, partVars

\* The upload begins within the invariant.
LEMMA Initially == UploadInit => IInv
BY CopyInitially, BlockCopyAssumption
DEF UploadInit, CopyInit, IInv, CompletionSound, PartAccepted, NoList, BadList

\* Every step of the upload keeps the invariant.
LEMMA UploadStep == ASSUME IInv, UploadNext PROVE IInv'
<1>1. CASE CopyNext /\ UNCHANGED completeVars
  <2>1. CopyInv'
    BY <1>1, CopyNextStep DEF IInv
  <2>2. CASE PartAccepted
    <3>1. PartAccepted' /\ UNCHANGED <<issued, staged, cut>>
      BY <1>1, <2>2, AcceptedStays DEF IInv
    <3> QED
      BY <1>1, <2>1, <2>2, <3>1 DEF IInv, CompletionSound, completeVars
  <2>3. CASE ~PartAccepted
    <3>1. step = "idle" /\ got = NoList /\ object = NoList /\ UNCHANGED completeVars
      BY <1>1, <2>3 DEF IInv, CompletionSound
    <3>2. "list" \notin cut'
      BY <1>1, <2>3 DEF IInv, CopyInv, ReadsThePart, PartAccepted, CopyNext, Read, Acquire,
        Check, ReadChunk, ReadEnd, BreakOff, Wait, StageIds, StageSizes, Free, Cancel, Write,
        StartWrite, Stage, SendErr, ReleaseBuffer, FinishWrite, partVars
    <3>3. PartAccepted' => 1..issued' \subseteq staged'
      BY <2>1, <3>2 DEF CopyInv, AllStored, PartAccepted, Past
    <3> QED
      BY <2>1, <3>1, <3>3 DEF IInv, CompletionSound, completeVars, NoList
  <2> QED
    BY <2>2, <2>3
<1>2. CASE Complete
    BY <1>2, CopyStays DEF Complete, IInv, CompletionSound, PartAccepted, copyVars
<1>3. CASE Refused
    BY <1>3, CopyStays DEF Refused, IInv, CompletionSound, PartAccepted, copyVars
<1>4. CASE ReadIds
  <2>1. WithWriter' = WithWriter
    BY <1>4 DEF ReadIds, WithWriter
  <2>2. /\ PartAccepted /\ PartAccepted' /\ idList = issued /\ issued \in 0..MaxChunks
        /\ UNCHANGED <<readerVars, staged, object>>
    BY <1>4 DEF ReadIds, IInv, CopyInv, CopyTypeOK, Listed, CompletionSound, PartAccepted,
        readerVars
  <2>3. CopyTypeOK'
    <3>1. cut' \subseteq {"body", "list"}
      BY <1>4 DEF ReadIds, IInv, CopyInv, CopyTypeOK
    <3> QED
      BY <1>4, <3>1 DEF ReadIds, IInv, CopyInv, CopyTypeOK, readerVars, poolVars
  <2>4. ReadsThePart' /\ WritersHaveReasons' /\ AllStored' /\ Listed'
    BY <1>4, <2>2 DEF ReadIds, IInv, CopyInv, WritersHaveReasons, Reason, ReadsThePart,
        AllStored, Listed, readerVars, PartAccepted
  <2>5. CopyInv'
    BY <1>4, <2>1, <2>3, <2>4 DEF ReadIds, IInv, CopyInv, readerVars, poolVars,
        ChunksHaveWriters, ReaderInStep, FailureIsKnown, Balance, WithReader, WritersDone
  <2>6. CASE got' = WholeList /\ UNCHANGED cut
    <3>1. got' \in {BadList} \cup 0..MaxChunks /\ (got' \in Nat => got' = issued)
      BY <2>2, <2>6 DEF WholeList, BadList
    <3> QED
      BY <1>4, <2>2, <2>5, <2>6, <3>1, BlockCopyAssumption
      DEF ReadIds, IInv, CompletionSound, readerVars, BadList, NoList
  <2>7. CASE got' \in {BadList} \cup 0..idList /\ cut' = cut \cup {"list"}
    BY <1>4, <2>2, <2>5, <2>7, BlockCopyAssumption
    DEF ReadIds, IInv, CompletionSound, readerVars, BadList, NoList
  <2> QED
    BY <1>4, <2>6, <2>7 DEF ReadIds
<1>5. CASE ReadSizes
  <2>1. WithWriter' = WithWriter
    BY <1>5 DEF ReadSizes, WithWriter
  <2>2. CopyInv'
    BY <1>5, <2>1 DEF ReadSizes, IInv, CopyInv, CopyTypeOK, readerVars, poolVars, partVars,
        ChunksHaveWriters, ReaderInStep, WritersHaveReasons, Reason, FailureIsKnown,
        ReadsThePart, AllStored, Listed,
        Balance, WithReader, WritersDone
  <2> QED
    BY <1>5, <2>2 DEF ReadSizes, IInv, CompletionSound, PartAccepted, readerVars, partVars
<1>6. CASE CommitObject
  <2>1. /\ PartAccepted /\ PartAccepted' /\ issued \in 0..MaxChunks /\ got \in 0..issued
        /\ "list" \notin cut => got = issued /\ 1..issued \subseteq staged'
        /\ UNCHANGED <<readerVars, partVars, got>> /\ object' = got /\ staged' = 1..got
    BY <1>6, BlockCopyAssumption
    DEF CommitObject, IInv, CopyInv, CopyTypeOK, CompletionSound, PartAccepted, NoList,
        BadList, readerVars
  <2>2. WithWriter' = WithWriter
    BY <1>6 DEF CommitObject, WithWriter
  <2>3. CopyTypeOK'
    BY <1>6, <2>1, BlockCopyAssumption
    DEF CommitObject, IInv, CopyInv, CopyTypeOK, Chunks, readerVars, poolVars, listVars,
        partVars
  <2>4. ChunksHaveWriters' /\ AllStored' /\ ReadsThePart' /\ Listed'
    BY <1>6, <2>1 DEF CommitObject, IInv, CopyInv, ChunksHaveWriters, AllStored, ReadsThePart,
        Listed, readerVars, partVars, listVars
  <2>5. WritersHaveReasons'
    <3> SUFFICES ASSUME NEW c \in Chunks
                 PROVE  /\ writer'[c] = "failing" => failures' > 0
                        /\ writer'[c] \in {"releasing", "finishing", "done"} => Reason(c)'
      BY DEF WritersHaveReasons
    <3>1. c \in staged => c <= issued /\ c >= 1
      BY BlockCopyAssumption DEF IInv, CopyInv, ChunksHaveWriters, Chunks
    <3> QED
      BY <1>6, <2>1, <3>1, BlockCopyAssumption
      DEF CommitObject, IInv, CopyInv, WritersHaveReasons, Reason, partVars, Chunks
  <2>6. CopyInv'
    BY <1>6, <2>2, <2>3, <2>4, <2>5 DEF CommitObject, IInv, CopyInv, readerVars, poolVars,
        listVars, partVars, ReaderInStep, FailureIsKnown, Balance, WithReader,
        WritersDone
  <2> QED
    BY <1>6, <2>1, <2>6, BlockCopyAssumption
    DEF CommitObject, IInv, CompletionSound, NoList, BadList, readerVars, partVars
<1> QED
    BY <1>1, <1>2, <1>3, <1>4, <1>5, <1>6 DEF UploadNext

\* Other steps of the system keep it too.
LEMMA StutterStep == ASSUME IInv, UNCHANGED uploadVars PROVE IInv'
BY CopyStays DEF IInv, CompletionSound, PartAccepted, uploadVars, completeVars, copyVars

\* The invariant holds throughout an upload, copy and completion, whatever fails.
THEOREM InvariantHolds == UploadSpec => []IInv
<1>1. IInv /\ [UploadNext]_uploadVars => IInv'
    BY UploadStep, StutterStep
<1> QED
    BY Initially, <1>1, PTL DEF UploadSpec

----------------------------------------------------------------------------
(* What users of the copy rely on.                                         *)

\* Type correctness; in particular the pool and the channel never overflow.
THEOREM UploadTypeCorrect == UploadSpec => []UploadTypeOK
<1>1. IInv => UploadTypeOK
    BY DEF IInv, CopyInv, CompletionSound, UploadTypeOK
<1> QED
    BY <1>1, InvariantHolds, PTL

\* A staged list names just the chunks read of the part, all of them stored until a
\* completion makes the object.
THEOREM ListsAreStaged == UploadSpec => []ListedIsStaged
<1>1. IInv => ListedIsStaged
  <2> SUFFICES ASSUME IInv, idList # NoList
               PROVE  err # "none" /\ idList = issued
                      /\ (object = NoList => 1..issued \subseteq staged)
    BY DEF ListedIsStaged
  <2>1. err # "none" /\ idList = issued /\ pc \in Past
    BY DEF IInv, CopyInv, Listed, Past, Closing
  <2>2. CASE PartAccepted
    BY <2>1, <2>2 DEF IInv, CompletionSound
  <2>3. CASE ~PartAccepted
    BY <2>1, <2>3 DEF IInv, CopyInv, AllStored, ReadsThePart, Listed, ReaderInStep,
        PartAccepted
  <2> QED
    BY <2>1, <2>2, <2>3
<1> QED
    BY <1>1, InvariantHolds, PTL

\* Every buffer is accounted for, and none is out when the copy returns.
THEOREM BuffersAlwaysBalance == UploadSpec => []BuffersBalance
<1>1. IInv => BuffersBalance
    BY DEF IInv, CopyInv, Balance, ReaderInStep, Past, BuffersBalance
<1> QED
    BY <1>1, InvariantHolds, PTL

\* A part that is accepted was stored without a failure.
THEOREM NoErrorIsLost == UploadSpec => []AcceptedIsStored
<1>1. IInv => AcceptedIsStored
  <2> SUFFICES ASSUME IInv, PartAccepted
               PROVE  /\ failures = 0
                      /\ staged = 1..(IF object = NoList THEN issued ELSE object)
    BY DEF AcceptedIsStored
  <2>1. failures = 0
    BY DEF IInv, CopyInv, AllStored, PartAccepted, Past
  <2>2. staged \subseteq 1..issued
    BY BlockCopyAssumption DEF IInv, CopyInv, CopyTypeOK, ChunksHaveWriters, Chunks
  <2> QED
    BY <2>1, <2>2 DEF IInv, CompletionSound
<1> QED
    BY <1>1, InvariantHolds, PTL

\* The object is of the first chunks of an accepted part, whatever completions
\* were tried before, and of all the part's chunks unless its body or the download
\* of the list broke off.
THEOREM ObjectsArePrefixes == UploadSpec => []ObjectIsPart
<1>1. IInv => ObjectIsPart
  <2> SUFFICES ASSUME IInv, object # NoList
               PROVE  /\ PartAccepted /\ object \in 0..issued /\ 1..object \subseteq staged
                      /\ cut = {} => object = part
    BY DEF ObjectIsPart
  <2>1. /\ PartAccepted /\ object \in 0..issued /\ 1..object \subseteq staged
        /\ "list" \notin cut => object = issued
    BY DEF IInv, CompletionSound
  <2>2. "body" \notin cut => issued = part
    BY <2>1 DEF IInv, CopyInv, ReadsThePart, PartAccepted
  <2> QED
    BY <2>1, <2>2
<1> QED
    BY <1>1, InvariantHolds, PTL
=============================================================================
