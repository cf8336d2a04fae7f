------------------------- MODULE LocalBlobs_proofs -------------------------
(***************************************************************************)
(* Theorems about LocalBlobs: what storage holds of a repository and what  *)
(* readers get of it, for every number of contents, requests and files,    *)
(* and contents of every length.                                           *)
(*                                                                         *)
(* Two uploads of one content write the same file at the same time, and    *)
(* the later one empties it under the earlier one.  What makes the file    *)
(* whole in the end is the upload that emptied it last: all it has copied  *)
(* is there, whatever the others do.                                       *)
(***************************************************************************)
EXTENDS LocalBlobs, TLAPS

----------------------------------------------------------------------------
(* The inductive invariant.                                                *)

\* What a request knows where it is.
Holds(c) ==
    /\ c.pc # "idle" => c.v \in Contents
    /\ c.pc \in {"copy", "row", "read"} => c.inode \in Inodes
    /\ c.pc = "copy" => c.at < Size
    /\ c.pc \in {"create", "mkdir", "again"} => c.at = 0

\* What a reader has read: as far as no upload disturbed it, all so far of what
\* was asked for, in a file that is whole.
Reads(c, d) ==
    /\ c.pc = "open" => c.at = c.from /\ c.got = {} /\ c.from <= c.to
    /\ c.pc = "read" /\ c.calm =>
          /\ d[c.inode] = Blocks
          /\ c.from <= c.at /\ c.at <= c.to + 1 /\ c.got = c.from .. (c.at - 1)
    /\ c.pc = "answered" /\ c.calm => c.got = c.from .. c.to

\* An inode is the file of one content, and who has it open asked for that one.
Own(i, v)  == \A w \in Contents : file[w] # NoInode /\ i = file[w] => v = w
InodesOwned ==
    /\ \A v \in Contents : Own(file[v], v)
    /\ \A r \in Requests : Own(req[r].inode, req[r].v)

\* While the repository lives no file goes: those of its objects are there, and
\* an upload has the content's file open.
Life ==
    /\ repo = "live" <=> deleting = "idle"
    /\ repo = "deleted" => rows = {}
    /\ \A v \in rows : file[v] # NoInode
    /\ repo = "live" => \A r \in Requests : req[r].pc \in {"copy", "row"} => file[req[r].v] = req[r].inode

InDirs == \A v \in Contents : file[v] # NoInode => v \in dirs

\* The upload that emptied the file last: all it has copied is there.
Fresh(r, v) == r \in Writers(v) /\ 0 .. (req[r].at - 1) \subseteq data[file[v]]
Mended ==
    \A v \in Contents : file[v] # NoInode => v \in torn \/ Whole(v) \/ \E r \in Requests : Fresh(r, v)

IInv ==
    /\ TypeOK
    /\ \A r \in Requests : Holds(req[r]) /\ Reads(req[r], data)
    /\ InodesOwned /\ Life /\ InDirs /\ Mended
    /\ DeletedIsGone

----------------------------------------------------------------------------
(* Steps that write no file.                                               *)

\* A request that is not under way.
LEMMA IdleHolds ==
    /\ Idle \in Call /\ Holds(Idle)
    /\ Idle.pc = "idle" /\ Idle.inode = NoInode /\ Idle.at = 0 /\ Idle.got = {}
    /\ \A d : Reads(Idle, d)
BY LocalBlobsAssumption DEF Idle, Call, Holds, Reads

\* The request r goes on as q, or ends.  If it was the one to mend its file, that
\* is whole by now, or given up.
LEMMA RequestStep ==
    ASSUME IInv, NEW r \in Requests, NEW q \in Call, req' = [req EXCEPT ![r] = q],
           UNCHANGED <<repo, file, data, deleting, late>>,
           dirs \subseteq dirs', dirs' \subseteq Contents, torn \subseteq torn', torn' \subseteq Contents,
           Holds(q), Reads(q, data), Own(q.inode, q.v),
           repo = "live" /\ q.pc \in {"copy", "row"} => file[q.v] = q.inode,
           rows' \subseteq Contents, \A v \in rows' : v \in rows \/ file[v] # NoInode,
           repo = "deleted" => rows' = {},
           \A v \in Contents : Fresh(r, v) => Whole(v) \/ v \in torn'
    PROVE  IInv'
<1>1. /\ req \in [Requests -> Call] /\ req'[r] = q
      /\ \A i \in Requests : i # r => req'[i] = req[i]
    BY DEF IInv, TypeOK
<1>2. TypeOK'
    BY DEF IInv, TypeOK
<1>3. \A i \in Requests : Holds(req'[i]) /\ Reads(req'[i], data')
    BY <1>1 DEF IInv
<1>4. InodesOwned'
    BY <1>1 DEF IInv, InodesOwned, Own
<1>5. Life'
    BY <1>1 DEF IInv, Life
<1>6. InDirs' /\ DeletedIsGone'
    BY DEF IInv, InDirs, DeletedIsGone
<1>7. Mended'
  <2> SUFFICES ASSUME NEW v \in Contents, file[v] # NoInode, v \notin torn', ~Whole(v)
               PROVE  \E i \in Requests : Fresh(i, v)'
      BY DEF Mended, Whole
  <2>1. PICK i \in Requests : Fresh(i, v)
      BY DEF IInv, Mended
  <2>2. i # r
      BY <2>1
  <2>3. req'[i] = req[i]
      BY <1>1, <2>2
  <2>4. Fresh(i, v)'
      BY <2>1, <2>3 DEF Fresh, Writers
  <2> QED
      BY <2>4
<1> QED
    BY <1>2, <1>3, <1>4, <1>5, <1>6, <1>7 DEF IInv, Holds

\* A request that wrote nothing ends, or has written all it had to.
LEMMA EndStep ==
    ASSUME IInv, NEW r \in Requests, Ends(r),
           UNCHANGED <<repo, dirs, file, data, deleting, late>>,
           torn \subseteq torn', torn' \subseteq Contents,
           rows' \subseteq Contents, \A v \in rows' : v \in rows \/ file[v] # NoInode,
           repo = "deleted" => rows' = {},
           \A v \in Contents : Fresh(r, v) => Whole(v) \/ v \in torn'
    PROVE  IInv'
<1>1. Own(Idle.inode, Idle.v)
    BY IdleHolds DEF Own
<1>2. dirs \subseteq dirs' /\ dirs' \subseteq Contents
    BY DEF IInv, TypeOK
<1> QED
    BY RequestStep, IdleHolds, <1>1, <1>2 DEF Ends

\* Only a request that copies mends a file.
LEMMA NotFresh ==
    ASSUME NEW r \in Requests, req[r].pc # "copy", NEW v \in Contents
    PROVE  ~Fresh(r, v)
BY DEF Fresh, Writers

\* UploadObject begins: the body is in a temporary file.
LEMMA UploadStep ==
    ASSUME IInv, NEW r \in Requests, NEW v \in Contents, Upload(r, v)
    PROVE  IInv'
<1> DEFINE q == [Idle EXCEPT !.pc = "create", !.v = v]
<1>0. q \in Call /\ q.pc = "create" /\ q.at = 0 /\ q.v = v /\ q.inode = NoInode
    BY IdleHolds DEF Call
<1>1. Holds(q) /\ Reads(q, data) /\ Own(q.inode, q.v)
    BY <1>0 DEF Holds, Reads, Own
<1>2. \A w \in Contents : ~Fresh(r, w)
    BY NotFresh DEF Upload
<1>3. rows \subseteq Contents /\ dirs \subseteq Contents /\ torn \subseteq Contents
      /\ (repo = "deleted" => rows = {})
    BY DEF IInv, TypeOK, Life
<1>4. req' = [req EXCEPT ![r] = q]
    BY DEF Upload
<1> HIDE DEF q
<1> QED
    BY RequestStep, <1>0, <1>1, <1>2, <1>3, <1>4 DEF Upload

\* maybeMkdir: the directory is missing, is made.
LEMMA MkdirStep ==
    ASSUME IInv, NEW r \in Requests, NEW pc \in {"mkdir", "again"},
           req[r].pc \in {"create", "mkdir"}, Goes(r, pc),
           dirs \subseteq dirs', dirs' \subseteq Contents,
           UNCHANGED <<repo, rows, file, data, deleting, torn, late>>
    PROVE  IInv'
<1> DEFINE q == [req[r] EXCEPT !.pc = pc]
<1>0. req[r] \in Call /\ Holds(req[r]) /\ Own(req[r].inode, req[r].v)
    BY DEF IInv, TypeOK, InodesOwned
<1>1. q \in Call /\ Holds(q) /\ Reads(q, data) /\ Own(q.inode, q.v) /\ q.pc = pc
    BY <1>0 DEF Call, Holds, Reads, Own
<1>2. \A w \in Contents : ~Fresh(r, w)
    BY NotFresh
<1>3. rows \subseteq Contents /\ torn \subseteq Contents /\ (repo = "deleted" => rows = {})
    BY DEF IInv, TypeOK, Life
<1>4. req' = [req EXCEPT ![r] = q]
    BY <1>0 DEF Goes, IInv, TypeOK
<1> HIDE DEF q
<1> QED
    BY RequestStep, <1>1, <1>2, <1>3, <1>4
\* UploadObject ends: the rows are inserted.
LEMMA StoreRowStep ==
    ASSUME IInv, NEW r \in Requests, StoreRow(r)
    PROVE  IInv'
<1>1. \A w \in Contents : ~Fresh(r, w)
    BY NotFresh DEF StoreRow
<1>2. req[r] \in Call /\ Holds(req[r]) /\ req[r].pc = "row"
    BY DEF IInv, TypeOK, StoreRow
<1>3. req[r].v \in Contents /\ req[r].inode # NoInode
    BY <1>2, LocalBlobsAssumption DEF Holds
<1>4. repo = "live" => file[req[r].v] = req[r].inode
    BY <1>2 DEF IInv, Life
<1>5. /\ rows' \subseteq Contents
      /\ \A v \in rows' : v \in rows \/ file[v] # NoInode
      /\ repo = "deleted" => rows' = {}
    BY <1>3, <1>4 DEF StoreRow, IInv, TypeOK, Life
<1> QED
    BY EndStep, <1>1, <1>5 DEF StoreRow, IInv, TypeOK

\* A range of blocks, not empty, is one of the content's.
LEMMA RangeType ==
    ASSUME NEW ft \in Ranges, LET se == ParseRange(ft[1], ft[2]) IN se[1] <= se[2]
    PROVE  LET se == ParseRange(ft[1], ft[2])
           IN  se[1] \in 0 .. Size /\ se[2] \in 0 .. (Size - 1)
<1>1. PICK f \in {-1} \cup 0 .. Size, t \in {-1} \cup 0 .. Size : ft = <<f, t>> /\ ~(f = -1 /\ t = -1)
    BY DEF Ranges
<1>2. ft[1] = f /\ ft[2] = t
    BY <1>1
<1> QED
    BY <1>1, <1>2, LocalBlobsAssumption DEF ParseRange

\* GetObject begins: the object is in the tree, the range in the content.
LEMMA GetStep ==
    ASSUME IInv, NEW r \in Requests, NEW v \in Contents, NEW ft \in Ranges, Get(r, v, ft)
    PROVE  IInv'
<1> DEFINE from == ParseRange(ft[1], ft[2])[1]
           to   == ParseRange(ft[1], ft[2])[2]
           q    == [Idle EXCEPT !.pc = "open", !.v = v, !.from = from, !.at = from, !.to = to]
<1>1. from \in 0 .. Size /\ to \in 0 .. (Size - 1) /\ from <= to
    BY RangeType DEF Get
<1>2. req' = [req EXCEPT ![r] = q]
    BY DEF Get
<1> HIDE DEF from, to
<1>3. /\ q \in Call /\ q.pc = "open" /\ q.v = v /\ q.inode = NoInode
      /\ q.from = from /\ q.at = from /\ q.to = to /\ q.got = {}
  <2>1. from \in 0 .. Size /\ to \in -1 .. (Size - 1)
      BY <1>1, LocalBlobsAssumption
  <2>2. Idle \in Call /\ Idle.inode = NoInode /\ Idle.got = {}
      BY IdleHolds
  <2> HIDE DEF Idle
  <2> QED
      BY <2>1, <2>2 DEF Call
<1>4. Holds(q) /\ Reads(q, data) /\ Own(q.inode, q.v)
    BY <1>1, <1>3 DEF Holds, Reads, Own
<1>5. \A w \in Contents : ~Fresh(r, w)
    BY NotFresh DEF Get
<1>6. rows \subseteq Contents /\ dirs \subseteq Contents /\ torn \subseteq Contents
      /\ (repo = "deleted" => rows = {})
    BY DEF IInv, TypeOK, Life
<1> HIDE DEF q
<1> QED
    BY RequestStep, <1>2, <1>3, <1>4, <1>5, <1>6 DEF Get

\* The file is opened: with no upload at work on it, and none that left it in
\* pieces, it is whole.
LEMMA OpenReadStep ==
    ASSUME IInv, NEW r \in Requests, OpenRead(r)
    PROVE  IInv'
<1> DEFINE v == req[r].v
           q == [req[r] EXCEPT !.pc = "read", !.inode = file[v],
                               !.calm = Writers(v) = {} /\ v \notin torn]
<1>0. /\ req[r] \in Call /\ Holds(req[r]) /\ Reads(req[r], data) /\ req[r].pc = "open"
      /\ req \in [Requests -> Call]
    BY DEF IInv, TypeOK, OpenRead
<1>1. v \in Contents
    BY <1>0 DEF Holds
<1>2. \A w \in Contents : ~Fresh(r, w)
    BY <1>0, NotFresh
<1>3. rows \subseteq Contents /\ dirs \subseteq Contents /\ torn \subseteq Contents
      /\ (repo = "deleted" => rows = {})
    BY DEF IInv, TypeOK, Life
<1>4. CASE file[v] = NoInode /\ Ends(r)
    BY <1>2, <1>3, <1>4, EndStep DEF OpenRead
<1>5. CASE file[v] # NoInode /\ req' = [req EXCEPT ![r] = q]
  <2>1. file[v] \in Inodes
      BY <1>1, <1>5 DEF IInv, TypeOK
  <2>2. /\ q \in Call /\ q.pc = "read" /\ q.v = v /\ q.inode = file[v]
        /\ q.from = q.at /\ q.at <= q.to /\ q.got = {}
        /\ q.calm = (Writers(v) = {} /\ v \notin torn)
      BY <1>0, <1>1, <2>1 DEF Call, Reads
  <2> HIDE DEF q
  <2>3. q.calm => data[file[v]] = Blocks
    <3>1. \A i \in Requests : Fresh(i, v) => Writers(v) # {}
        BY DEF Fresh
    <3>2. v \in torn \/ Whole(v) \/ \E i \in Requests : Fresh(i, v)
        BY <1>1, <1>5 DEF IInv, Mended
    <3> QED
        BY <2>2, <3>1, <3>2 DEF Whole
  <2>4. Holds(q)
      BY <1>1, <2>1, <2>2 DEF Holds
  <2>5. Reads(q, data)
    <3>1. q.at \in 0 .. Size /\ q.to \in -1 .. (Size - 1) /\ q.from \in Int
        BY <2>2 DEF Call
    <3>2. q.got = q.from .. (q.at - 1) /\ q.from <= q.at /\ q.at <= q.to + 1
        BY <2>2, <3>1, LocalBlobsAssumption
    <3> QED
        BY <2>2, <2>3, <3>2 DEF Reads
  <2>6. Own(q.inode, q.v)
      BY <1>1, <2>2 DEF IInv, InodesOwned
  <2> QED
      BY RequestStep, <1>2, <1>3, <1>5, <2>2, <2>4, <2>5, <2>6 DEF OpenRead
<1>6. req' = [req EXCEPT ![r].pc = "read", ![r].inode = file[v],
                         ![r].calm = Writers(v) = {} /\ v \notin torn]
      => req' = [req EXCEPT ![r] = q]
    BY <1>0
<1> QED
    BY <1>4, <1>5, <1>6 DEF OpenRead

\* The next block is read: of a whole file, the one that was asked for.
LEMMA ReadBlockStep ==
    ASSUME IInv, NEW r \in Requests, ReadBlock(r)
    PROVE  IInv'
<1> DEFINE c == req[r]
           d == data[c.inode]
<1>0. /\ c \in Call /\ Holds(c) /\ Reads(c, data) /\ c.pc = "read" /\ Own(c.inode, c.v)
      /\ req \in [Requests -> Call]
    BY DEF IInv, TypeOK, InodesOwned, ReadBlock
<1>1. d \subseteq Blocks
    BY <1>0 DEF IInv, TypeOK, Holds
<1>2. \A w \in Contents : ~Fresh(r, w)
    BY <1>0, NotFresh
<1>3. rows \subseteq Contents /\ dirs \subseteq Contents /\ torn \subseteq Contents
      /\ (repo = "deleted" => rows = {})
    BY DEF IInv, TypeOK, Life
<1>4. CASE c.at <= c.to /\ \E b \in d : b >= c.at
  <2> DEFINE q == [c EXCEPT !.got = IF c.at \in d THEN @ \cup {c.at} ELSE @, !.at = @ + 1]
  <2>1. req' = [req EXCEPT ![r] = q]
      BY <1>0, <1>4 DEF ReadBlock
  <2>2. c.at + 1 \in 0 .. Size /\ c.at \in Int /\ c.from \in Int /\ c.to \in Int
      BY <1>0, <1>4, LocalBlobsAssumption DEF Call
  <2>3. /\ q.pc = "read" /\ q.v = c.v /\ q.inode = c.inode /\ q.from = c.from /\ q.to = c.to
        /\ q.at = c.at + 1 /\ q.calm = c.calm
        /\ q.got = IF c.at \in d THEN c.got \cup {c.at} ELSE c.got
      BY <1>0 DEF Call
  <2>4. q \in Call
      BY <1>0, <1>1, <2>2 DEF Call
  <2>5. ASSUME c.calm PROVE d = Blocks /\ c.from <= c.at /\ c.at <= c.to /\ c.got = c.from .. (c.at - 1)
      BY <1>0, <1>4, <2>5 DEF Reads
  <2>6. ASSUME c.calm PROVE c.at \in d /\ c.got \cup {c.at} = c.from .. (c.at + 1 - 1)
    <3>1. c.at \in Blocks
        BY <1>0, <1>4, <2>2, LocalBlobsAssumption DEF Call, Blocks
    <3> QED
        BY <2>2, <2>5, <2>6, <3>1
  <2> HIDE DEF q
  <2>9. ASSUME c.calm PROVE c.from <= c.at + 1 /\ c.at + 1 <= c.to + 1
      BY <2>2, <2>5, <2>9
  <2>7. Reads(q, data)
    <3>1. q.calm => /\ data[q.inode] = Blocks /\ q.got = q.from .. (q.at - 1)
                    /\ q.from <= q.at /\ q.at <= q.to + 1
        BY <2>3, <2>5, <2>6, <2>9
    <3> QED
        BY <2>3, <3>1 DEF Reads
  <2>8. Holds(q) /\ Own(q.inode, q.v)
      BY <1>0, <2>3 DEF Holds
  <2> QED
      BY RequestStep, <1>2, <1>3, <2>1, <2>3, <2>4, <2>7, <2>8 DEF ReadBlock
<1>5. CASE ~(c.at <= c.to /\ \E b \in d : b >= c.at)
  <2> DEFINE q == [c EXCEPT !.pc = "answered"]
  <2>1. req' = [req EXCEPT ![r] = q]
      BY <1>0, <1>5 DEF ReadBlock, Goes
  <2>2. /\ q \in Call /\ q.pc = "answered" /\ q.v = c.v /\ q.inode = c.inode /\ q.from = c.from
        /\ q.to = c.to /\ q.calm = c.calm /\ q.got = c.got
      BY <1>0 DEF Call
  <2>3. ASSUME c.calm PROVE c.got = c.from .. c.to
    <3>1. d = Blocks /\ c.from <= c.at /\ c.at <= c.to + 1 /\ c.got = c.from .. (c.at - 1)
        BY <1>0, <2>3 DEF Reads
    <3>2. c.at \in 0 .. Size /\ c.to \in -1 .. (Size - 1)
        BY <1>0 DEF Call
    <3>3. c.at <= c.to => c.at \in Blocks
        BY <3>2, LocalBlobsAssumption DEF Blocks
    <3>4. ~(c.at <= c.to)
        BY <1>5, <3>1, <3>2, <3>3
    <3>5. c.at - 1 = c.to
        BY <3>1, <3>2, <3>4, LocalBlobsAssumption
    <3> QED
        BY <3>1, <3>5
  <2>4. Reads(q, data) /\ Holds(q) /\ Own(q.inode, q.v)
      BY <1>0, <2>2, <2>3 DEF Reads, Holds
  <2> HIDE DEF q
  <2> QED
      BY RequestStep, <1>2, <1>3, <2>1, <2>2, <2>4 DEF ReadBlock
<1> QED
    BY <1>4, <1>5

\* A request ends: with its answer, or in the middle of its work, which leaves the
\* file it wrote in pieces if that is not whole.
LEMMA AnswerStep ==
    ASSUME IInv, NEW r \in Requests, Answer(r) \/ Fail(r)
    PROVE  IInv'
<1>1. rows \subseteq Contents /\ torn \subseteq Contents /\ InPieces({r}) \subseteq Contents
      /\ (repo = "deleted" => rows = {})
    BY DEF IInv, TypeOK, Life, InPieces
<1>2. CASE Answer(r)
  <2>1. \A w \in Contents : ~Fresh(r, w)
      BY <1>2, NotFresh DEF Answer
  <2> QED
      BY <1>1, <1>2, <2>1, EndStep DEF Answer
<1>3. CASE Fail(r)
  <2>1. \A w \in Contents : Fresh(r, w) => Whole(w) \/ w \in torn'
      BY <1>3 DEF Fail, InPieces, Fresh
  <2> QED
      BY <1>1, <1>3, <2>1, EndStep DEF Fail
<1> QED
    BY <1>2, <1>3
----------------------------------------------------------------------------
(* Steps that write a file.                                                *)

\* A block more is in the file: what was there stays, and an upload that has
\* copied all of its content after it emptied the file leaves it whole.
LEMMA CopyBlockStep ==
    ASSUME IInv, NEW r \in Requests, CopyBlock(r)
    PROVE  IInv'
<1> DEFINE c == req[r]
           q == [c EXCEPT !.at = @ + 1, !.pc = IF c.at + 1 = Size THEN "row" ELSE "copy"]
<1>0. /\ c \in Call /\ Holds(c) /\ c.pc = "copy" /\ Own(c.inode, c.v)
      /\ req \in [Requests -> Call] /\ file \in [Contents -> Inodes \cup {NoInode}]
      /\ data \in [Inodes -> SUBSET Blocks]
    BY DEF IInv, TypeOK, InodesOwned, CopyBlock
<1>1. c.v \in Contents /\ c.inode \in Inodes /\ c.at < Size /\ c.at \in 0 .. Size
    BY <1>0 DEF Holds, Call
<1>2. c.at \in Blocks /\ c.at + 1 \in 0 .. Size
    BY <1>1, LocalBlobsAssumption DEF Blocks
<1>3. req' = [req EXCEPT ![r] = q]
    BY <1>0 DEF CopyBlock
<1>4. /\ q \in Call /\ q.pc \in {"copy", "row"} /\ q.v = c.v /\ q.inode = c.inode /\ q.at = c.at + 1
      /\ q.pc = IF c.at + 1 = Size THEN "row" ELSE "copy"
    BY <1>0, <1>2 DEF Call
<1> HIDE DEF q
<1>5. /\ req'[r] = q /\ req' \in [Requests -> Call]
      /\ \A i \in Requests : i # r => req'[i] = req[i]
    BY <1>0, <1>3, <1>4
<1>6. /\ data' \in [Inodes -> SUBSET Blocks]
      /\ data'[c.inode] = data[c.inode] \cup {c.at}
      /\ \A i \in Inodes : data[i] \subseteq data'[i]
    BY <1>0, <1>1, <1>2 DEF CopyBlock
<1>7. \A i \in Inodes : data[i] = Blocks => data'[i] = Blocks
  <2> SUFFICES ASSUME NEW i \in Inodes, data[i] = Blocks PROVE data'[i] = Blocks
      OBVIOUS
  <2>1. data'[i] \in SUBSET Blocks /\ Blocks \subseteq data'[i]
      BY <1>6
  <2> QED
      BY <2>1
<1>8. TypeOK'
    BY <1>5, <1>6 DEF IInv, TypeOK, CopyBlock
<1>9. \A i \in Requests : Holds(req'[i]) /\ Reads(req'[i], data')
  <2>1. Holds(q) /\ Reads(q, data')
      BY <1>1, <1>2, <1>4, LocalBlobsAssumption DEF Holds, Reads
  <2>2. ASSUME NEW i \in Requests, i # r PROVE Holds(req'[i]) /\ Reads(req'[i], data')
    <3>1. Holds(req[i]) /\ Reads(req[i], data) /\ req'[i] = req[i]
        BY <1>5, <2>2 DEF IInv
    <3>2. req[i].pc = "read" => req[i].inode \in Inodes
        BY <3>1 DEF Holds
    <3> QED
        BY <1>7, <3>1, <3>2 DEF Reads
  <2> QED
      BY <1>5, <2>1, <2>2
<1>10. InodesOwned'
    BY <1>4, <1>5 DEF IInv, InodesOwned, Own, CopyBlock
<1>11. Life'
    BY <1>0, <1>4, <1>5 DEF IInv, Life, CopyBlock
<1>12. InDirs' /\ DeletedIsGone'
    BY DEF IInv, InDirs, DeletedIsGone, CopyBlock
<1>13. Mended'
  <2> SUFFICES ASSUME NEW v \in Contents, file[v] # NoInode, v \notin torn', ~Whole(v)'
               PROVE  \E i \in Requests : Fresh(i, v)'
      BY DEF Mended, CopyBlock
  <2>1. file[v] \in Inodes /\ data'[file[v]] # Blocks
      BY <1>0 DEF Whole, CopyBlock
  <2>2. v \notin torn
    <3>1. ASSUME v = c.v, file[v] = c.inode PROVE data'[c.inode] # Blocks
        BY <2>1, <3>1
    <3> QED
        BY <3>1 DEF CopyBlock
  <2>3. ~Whole(v)
      BY <1>7, <2>1 DEF Whole
  <2>4. PICK i \in Requests : Fresh(i, v)
      BY <2>2, <2>3 DEF IInv, Mended
  <2>5. /\ req[i].pc = "copy" /\ req[i].v = v /\ req[i].inode = file[v]
        /\ 0 .. (req[i].at - 1) \subseteq data[file[v]]
      BY <2>4 DEF Fresh, Writers
  <2>6. CASE i # r
    <3>1. req'[i] = req[i]
        BY <1>5, <2>6
    <3>2. Fresh(i, v)'
        BY <1>6, <2>1, <2>5, <3>1 DEF Fresh, Writers, CopyBlock
    <3> QED
        BY <3>2
  <2>7. CASE i = r
    <3>1. 0 .. c.at \subseteq data'[file[v]]
        BY <1>1, <1>6, <2>1, <2>5, <2>7
    <3>2. c.at + 1 # Size
      <4>1. ASSUME c.at + 1 = Size PROVE Blocks \subseteq data'[file[v]]
          BY <1>1, <3>1, <4>1, LocalBlobsAssumption DEF Blocks
      <4> QED
          BY <1>6, <2>1, <4>1
    <3>3. q.pc = "copy" /\ q.at - 1 = c.at
        BY <1>1, <1>4, <3>2
    <3>4. Fresh(r, v)'
        BY <1>4, <1>5, <2>5, <2>7, <3>1, <3>3 DEF Fresh, Writers, CopyBlock
    <3> QED
        BY <3>4
  <2> QED
      BY <2>6, <2>7
<1> QED
    BY <1>8, <1>9, <1>10, <1>11, <1>12, <1>13 DEF IInv

\* The file is made, or emptied: from then on this upload is the one to mend it,
\* and no reader of it is undisturbed.
LEMMA WriteStep ==
    ASSUME IInv, NEW r \in Requests, req[r].pc \in {"create", "again"}, req[r].v \in dirs, Open(r),
           UNCHANGED <<repo, rows, dirs, deleting, torn>>
    PROVE  IInv'
<1> DEFINE v == req[r].v
<1>0. /\ req[r] \in Call /\ Holds(req[r]) /\ req[r].at = 0 /\ v \in Contents
      /\ req \in [Requests -> Call] /\ file \in [Contents -> Inodes \cup {NoInode}]
      /\ data \in [Inodes -> SUBSET Blocks]
    BY DEF IInv, TypeOK, Holds
<1>1. PICK i \in Inodes :
         /\ IF file[v] # NoInode THEN i = file[v]
            ELSE \A w \in Contents : file[w] # i /\ \A q \in Requests : req[q].inode # i
         /\ file' = [file EXCEPT ![v] = i]
         /\ data' = [data EXCEPT ![i] = {}]
         /\ late' = IF repo = "deleted" THEN late \cup {v} ELSE late
         /\ req' = [q \in Requests |->
               IF q = r THEN [req[q] EXCEPT !.pc = "copy", !.inode = i]
               ELSE IF req[q].pc = "read" /\ req[q].inode = i
               THEN [req[q] EXCEPT !.calm = FALSE] ELSE req[q]]
    BY DEF Open
<1>2. i # NoInode
    BY LocalBlobsAssumption
<1>3. /\ file'[v] = i /\ \A w \in Contents : w # v => file'[w] = file[w] /\ file[w] # i
      /\ \A q \in Requests : req[q].inode = i => req[q].v = v /\ file[v] = i
    BY <1>0, <1>1, <1>2 DEF IInv, InodesOwned, Own
<1>4. /\ data'[i] = {} /\ \A j \in Inodes : j # i => data'[j] = data[j]
      /\ data' \in [Inodes -> SUBSET Blocks] /\ file' \in [Contents -> Inodes \cup {NoInode}]
    BY <1>0, <1>1
<1>5. /\ req'[r].pc = "copy" /\ req'[r].inode = i /\ req'[r].v = v /\ req'[r].at = 0
      /\ req'[r] \in Call
    BY <1>0, <1>1 DEF Call
<1>6. ASSUME NEW q \in Requests, q # r
      PROVE  /\ req'[q] \in Call /\ req'[q].pc = req[q].pc /\ req'[q].inode = req[q].inode
             /\ req'[q].v = req[q].v /\ req'[q].at = req[q].at
             /\ Holds(req'[q]) /\ Reads(req'[q], data')
  <2>0. req[q] \in Call /\ Holds(req[q]) /\ Reads(req[q], data)
      BY DEF IInv, TypeOK
  <2>1. CASE req[q].pc = "read" /\ req[q].inode = i
    <3>1. req'[q] = [req[q] EXCEPT !.calm = FALSE]
        BY <1>1, <1>6, <2>1
    <3>2. /\ req'[q] \in Call /\ req'[q].pc = req[q].pc /\ req'[q].inode = req[q].inode
          /\ req'[q].v = req[q].v /\ req'[q].at = req[q].at /\ req'[q].calm = FALSE
        BY <2>0, <3>1 DEF Call
    <3> QED
        BY <2>0, <2>1, <3>2 DEF Holds, Reads
  <2>2. CASE ~(req[q].pc = "read" /\ req[q].inode = i)
    <3>1. req'[q] = req[q]
        BY <1>1, <1>6, <2>2
    <3>2. req[q].pc = "read" => data'[req[q].inode] = data[req[q].inode]
        BY <1>4, <2>0, <2>2 DEF Holds
    <3> QED
        BY <2>0, <3>1, <3>2 DEF Reads
  <2> QED
      BY <2>1, <2>2
<1>7. TypeOK'
  <2>1. req' \in [Requests -> Call]
      BY <1>1, <1>5, <1>6
  <2> QED
      BY <1>0, <1>1, <1>4, <2>1 DEF IInv, TypeOK
<1>8. \A q \in Requests : Holds(req'[q]) /\ Reads(req'[q], data')
  <2>1. Holds(req'[r]) /\ Reads(req'[r], data')
      BY <1>0, <1>5, LocalBlobsAssumption DEF Holds, Reads
  <2> QED
      BY <1>6, <2>1
<1>9. InodesOwned'
  <2>1. \A w \in Contents : Own(file[w], w)'
      BY <1>2, <1>3 DEF IInv, InodesOwned, Own
  <2>2. \A q \in Requests : Own(req[q].inode, req[q].v)'
      BY <1>2, <1>3, <1>5, <1>6 DEF IInv, InodesOwned, Own
  <2> QED
      BY <2>1, <2>2 DEF InodesOwned
<1>10. Life'
  <2>1. ASSUME repo = "live", NEW q \in Requests, req'[q].pc \in {"copy", "row"}
        PROVE  file'[req'[q].v] = req'[q].inode
    <3>1. CASE q = r
        BY <1>3, <1>5, <3>1
    <3>2. CASE q # r
      <4>1. file[req[q].v] = req[q].inode /\ req[q].inode \in Inodes /\ req[q].v \in Contents
          BY <1>6, <2>1, <3>2 DEF IInv, Life, Holds
      <4>2. req[q].v = v => file[v] = i
          BY <1>1, <4>1, LocalBlobsAssumption
      <4> QED
          BY <1>3, <1>6, <3>2, <4>1, <4>2
    <3> QED
        BY <3>1, <3>2
  <2>2. \A w \in rows : file'[w] # NoInode
      BY <1>2, <1>3 DEF IInv, Life, TypeOK
  <2> QED
      BY <2>1, <2>2 DEF IInv, Life
<1>11. InDirs' /\ DeletedIsGone'
  <2>1. InDirs'
      BY <1>3 DEF IInv, InDirs
  <2>2. deleting = "done" => repo = "deleted"
      BY DEF IInv, TypeOK, Life
  <2>3. DeletedIsGone'
      BY <1>1, <1>3, <2>2 DEF IInv, DeletedIsGone
  <2> QED
      BY <2>1, <2>3
<1>12. Mended'
  <2> SUFFICES ASSUME NEW w \in Contents, file'[w] # NoInode, w \notin torn, ~Whole(w)'
               PROVE  \E q \in Requests : Fresh(q, w)'
      BY DEF Mended
  <2>1. CASE w = v
    <3>1. 0 .. (req'[r].at - 1) = {}
        BY <1>5
    <3>2. Fresh(r, w)'
        BY <1>3, <1>5, <2>1, <3>1 DEF Fresh, Writers
    <3> QED
        BY <3>2
  <2>2. CASE w # v
    <3>1. file'[w] = file[w] /\ data'[file[w]] = data[file[w]]
        BY <1>0, <1>3, <1>4, <2>2
    <3>2. ~Whole(w)
        BY <3>1 DEF Whole
    <3>3. PICK q \in Requests : Fresh(q, w)
        BY <3>1, <3>2 DEF IInv, Mended
    <3>4. q # r
        BY <3>3 DEF Fresh, Writers
    <3>5. Fresh(q, w)'
        BY <1>6, <3>1, <3>3, <3>4 DEF Fresh, Writers
    <3> QED
        BY <3>5
  <2> QED
      BY <2>1, <2>2
<1> QED
    BY <1>7, <1>8, <1>9, <1>10, <1>11, <1>12 DEF IInv
----------------------------------------------------------------------------
(* DeleteRepository, and the server's stops.                               *)

\* The rows go; the files with their names are still there.
LEMMA DeleteRowsStep ==
    ASSUME IInv, DeleteRows
    PROVE  IInv'
<1>1. TypeOK'
    BY DEF IInv, TypeOK, DeleteRows
<1>2. \A r \in Requests : Holds(req'[r]) /\ Reads(req'[r], data')
    BY DEF IInv, DeleteRows
<1>3. InodesOwned' /\ InDirs'
    BY DEF IInv, InodesOwned, Own, InDirs, DeleteRows
<1>4. Life' /\ DeletedIsGone'
    BY DEF Life, DeletedIsGone, DeleteRows
<1>5. Mended'
    BY DEF IInv, Mended, Whole, Fresh, Writers, DeleteRows
<1> QED
    BY <1>1, <1>2, <1>3, <1>4, <1>5 DEF IInv

\* os.RemoveAll takes a name from a file: it keeps its inode, and what reads it.
LEMMA RemoveFileStep ==
    ASSUME IInv, NEW v \in Contents, RemoveFile(v)
    PROVE  IInv'
<1>0. /\ file \in [Contents -> Inodes \cup {NoInode}] /\ file'[v] = NoInode
      /\ \A w \in Contents : w # v => file'[w] = file[w]
      /\ data' = data /\ req' = req /\ torn' = torn
    BY DEF IInv, TypeOK, RemoveFile
<1>1. TypeOK'
    BY <1>0 DEF IInv, TypeOK, RemoveFile
<1>2. \A r \in Requests : Holds(req'[r]) /\ Reads(req'[r], data')
    BY <1>0 DEF IInv
<1>3. InodesOwned' /\ InDirs' /\ DeletedIsGone'
    BY <1>0 DEF IInv, InodesOwned, Own, InDirs, DeletedIsGone, RemoveFile
<1>4. Life'
  <2>1. repo = "deleted" /\ rows = {}
      BY DEF IInv, TypeOK, Life, RemoveFile
  <2> QED
      BY <2>1 DEF IInv, Life, RemoveFile
<1>5. Mended'
    BY <1>0 DEF IInv, Mended, Whole, Fresh, Writers
<1> QED
    BY <1>1, <1>2, <1>3, <1>4, <1>5 DEF IInv

\* The rest of the deletion: it is done when no directory, so no file, is left.
LEMMA RemoveStep ==
    ASSUME IInv, Removed \/ RemoveFails \/ \E v \in Contents : RemoveDir(v)
    PROVE  IInv'
<1>0. UNCHANGED <<repo, rows, file, data, req, torn, late>>
    BY DEF Removed, RemoveFails, RemoveDir
<1>1. TypeOK'
    BY DEF IInv, TypeOK, Removed, RemoveFails, RemoveDir
<1>2. \A r \in Requests : Holds(req'[r]) /\ Reads(req'[r], data')
    BY <1>0 DEF IInv
<1>3. InodesOwned' /\ Mended'
    BY <1>0 DEF IInv, InodesOwned, Own, Mended, Whole, Fresh, Writers
<1>4. InDirs'
    BY DEF IInv, InDirs, Removed, RemoveFails, RemoveDir
<1>5. Life'
    BY <1>0 DEF IInv, Life, Removed, RemoveFails, RemoveDir
<1>6. DeletedIsGone'
    BY <1>0 DEF IInv, InDirs, DeletedIsGone, Removed, RemoveFails, RemoveDir
<1> QED
    BY <1>1, <1>2, <1>3, <1>4, <1>5, <1>6 DEF IInv

\* The server stops: every request and the deletion end where they are, and the
\* files that were being written are left in pieces.
LEMMA CrashStep ==
    ASSUME IInv, Crash
    PROVE  IInv'
<1>0. UNCHANGED <<repo, rows, dirs, file, data, late>>
    BY DEF Crash
<1>1. \A r \in Requests : req'[r] = Idle
    BY DEF Crash
<1>2. TypeOK'
    BY IdleHolds DEF IInv, TypeOK, Crash, InPieces
<1>3. \A r \in Requests : Holds(req'[r]) /\ Reads(req'[r], data')
    BY <1>1, IdleHolds
<1>4. InodesOwned' /\ InDirs' /\ DeletedIsGone'
    BY <1>0, <1>1, IdleHolds DEF IInv, InodesOwned, Own, InDirs, DeletedIsGone, Crash
<1>5. Life'
  <2>1. rows' = rows /\ repo' = repo /\ file' = file /\ (deleting' = "idle" <=> deleting = "idle")
      BY DEF Crash
  <2>2. \A r \in Requests : req'[r].pc \notin {"copy", "row"}
      BY <1>1, IdleHolds
  <2> QED
      BY <2>1, <2>2 DEF IInv, Life
<1>6. Mended'
  <2> SUFFICES ASSUME NEW v \in Contents, file[v] # NoInode, ~Whole(v)
               PROVE  v \in torn'
      BY <1>0 DEF Mended, Whole
  <2>1. CASE v \in torn
      BY <2>1 DEF Crash
  <2>2. CASE \E r \in Requests : Fresh(r, v)
      BY <2>2 DEF Crash, InPieces, Fresh
  <2> QED
      BY <2>1, <2>2 DEF IInv, Mended
<1> QED
    BY <1>2, <1>3, <1>4, <1>5, <1>6 DEF IInv

----------------------------------------------------------------------------
(* Theorems.                                                               *)

\* A request does one of its steps (UploadObject, GetObject).
LEMMA RequestsStep ==
    ASSUME IInv, NEW r \in Requests, Request(r)
    PROVE  IInv'
<1>1. CASE \E v \in Contents : Upload(r, v)
    BY <1>1, UploadStep
<1>2. CASE \E v \in Contents : \E ft \in Ranges : Get(r, v, ft)
    BY <1>2, GetStep
<1>3. CASE Create(r)
  <2>1. CASE req[r].v \in dirs /\ Open(r)
      BY <1>3, <2>1, WriteStep DEF Create
  <2>2. CASE Goes(r, "mkdir") /\ UNCHANGED <<file, data, late>>
    <3>1. dirs \subseteq dirs' /\ dirs' \subseteq Contents
        BY <1>3 DEF Create, IInv, TypeOK
    <3> QED
        BY <1>3, <2>2, <3>1, MkdirStep DEF Create
  <2> QED
      BY <1>3, <2>1, <2>2 DEF Create
<1>4. CASE Mkdir(r)
  <2>1. dirs \subseteq dirs' /\ dirs' \subseteq Contents
      BY <1>4 DEF Mkdir, IInv, TypeOK, Holds
  <2> QED
      BY <1>4, <2>1, MkdirStep DEF Mkdir
<1>5. CASE CreateAgain(r)
  <2>1. CASE req[r].v \in dirs /\ Open(r)
      BY <1>5, <2>1, WriteStep DEF CreateAgain
  <2>2. CASE Ends(r) /\ UNCHANGED <<file, data, late>>
    <3>1. \A w \in Contents : ~Fresh(r, w)
        BY <1>5, NotFresh DEF CreateAgain
    <3>2. rows \subseteq Contents /\ torn \subseteq Contents /\ (repo = "deleted" => rows = {})
        BY DEF IInv, TypeOK, Life
    <3> QED
        BY <1>5, <2>2, <3>1, <3>2, EndStep DEF CreateAgain
  <2> QED
      BY <1>5, <2>1, <2>2 DEF CreateAgain
<1>6. CASE CopyBlock(r)
    BY <1>6, CopyBlockStep
<1>7. CASE StoreRow(r)
    BY <1>7, StoreRowStep
<1>8. CASE OpenRead(r)
    BY <1>8, OpenReadStep
<1>9. CASE ReadBlock(r)
    BY <1>9, ReadBlockStep
<1>10. CASE Answer(r)
    BY <1>10, AnswerStep
<1> QED
    BY <1>1, <1>2, <1>3, <1>4, <1>5, <1>6, <1>7, <1>8, <1>9, <1>10 DEF Request

\* The repository is new: nothing is stored, nothing asked for.
LEMMA InitHolds == Init => IInv
<1> SUFFICES ASSUME Init PROVE IInv
    OBVIOUS
<1>1. \A r \in Requests : req[r] = Idle
    BY DEF Init
<1>2. TypeOK
    BY IdleHolds DEF Init, TypeOK
<1>3. \A v \in Contents : file[v] = NoInode
    BY DEF Init
<1>4. InodesOwned /\ InDirs /\ Mended
    BY <1>1, <1>3, IdleHolds DEF InodesOwned, Own, InDirs, Mended
<1>5. Life
    BY <1>1, IdleHolds DEF Init, Life
<1>6. DeletedIsGone
    BY DEF Init, DeletedIsGone
<1> QED
    BY <1>1, <1>2, <1>4, <1>5, <1>6, IdleHolds DEF IInv

\* Every step of a request, of the deletion or of the server keeps the invariant.
LEMMA NextHolds == IInv /\ [Next]_vars => IInv'
<1> SUFFICES ASSUME IInv, [Next]_vars PROVE IInv'
    OBVIOUS
<1>1. CASE Delete
    BY <1>1, DeleteRowsStep, RemoveFileStep, RemoveStep DEF Delete
<1>2. CASE Crash
    BY <1>2, CrashStep
<1>3. CASE \E r \in Requests : Request(r) \/ Fail(r)
    BY <1>3, RequestsStep, AnswerStep
<1>4. CASE UNCHANGED vars
  <2>1. UNCHANGED <<repo, rows, dirs, file, data, req, deleting, torn, late>>
      BY <1>4 DEF vars
  <2> QED
      BY <2>1 DEF IInv, TypeOK, InodesOwned, Own, Life, InDirs, Mended, Whole, Fresh, Writers, DeletedIsGone
<1> QED
    BY <1>1, <1>2, <1>3, <1>4 DEF Next

\* The invariant of the repository's contents, whatever the interleaving of
\* uploads, reads and the deletion, and whenever a request or the server fails.
THEOREM BlobsInvariance == Spec => []IInv
BY InitHolds, NextHolds, PTL DEF Spec

\* The rows, files and requests of a repository's local storage are well formed:
\* Put and GetRange never write or ask for a block outside the content.
THEOREM BlobsTypeCorrect == Spec => []TypeOK
<1>1. IInv => TypeOK
    BY DEF IInv
<1> QED
    BY <1>1, BlobsInvariance, PTL

\* UploadObject inserts the rows only when WriteBlob has returned: a row's content
\* is whole in storage, or an upload of the same content is at it, or one has
\* failed on it and no later one finished.
THEOREM RowsHaveContent == Spec => []ObjectsHaveContent
<1>1. IInv => ObjectsHaveContent
  <2> SUFFICES ASSUME IInv, NEW v \in rows PROVE Whole(v) \/ Writers(v) # {} \/ v \in torn
      BY DEF ObjectsHaveContent
  <2>1. v \in Contents /\ file[v] # NoInode
      BY DEF IInv, TypeOK, Life
  <2>2. v \in torn \/ Whole(v) \/ \E r \in Requests : Fresh(r, v)
      BY <2>1 DEF IInv, Mended
  <2> QED
      BY <2>2 DEF Fresh
<1> QED
    BY <1>1, BlobsInvariance, PTL

\* GetObject's answer is the range that was asked for, of the object's content,
\* when no upload emptied the file meanwhile and none had left it in pieces; the
\* repository's deletion takes nothing from it.
THEOREM ReadsAreWhole == Spec => []ReadsWhatIsAsked
<1>1. IInv => ReadsWhatIsAsked
  <2> SUFFICES ASSUME IInv, NEW r \in Requests, req[r].pc = "answered", req[r].calm
               PROVE  req[r].got = req[r].from .. req[r].to /\ req[r].got \subseteq Blocks
      BY DEF ReadsWhatIsAsked
  <2>1. req[r] \in Call /\ Reads(req[r], data)
      BY DEF IInv, TypeOK
  <2> QED
      BY <2>1 DEF Call, Reads
<1> QED
    BY <1>1, BlobsInvariance, PTL

\* When DeleteRepository has removed the namespace, only uploads that were under
\* way put files there.
THEOREM DeletedStaysGone == Spec => []DeletedIsGone
<1>1. IInv => DeletedIsGone
    BY DEF IInv
<1> QED
    BY <1>1, BlobsInvariance, PTL
=============================================================================
