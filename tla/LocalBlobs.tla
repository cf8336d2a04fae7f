----------------------------- MODULE LocalBlobs -----------------------------
(***************************************************************************)
(* The contents of one repository in local storage: WriteBlob and ReadBlob *)
(* (versionmgr/work_repo.go) over Put, Get, GetRange and RemoveNameSpace   *)
(* (block/local/adapter.go), within the requests that use them: UploadObj- *)
(* ect, GetObject and DeleteRepository.                                    *)
(*                                                                         *)
(* A content is a file named by its checksum, in a directory of its own.   *)
(* It is Size blocks long.  An open file is an inode, which outlives its   *)
(* name; os.Create empties the inode a name already has.  Every step of a  *)
(* request may be the last: the file system fails, or the server stops.    *)
(***************************************************************************)
EXTENDS Integers, FiniteSets

CONSTANTS Contents, Requests,
          Size,          \* blocks of a content
          Inodes,        \* bound: files ever made
          NoContent, NoInode

ASSUME LocalBlobsAssumption ==
    Size \in Nat \ {0} /\ NoInode \notin Inodes /\ NoContent \notin Contents

VARIABLES repo,     \* the repository's row: live or deleted
          rows,     \* contents that objects of the repository name
          dirs,     \* contents whose directory exists
          file,     \* the inode of a content's name
          data,     \* blocks written in an inode
          req,      \* the requests under way
          deleting, \* where DeleteRepository is
          torn,     \* auxiliary: contents a failed upload left in pieces
          late      \* auxiliary: contents stored after the repository's deletion

vars == <<repo, rows, dirs, file, data, req, deleting, torn, late>>

Blocks == 0..(Size - 1)
Ranges == {<<f, t>> : f, t \in {-1} \cup 0..Size} \ {<<-1, -1>>}   \* -1: left out

Idle == [pc |-> "idle", v |-> NoContent, inode |-> NoInode, from |-> 0, at |-> 0,
         to |-> -1, got |-> {}, calm |-> TRUE]
Call == [pc : {"idle", "create", "mkdir", "again", "copy", "row", "open", "read", "answered"},
         v : Contents \cup {NoContent}, inode : Inodes \cup {NoInode},
         from : 0..Size, at : 0..Size, to : -1..(Size - 1), got : SUBSET Blocks,
         calm : BOOLEAN]

Init ==
    /\ repo = "live" /\ rows = {} /\ dirs = {}
    /\ file = [v \in Contents |-> NoInode] /\ data = [i \in Inodes |-> {}]
    /\ req = [r \in Requests |-> Idle] /\ deleting = "idle"
    /\ torn = {} /\ late = {}

\* Requests that write the file of content v.
Whole(v)   == file[v] # NoInode /\ data[file[v]] = Blocks
Writers(v) == {r \in Requests : req[r].pc = "copy" /\ req[r].v = v /\ req[r].inode = file[v]}
Goes(r, pc) == req' = [req EXCEPT ![r].pc = pc]
Ends(r)     == req' = [req EXCEPT ![r] = Idle]

----------------------------------------------------------------------------
(* UploadObject: WriteBlob, then the rows. *)

\* The whole body has been read to a temporary file and hashed.
Upload(r, v) ==
    /\ req[r].pc = "idle" /\ repo = "live"
    /\ req' = [req EXCEPT ![r] = [Idle EXCEPT !.pc = "create", !.v = v]]
    /\ UNCHANGED <<repo, rows, dirs, file, data, deleting, torn, late>>

\* os.Create of the content's file.  Readers of the file lose what they have not
\* read.
Open(r) ==
    LET v == req[r].v
    IN  \E i \in Inodes :
            /\ IF file[v] # NoInode THEN i = file[v]
               ELSE \A w \in Contents : file[w] # i /\ \A q \in Requests : req[q].inode # i
            /\ file' = [file EXCEPT ![v] = i]
            /\ data' = [data EXCEPT ![i] = {}]
            /\ late' = IF repo = "deleted" THEN late \cup {v} ELSE late
            /\ req' = [q \in Requests |->
                  IF q = r THEN [req[q] EXCEPT !.pc = "copy", !.inode = i]
                  ELSE IF req[q].pc = "read" /\ req[q].inode = i
                  THEN [req[q] EXCEPT !.calm = FALSE] ELSE req[q]]

\* maybeMkdir: a missing directory is made, and the create tried once more.
Create(r) ==
    /\ req[r].pc = "create"
    /\ \/ req[r].v \in dirs /\ Open(r)
       \/ req[r].v \notin dirs /\ Goes(r, "mkdir") /\ UNCHANGED <<file, data, late>>
    /\ UNCHANGED <<repo, rows, dirs, deleting, torn>>

Mkdir(r) ==
    /\ req[r].pc = "mkdir" /\ Goes(r, "again")
    /\ dirs' = dirs \cup {req[r].v}
    /\ UNCHANGED <<repo, rows, file, data, deleting, torn, late>>

CreateAgain(r) ==
    /\ req[r].pc = "again"
    /\ \/ req[r].v \in dirs /\ Open(r)
       \/ req[r].v \notin dirs /\ Ends(r) /\ UNCHANGED <<file, data, late>>
    /\ UNCHANGED <<repo, rows, dirs, deleting, torn>>

\* Mutant: the copy goes on past the end.
CopyPastEnd(r) ==
    LET c == req[r]
    IN  /\ c.pc = "copy"
        /\ data' = [data EXCEPT ![c.inode] = @ \cup {c.at}]
        /\ req' = [req EXCEPT ![r].at = @ + 1,
                              ![r].pc = IF c.at = Size THEN "row" ELSE "copy"]
        /\ UNCHANGED <<repo, rows, dirs, file, deleting, torn, late>>

\* io.Copy, block after block.  An upload that leaves the file whole mends it.
CopyBlock(r) ==
    LET c == req[r]
    IN  /\ c.pc = "copy"
        /\ data' = [data EXCEPT ![c.inode] = @ \cup {c.at}]
        /\ req' = [req EXCEPT ![r].at = @ + 1,
                              ![r].pc = IF c.at + 1 = Size THEN "row" ELSE "copy"]
        /\ torn' = IF file[c.v] = c.inode /\ data'[c.inode] = Blocks
                   THEN torn \ {c.v} ELSE torn
        /\ UNCHANGED <<repo, rows, dirs, file, deleting, late>>

\* Mutant: the rows are inserted before the content is written.
StoreRowFirst(r) ==
    /\ req[r].pc = "copy" /\ Ends(r)
    /\ rows' = IF repo = "live" THEN rows \cup {req[r].v} ELSE rows
    /\ UNCHANGED <<repo, dirs, file, data, deleting, torn, late>>

\* The rows are inserted and the wip moves, unless its row is gone.
StoreRow(r) ==
    /\ req[r].pc = "row" /\ Ends(r)
    /\ rows' = IF repo = "live" THEN rows \cup {req[r].v} ELSE rows
    /\ UNCHANGED <<repo, dirs, file, data, deleting, torn, late>>

----------------------------------------------------------------------------
(* GetObject: ReadBlob of an object of the repository, or of a range of it. *)

\* Mutant: the end is not cut at the size.
RangeUncut(f, t) ==
    IF f = -1 THEN <<IF Size - t < 0 THEN 0 ELSE Size - t, Size - 1>>
    ELSE <<f, IF t = -1 THEN Size - 1 ELSE t>>

\* httputil.ParseRange: "-t" asks for the last t blocks, "f-" for all from f on;
\* a range that starts behind the end is refused, here as one that ends before it
\* starts.  A request without a range asks for <<0, -1>>.
ParseRange(f, t) ==
    IF f = -1 THEN <<IF Size - t < 0 THEN 0 ELSE Size - t, Size - 1>>
    ELSE <<f, IF t = -1 \/ t > Size - 1 THEN Size - 1 ELSE t>>

\* The object is found in the tree; GetRange refuses a range that ends before it
\* starts.
Get(r, v, ft) ==
    LET se == ParseRange(ft[1], ft[2])
    IN  /\ req[r].pc = "idle" /\ v \in rows
        /\ se[1] <= se[2]
        /\ req' = [req EXCEPT ![r] = [Idle EXCEPT !.pc = "open", !.v = v,
                                       !.from = se[1], !.at = se[1], !.to = se[2]]]
        /\ UNCHANGED <<repo, rows, dirs, file, data, deleting, torn, late>>

\* The file is opened, if it is there.
OpenRead(r) ==
    LET v == req[r].v
    IN  /\ req[r].pc = "open"
        /\ \/ file[v] = NoInode /\ Ends(r)
           \/ /\ file[v] # NoInode
              /\ req' = [req EXCEPT ![r].pc = "read", ![r].inode = file[v],
                                    ![r].calm = Writers(v) = {} /\ v \notin torn]
    /\ UNCHANGED <<repo, rows, dirs, file, data, deleting, torn, late>>

\* Blocks are read to the end of the range or of the file.
ReadBlock(r) ==
    LET c == req[r]
        d == data[c.inode]
    IN  /\ c.pc = "read"
        /\ IF c.at <= c.to /\ \E b \in d : b >= c.at
           THEN req' = [req EXCEPT ![r].got = IF c.at \in d THEN @ \cup {c.at} ELSE @,
                                   ![r].at = @ + 1]
           ELSE Goes(r, "answered")
        /\ UNCHANGED <<repo, rows, dirs, file, data, deleting, torn, late>>

Answer(r) ==
    /\ req[r].pc = "answered" /\ Ends(r)
    /\ UNCHANGED <<repo, rows, dirs, file, data, deleting, torn, late>>

----------------------------------------------------------------------------
(* DeleteRepository: the rows in one transaction, then the namespace. *)

DeleteRows ==
    /\ repo = "live" /\ repo' = "deleted" /\ rows' = {} /\ deleting' = "removing"
    /\ UNCHANGED <<dirs, file, data, req, torn, late>>

\* Mutant: the removal ends with what it saw.
RemovedEarly ==
    /\ deleting = "removing" /\ deleting' = "done"
    /\ UNCHANGED <<repo, rows, dirs, file, data, req, torn, late>>

\* os.RemoveAll: files, then emptied directories; it ends when all are gone.
RemoveFile(v) ==
    /\ deleting = "removing" /\ file[v] # NoInode
    /\ file' = [file EXCEPT ![v] = NoInode]
    /\ UNCHANGED <<repo, rows, dirs, data, req, deleting, torn, late>>
RemoveDir(v) ==
    /\ deleting = "removing" /\ v \in dirs /\ file[v] = NoInode
    /\ dirs' = dirs \ {v}
    /\ UNCHANGED <<repo, rows, file, data, req, deleting, torn, late>>
Removed ==
    /\ deleting = "removing" /\ dirs = {} /\ deleting' = "done"
    /\ UNCHANGED <<repo, rows, dirs, file, data, req, torn, late>>
RemoveFails ==
    /\ deleting = "removing" /\ deleting' = "failed"
    /\ UNCHANGED <<repo, rows, dirs, file, data, req, torn, late>>

----------------------------------------------------------------------------
(* Failures. *)

\* A request fails, or its client goes away; the server stops with all of them.
InPieces(rs) == {v \in Contents : ~Whole(v) /\ Writers(v) \cap rs # {}}
Fail(r) ==
    /\ req[r].pc # "idle" /\ Ends(r)
    /\ torn' = torn \cup InPieces({r})
    /\ UNCHANGED <<repo, rows, dirs, file, data, deleting, late>>
Crash ==
    /\ req' = [r \in Requests |-> Idle]
    /\ torn' = torn \cup InPieces(Requests)
    /\ deleting' = IF deleting = "removing" THEN "failed" ELSE deleting
    /\ UNCHANGED <<repo, rows, dirs, file, data, late>>

----------------------------------------------------------------------------
Request(r) ==
    \/ \E v \in Contents : Upload(r, v) \/ \E ft \in Ranges : Get(r, v, ft)
    \/ Create(r) \/ Mkdir(r) \/ CreateAgain(r) \/ CopyBlock(r) \/ StoreRow(r)
    \/ OpenRead(r) \/ ReadBlock(r) \/ Answer(r)
Delete == DeleteRows \/ Removed \/ RemoveFails \/ \E v \in Contents : RemoveFile(v) \/ RemoveDir(v)
Next == Delete \/ Crash \/ \E r \in Requests : Request(r) \/ Fail(r)
Spec == Init /\ [][Next]_vars

----------------------------------------------------------------------------
TypeOK ==
    /\ repo \in {"live", "deleted"} /\ deleting \in {"idle", "removing", "done", "failed"}
    /\ rows \subseteq Contents /\ dirs \subseteq Contents
    /\ file \in [Contents -> Inodes \cup {NoInode}]
    /\ data \in [Inodes -> SUBSET Blocks]
    /\ req \in [Requests -> Call]
    /\ torn \subseteq Contents /\ late \subseteq Contents

\* An object of the repository has its whole content in storage, but for what
\* uploads of the same content do to it: one that is under way has emptied the
\* file, and one that failed left it so (Put creates the file it writes; WriteBlob
\* before the rows).
ObjectsHaveContent == \A v \in rows : Whole(v) \/ Writers(v) # {} \/ v \in torn

\* A read that no upload of the same content disturbs gets just the blocks that
\* were asked for, even if the repository is deleted meanwhile (ReadBlob,
\* GetRange, Content-Length).
ReadsWhatIsAsked == \A r \in Requests : LET c == req[r] IN
    c.pc = "answered" /\ c.calm => c.got = c.from..c.to /\ c.got \subseteq Blocks

\* Once DeleteRepository has answered, what storage holds of the repository was
\* put there by uploads that were under way at its deletion.
DeletedIsGone == deleting = "done" => {v \in Contents : file[v] # NoInode} \subseteq late
=============================================================================
