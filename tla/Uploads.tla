------------------------------ MODULE Uploads -------------------------------
(***************************************************************************)
(* CbFileUploadReceiver: the viewer's files arrive in chunks on the        *)
(* "files" channel, are written by tasks of an unsequenced thread pool,    *)
(* hashed, and handed to the file chooser the page has open.               *)
(*                                                                         *)
(* Abstraction: a chunk is one byte and is named by its sequence number,   *)
(* so the file of size n is <<0, ..., n-1>> and its hash is itself.  The   *)
(* handlers run on the UI sequence; a pool task runs at any time, and its  *)
(* reply reaches the UI sequence at any time after it.  An upload id is a  *)
(* fresh UUID of the viewer's (client/src/file-upload.ts, newUploadId), and *)
(* the viewer sends no empty chunk.  Pool and replies are sets: a second   *)
(* hash of an upload, asked for by a repeated end, is the first one, since *)
(* whichever reply comes first erases the entry.                           *)
(***************************************************************************)
EXTENDS Integers, Sequences, FiniteSets

CONSTANTS
  Ids,              \* upload ids the viewers use
  Sizes,            \* declared sizes they try
  MaxUploadBytes,   \* kMaxUploadBytes
  MaxSessionBytes,  \* kMaxSessionUploadBytes
  Concurrent,       \* bound: uploads the viewer has open at once
  Faults,           \* whether writes fail and viewers send bad frames
  Asks,             \* the pages' questions; a file chooser is one of them
  None              \* no upload, no file, no question

VARIABLES
  uploads,       \* uploads_
  sessionBytes,  \* session_bytes_
  parked,        \* pending_listener_: the question of the parked chooser
  deadline,      \* chooser_deadline_ runs
  fresh,         \* ids not used yet (viewer)
  hashed,        \* ids whose start declared a hash (sha256 is not empty)
  ended,         \* ids whose file_upload_end the receiver has handled
  disk,          \* the Uploads/ directory
  pool,          \* thread-pool tasks not run yet
  replies,       \* results on their way back to the UI sequence
  told,          \* what this viewer was told of an id in the end
  complete,      \* ids reported complete in this session
  overtaken,     \* a wipe ran after the session it was posted for
  page           \* what each page's question has come to

uploadVars == <<uploads, sessionBytes, fresh, hashed, ended, disk, pool, replies,
                told, complete, overtaken>>
receiverVars == <<uploadVars, parked, deadline>>

File(n) == [i \in 1..n |-> i - 1]
Open == {u \in Ids : uploads[u] # None}

Upload == [size : Nat, nextSeq : Nat, writes : Nat, endPending : BOOLEAN]
Task == [op : {"write", "delete", "hash", "wipe"}, id : Ids \union {None},
         seq : Nat, live : BOOLEAN]
Reply == [op : {"write"}, id : Ids, seq : Nat, ok : BOOLEAN]
          \union [op : {"hash"}, id : Ids, was : Seq(Nat) \union {None}]

ASSUME SizesAssumption == Sizes \subseteq Nat
ASSUME NoneAssumption == None \notin Upload /\ None \notin Asks

UploadsTypeOK ==
  /\ uploads \in [Ids -> Upload \union {None}]
  /\ sessionBytes \in Nat
  /\ parked \in Asks \union {None} /\ deadline \in BOOLEAN
  /\ \A s \in {fresh, hashed, ended, complete} : s \subseteq Ids
  /\ disk \in [Ids -> Seq(Nat) \union {None}]
  /\ pool \subseteq Task
  /\ replies \subseteq Reply
  /\ told \in [Ids -> {"nothing", "complete", "error"}]
  /\ overtaken \in BOOLEAN

UploadsInit ==
  /\ uploads = [u \in Ids |-> None] /\ sessionBytes = 0
  /\ parked = None /\ deadline = FALSE
  /\ fresh = Ids /\ hashed = {} /\ ended = {} /\ complete = {}
  /\ disk = [u \in Ids |-> None]
  /\ pool = {} /\ replies = {}
  /\ told = [u \in Ids |-> "nothing"]
  /\ overtaken = FALSE

-----------------------------------------------------------------------------
(* The parked file chooser.                                                *)

(* A OnceCallback or a FileSelectListener is run: the page goes on.  A     *)
(* second run would be a crash of the browser.                             *)
Give(old, v) ==
  CASE old = "blocked" -> v [] old = "withdrawn" -> old [] OTHER -> "twice"

(* Cancels whichever chooser is parked, and its deadline. *)
CancelChooser ==
  /\ parked' = None /\ deadline' = FALSE
  /\ page' = IF parked = None THEN page
             ELSE [page EXCEPT ![parked] = Give(@, "default")]

(* A second chooser displaces the first; the park is bounded here. *)
BeginChooser(a) ==
  /\ parked' = a /\ deadline' = TRUE
  /\ page' = [b \in Asks |-> IF b = a THEN "blocked"
                             ELSE IF b = parked THEN Give(page[b], "default")
                             ELSE page[b]]

ChooserDeadline == deadline /\ CancelChooser /\ UNCHANGED uploadVars

(* The finished file goes to the chooser that is parked now. *)
ResolveChooserWith ==
  /\ parked' = None
  /\ deadline' = (deadline /\ parked = None)
  /\ page' = IF parked = None THEN page
             ELSE [page EXCEPT ![parked] = Give(@, "file")]

-----------------------------------------------------------------------------
(* The transfers.  Each handler is one task of the UI sequence.            *)

ReplyError(u) == told' = [told EXCEPT ![u] = "error"]
ReplyComplete(u) == told' = [told EXCEPT ![u] = "complete"]

Post(op, u, seq) == [op |-> op, id |-> u, seq |-> seq, live |-> TRUE]

(* Erases the entry, deletes what is on disk (unordered with the writes),  *)
(* tells the viewer.                                                       *)
AbandonUpload(u) ==
  /\ uploads' = [uploads EXCEPT ![u] = None]
  /\ pool' = pool \union {Post("delete", u, 0)}
  /\ ReplyError(u)

TooLarge(n) == n <= 0 \/ n > MaxUploadBytes
OverQuota(n) == sessionBytes + n > MaxSessionBytes

HandleStart(u, n, declares) ==
  /\ u \in fresh /\ Cardinality(Open) < Concurrent
  /\ fresh' = fresh \ {u}
  /\ hashed' = IF declares THEN hashed \union {u} ELSE hashed
  /\ IF TooLarge(n) \/ OverQuota(n)
     THEN ReplyError(u) /\ UNCHANGED uploads
     ELSE /\ uploads' = [uploads EXCEPT ![u] =
               [size |-> n, nextSeq |-> 0, writes |-> 0, endPending |-> FALSE]]
          /\ told' = [told EXCEPT ![u] = "nothing"]
  /\ UNCHANGED <<sessionBytes, parked, deadline, ended, disk, pool, replies,
                 complete, overtaken, page>>

(* The chunk is counted before its write is queued. *)
Accept(u) ==
  /\ uploads' = [uploads EXCEPT ![u] =
                   [uploads[u] EXCEPT !.nextSeq = @ + 1, !.writes = @ + 1]]
  /\ pool' = pool \union {Post("write", u, uploads[u].nextSeq)}
  /\ UNCHANGED told

(* A chunk may also come after the end. *)
HandleChunk(u, seq, decodes) ==
  /\ u \in Open
  /\ IF \/ seq # uploads[u].nextSeq
        \/ ~decodes
        \/ uploads[u].nextSeq + 1 > uploads[u].size
     THEN AbandonUpload(u)
     ELSE Accept(u)
  /\ UNCHANGED <<sessionBytes, parked, deadline, fresh, hashed, ended, disk, replies,
                 complete, overtaken, page>>

FinaliseUpload(u) == pool' = pool \union {Post("hash", u, 0)}

(* The reply of a write.  The last one finalises an upload whose end came  *)
(* first.                                                                  *)
OnChunkWrittenForgets(r) ==
  /\ r.op = "write"
  /\ replies' = replies \ {r}
  /\ IF uploads[r.id] = None
     THEN UNCHANGED <<uploads, pool, told>>
     ELSE IF ~r.ok
     THEN AbandonUpload(r.id)
     ELSE /\ uploads' = [uploads EXCEPT ![r.id].writes = @ - 1]
          /\ UNCHANGED told
          /\ UNCHANGED pool
  /\ UNCHANGED <<sessionBytes, parked, deadline, fresh, hashed, ended, disk, complete,
                 overtaken, page>>
OnChunkWritten(r) ==
  /\ r.op = "write"
  /\ replies' = replies \ {r}
  /\ IF uploads[r.id] = None
     THEN UNCHANGED <<uploads, pool, told>>
     ELSE IF ~r.ok
     THEN AbandonUpload(r.id)
     ELSE /\ uploads' = [uploads EXCEPT ![r.id].writes = @ - 1]
          /\ UNCHANGED told
          /\ IF uploads[r.id].endPending /\ uploads[r.id].writes = 1
             THEN FinaliseUpload(r.id)
             ELSE UNCHANGED pool
  /\ UNCHANGED <<sessionBytes, parked, deadline, fresh, hashed, ended, disk, complete,
                 overtaken, page>>

HandleEnd(u) ==
  /\ u \in Open
  /\ ended' = ended \union {u}
  /\ IF uploads[u].writes > 0
     THEN uploads' = [uploads EXCEPT ![u].endPending = TRUE] /\ UNCHANGED pool
     ELSE FinaliseUpload(u) /\ UNCHANGED uploads
  /\ UNCHANGED <<sessionBytes, parked, deadline, fresh, hashed, disk, replies, told,
                 complete, overtaken, page>>

(* The file read back must be there, have the declared size and, where a   *)
(* hash was declared, have that hash; "same" says whether the viewer still *)
(* sent the file it had hashed.  An empty declared hash is not compared.   *)
MatchesBySize(u, was, same) == was # None /\ Len(was) = uploads[u].size
Matches(u, was, same) ==
  /\ was # None
  /\ Len(was) = uploads[u].size
  /\ u \in hashed => same /\ was = File(uploads[u].size)

OnFinalised(r, same) ==
  /\ r.op = "hash"
  /\ replies' = replies \ {r}
  /\ IF uploads[r.id] = None
     THEN UNCHANGED <<uploads, pool, told, sessionBytes, complete, parked,
                      deadline, page>>
     ELSE IF ~Matches(r.id, r.was, same)
     THEN AbandonUpload(r.id) /\ UNCHANGED <<sessionBytes, complete, parked,
                                             deadline, page>>
     ELSE /\ uploads' = [uploads EXCEPT ![r.id] = None]
          /\ sessionBytes' = sessionBytes + Len(r.was)
          /\ complete' = complete \union {r.id}
          /\ ResolveChooserWith
          /\ ReplyComplete(r.id)
          /\ UNCHANGED pool
  /\ UNCHANGED <<fresh, hashed, ended, disk, overtaken>>

(* The chooser goes first, whether or not the upload is known. *)
HandleCancel(u) ==
  /\ CancelChooser
  /\ IF u \in Open THEN AbandonUpload(u)
     ELSE ReplyError(u) /\ UNCHANGED <<uploads, pool>>
  /\ UNCHANGED <<sessionBytes, fresh, hashed, ended, disk, replies, complete,
                 overtaken>>

(* The next viewer starts from an empty directory; the wipe is a pool task *)
(* like any other, and the receiver is destroyed after it, so no reply     *)
(* finds it any more.                                                      *)
ResetForNewSession ==
  /\ uploads' = [u \in Ids |-> None]
  /\ sessionBytes' = 0
  /\ pool' = {[t EXCEPT !.live = FALSE] : t \in pool}
               \union {[Post("wipe", None, 0) EXCEPT !.live = FALSE]}
  /\ replies' = {} /\ ended' = {} /\ complete' = {}
  /\ told' = [u \in Ids |-> "nothing"]
  /\ UNCHANGED <<fresh, hashed, disk, overtaken>>

-----------------------------------------------------------------------------
(* The thread pool: any task may be the next to run.                       *)

(* The first chunk creates or truncates, a later one appends and fails     *)
(* where there is no file.                                                 *)
AppendChunk(t) ==
  /\ t.op = "write"
  /\ \E ok \in IF t.seq > 0 /\ disk[t.id] = None THEN {FALSE}
               ELSE IF Faults THEN BOOLEAN ELSE {TRUE} :
       /\ disk' = IF ~ok THEN disk
                  ELSE [disk EXCEPT ![t.id] = IF t.seq = 0 THEN <<0>>
                                              ELSE Append(@, t.seq)]
       /\ replies' = IF ~t.live THEN replies ELSE
            replies \union {[op |-> "write", id |-> t.id, seq |-> t.seq, ok |-> ok]}
  /\ UNCHANGED <<complete, overtaken>>

HashFile(t) ==
  /\ t.op = "hash"
  /\ replies' = IF ~t.live THEN replies ELSE
       replies \union {[op |-> "hash", id |-> t.id, was |-> disk[t.id]]}
  /\ UNCHANGED <<disk, complete, overtaken>>

DeleteFile(t) ==
  /\ t.op = "delete"
  /\ disk' = [disk EXCEPT ![t.id] = None]
  /\ UNCHANGED <<replies, complete, overtaken>>

Wipe(t, nextIsHere) ==
  /\ t.op = "wipe"
  /\ disk' = [u \in Ids |-> None]
  /\ overtaken' = (overtaken \/ nextIsHere)
  /\ UNCHANGED <<replies, complete>>

PoolTask(t, nextIsHere) ==
  /\ t \in pool
  /\ pool' = pool \ {t}
  /\ AppendChunk(t) \/ HashFile(t) \/ DeleteFile(t) \/ Wipe(t, nextIsHere)
  /\ UNCHANGED <<uploads, sessionBytes, parked, deadline, fresh, hashed, ended, told,
                 page>>
=============================================================================
