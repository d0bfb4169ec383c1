----------------------------- MODULE PageProofs -----------------------------
(***************************************************************************)
(* Proofs about Page and the upload receiver it is composed with.  Two     *)
(* invariants: UploadInv follows every chunk from its acceptance to its    *)
(* reply, AskInv every question from its callback's holder to its answer.  *)
(***************************************************************************)
EXTENDS Page, FiniteSetTheorems, TLAPS

WriteReply(u, s, ok) == [op |-> "write", id |-> u, seq |-> s, ok |-> ok]

(* The chunks of u that were accepted and whose reply was not seen. *)
Writing(u) ==
  {s \in Nat : \/ Post("write", u, s) \in pool
               \/ WriteReply(u, s, TRUE) \in replies
               \/ WriteReply(u, s, FALSE) \in replies}

(* An id that was not used has left no trace. *)
Untouched ==
  /\ \A u \in fresh : u \notin Open \union ended \union complete /\ disk[u] = None
  /\ \A t \in pool : t.op # "wipe" => t.id \in Ids \ fresh
  /\ \A r \in replies : r.id \notin fresh

(* writes counts the chunks on their way. *)
Counted ==
  \A u \in Open :
    /\ IsFiniteSet(Writing(u)) /\ Cardinality(Writing(u)) = uploads[u].writes
    /\ \A s \in Writing(u) : s < uploads[u].nextSeq

(* Each of them is in one place. *)
OnePlace ==
  \A u \in Open : \A s \in Nat :
    /\ Post("write", u, s) \in pool =>
         WriteReply(u, s, TRUE) \notin replies /\ WriteReply(u, s, FALSE) \notin replies
    /\ WriteReply(u, s, TRUE) \in replies => WriteReply(u, s, FALSE) \notin replies

(* No more chunks are accepted than the declared size has. *)
Sized ==
  \A u \in Open : uploads[u].size \in Sizes /\ uploads[u].nextSeq <= uploads[u].size

(* What is on disk was accepted, and its write is over. *)
Landed ==
  \A u \in Open : disk[u] # None =>
    \A i \in DOMAIN disk[u] : /\ disk[u][i] < uploads[u].nextSeq
                              /\ Post("write", u, disk[u][i]) \notin pool

(* Chunks may come after the end, so a hash may read a file that is still   *)
(* being written; but one that found the declared file found all of it, and *)
(* no write is left that could change it.                                  *)
Settled ==
  \A r \in replies :
    r.op = "hash" /\ r.id \in Open /\ r.was # None /\ r.was = File(uploads[r.id].size) =>
      /\ \A s \in Nat : Post("write", r.id, s) \notin pool
      /\ uploads[r.id].nextSeq = uploads[r.id].size
      /\ overtaken \/ r.was = disk[r.id]

(* Nothing that could still change a file is left for an upload that is    *)
(* open or verified, other than the open one's own writes.                 *)
NothingLeft ==
  /\ complete \intersect Open = {}
  /\ \A t \in pool :
       /\ ~t.live /\ t.op # "wipe" => t.id \notin Open \union complete
       /\ t.op = "delete" => t.id \notin Open \union complete
       /\ t.op = "write" => t.id \notin complete \intersect hashed
  /\ phase = "none" => /\ Open = {} /\ complete = {} /\ replies = {}
                       /\ \A t \in pool : ~t.live

TransferTypeOK ==
  /\ uploads \in [Ids -> Upload \union {None}] /\ sessionBytes \in Nat
  /\ fresh \subseteq Ids /\ hashed \subseteq Ids
  /\ ended \subseteq Ids /\ complete \subseteq Ids
  /\ disk \in [Ids -> Seq(Nat) \union {None}]
  /\ pool \subseteq Task /\ replies \subseteq Reply
  /\ told \in [Ids -> {"nothing", "complete", "error"}]
  /\ overtaken \in BOOLEAN

UploadInv ==
  /\ TransferTypeOK /\ Untouched /\ Counted /\ OnePlace /\ Sized /\ Landed /\ Settled
  /\ NothingLeft /\ CompleteIsIntact

(* Every callback is held by at most one party, who may still run it. *)
AskTypeOK ==
  /\ parked \in Asks \union {None}
  /\ page \in [Asks -> {"idle", "blocked"} \union Outcomes]
  /\ kind \in [Asks -> Kinds \union {None}]
  /\ pending \subseteq Asks /\ posted \subseteq Asks

(* A blocked page has a holder, and a holder's page is blocked or was      *)
(* withdrawn: the callback it runs was not run before.                     *)
BlockedIsHeld == \A a \in Asks : page[a] = "blocked" => Held(a)
PendingWaits ==
  \A a \in pending : /\ page[a] # "idle"
                     /\ kind[a] # "chooser" => page[a] \in {"blocked", "withdrawn"}
ParkedWaits == parked # None => page[parked] = "blocked" /\ kind[parked] = "chooser"
PostedWaits ==
  \A a \in posted : /\ a \notin pending /\ kind[a] = "login"
                    /\ page[a] \in {"blocked", "withdrawn"}

AskInv ==
  /\ AskTypeOK /\ BlockedIsHeld /\ PendingWaits /\ ParkedWaits /\ PostedWaits
  /\ phase # "up" => pending = {}
  /\ inbound \subseteq said

(* What may become of a question in one step. *)
Moves(a) ==
  \/ page'[a] = page[a]
  \/ page[a] = "idle" /\ page'[a] = "blocked"
  \/ page[a] \in {"idle", "blocked"} /\ page'[a] \in {"default", "withdrawn"}
  \/ page[a] = "blocked" /\ page'[a] \in {"yes", "no"} /\ <<a, page'[a]>> \in said
  \/ page[a] = "blocked" /\ page'[a] = "file" /\ Offered

(* An entry with one more chunk, one write less, or its end seen. *)
LEMMA Entries ==
  ASSUME NEW e \in Upload
  PROVE  /\ LET f == [e EXCEPT !.nextSeq = @ + 1, !.writes = @ + 1]
            IN f \in Upload /\ f.nextSeq = e.nextSeq + 1 /\ f.writes = e.writes + 1
               /\ f.size = e.size /\ f.endPending = e.endPending
         /\ e.writes # 0 =>
            LET f == [e EXCEPT !.writes = @ - 1]
            IN f \in Upload /\ f.nextSeq = e.nextSeq /\ f.writes = e.writes - 1
               /\ f.size = e.size /\ f.endPending = e.endPending
         /\ LET f == [e EXCEPT !.endPending = TRUE]
            IN f \in Upload /\ f.nextSeq = e.nextSeq /\ f.writes = e.writes
               /\ f.size = e.size /\ f.endPending = TRUE
<1>1. LET f == [e EXCEPT !.nextSeq = @ + 1, !.writes = @ + 1]
      IN f \in Upload /\ f.nextSeq = e.nextSeq + 1 /\ f.writes = e.writes + 1
         /\ f.size = e.size /\ f.endPending = e.endPending
  <2>1. \A n, m \in Nat : [e EXCEPT !.nextSeq = n, !.writes = m] \in Upload
    BY DEF Upload
  <2>2. e.nextSeq + 1 \in Nat /\ e.writes + 1 \in Nat
    BY DEF Upload
  <2>3. [e EXCEPT !.nextSeq = @ + 1, !.writes = @ + 1] \in Upload
    BY <2>1, <2>2
  <2> QED
    BY <2>3 DEF Upload
<1>2. ASSUME e.writes # 0
      PROVE  LET f == [e EXCEPT !.writes = @ - 1]
             IN f \in Upload /\ f.nextSeq = e.nextSeq /\ f.writes = e.writes - 1
                /\ f.size = e.size /\ f.endPending = e.endPending
  <2>1. e.writes - 1 \in Nat
    BY <1>2 DEF Upload
  <2> QED
    BY <2>1 DEF Upload
<1>3. LET f == [e EXCEPT !.endPending = TRUE]
      IN f \in Upload /\ f.nextSeq = e.nextSeq /\ f.writes = e.writes
         /\ f.size = e.size /\ f.endPending = TRUE
  BY DEF Upload
<1> QED
  BY <1>1, <1>2, <1>3

USE SizesAssumption, NoneAssumption

-----------------------------------------------------------------------------
(* Tasks and replies.                                                      *)

(* A live task is the one that was posted. *)
LEMMA Posted ==
  /\ \A op, u, s : /\ Post(op, u, s).op = op /\ Post(op, u, s).id = u
                   /\ Post(op, u, s).seq = s /\ Post(op, u, s).live = TRUE
  /\ \A t \in Task : t.live => t = Post(t.op, t.id, t.seq)
  /\ \A op \in {"write", "delete", "hash"}, u \in Ids, s \in Nat : Post(op, u, s) \in Task
<1>1. \A op, u, s : /\ Post(op, u, s).op = op /\ Post(op, u, s).id = u
                    /\ Post(op, u, s).seq = s /\ Post(op, u, s).live = TRUE
  BY DEF Post
<1>2. ASSUME NEW t \in Task, t.live PROVE t = Post(t.op, t.id, t.seq)
  BY <1>2 DEF Post, Task
<1>3. \A op \in {"write", "delete", "hash"}, u \in Ids, s \in Nat : Post(op, u, s) \in Task
  BY DEF Post, Task
<1> QED
  BY <1>1, <1>2, <1>3

(* A reply is of a write or of a hash. *)
LEMMA Replied ==
  /\ \A u, s, ok : /\ WriteReply(u, s, ok).op = "write" /\ WriteReply(u, s, ok).id = u
                   /\ WriteReply(u, s, ok).seq = s /\ WriteReply(u, s, ok).ok = ok
  /\ \A r \in Reply : /\ r.id \in Ids /\ r.op \in {"write", "hash"}
                      /\ r.op = "write" => /\ r.seq \in Nat /\ r.ok \in BOOLEAN
                                           /\ r = WriteReply(r.id, r.seq, r.ok)
                      /\ r.op = "hash" => r.was \in Seq(Nat) \union {None}
  /\ \A u \in Ids, s \in Nat, ok \in BOOLEAN : WriteReply(u, s, ok) \in Reply
<1>1. \A u, s, ok : /\ WriteReply(u, s, ok).op = "write" /\ WriteReply(u, s, ok).id = u
                    /\ WriteReply(u, s, ok).seq = s /\ WriteReply(u, s, ok).ok = ok
  BY DEF WriteReply
<1>2. ASSUME NEW r \in Reply
      PROVE  /\ r.id \in Ids /\ r.op \in {"write", "hash"}
             /\ r.op = "write" => /\ r.seq \in Nat /\ r.ok \in BOOLEAN
                                  /\ r = WriteReply(r.id, r.seq, r.ok)
             /\ r.op = "hash" => r.was \in Seq(Nat) \union {None}
  BY DEF Reply, WriteReply
<1>3. \A u \in Ids, s \in Nat, ok \in BOOLEAN : WriteReply(u, s, ok) \in Reply
  BY DEF Reply, WriteReply
<1> QED
  BY <1>1, <1>2, <1>3

(* Open uploads have an entry. *)
LEMMA OpenEntry ==
  ASSUME TransferTypeOK, NEW u \in Open
  PROVE  /\ u \in Ids /\ uploads[u] \in Upload /\ uploads[u].writes \in Nat
         /\ uploads[u].nextSeq \in Nat
  BY DEF TransferTypeOK, Open, Upload

(* A step that leaves the transfers alone. *)
LEMMA UploadUnchanged ==
  ASSUME UploadInv, UNCHANGED uploadVars, phase' = phase \/ phase' # "none"
  PROVE  UploadInv'
<1> USE DEF uploadVars, UploadInv
<1>1. TransferTypeOK' /\ CompleteIsIntact'
  BY DEF TransferTypeOK, CompleteIsIntact
<1>2. Untouched' /\ Counted' /\ OnePlace'
  BY DEF Untouched, Counted, OnePlace, Open, Writing
<1>3. Sized' /\ Landed' /\ Settled' /\ NothingLeft'
  BY DEF Sized, Landed, Settled, NothingLeft, Open
<1> QED
  BY <1>1, <1>2, <1>3

(* An upload whose tasks and replies are what they were is still counted.  *)
LEMMA SameWriting ==
  ASSUME NEW v,
         \A s \in Nat : Post("write", v, s) \in pool' <=> Post("write", v, s) \in pool,
         \A s \in Nat, ok \in BOOLEAN :
           WriteReply(v, s, ok) \in replies' <=> WriteReply(v, s, ok) \in replies
  PROVE  Writing(v)' = Writing(v)
  BY DEF Writing

-----------------------------------------------------------------------------
(* The handlers of the transfers.                                          *)

(* Abandoning an upload leaves the others what they are, and a delete that *)
(* concerns none of them.                                                  *)
LEMMA AbandonInv ==
  ASSUME UploadInv, NEW u \in Open,
         uploads' = [uploads EXCEPT ![u] = None],
         pool' = pool \union {Post("delete", u, 0)},
         told' \in [Ids -> {"nothing", "complete", "error"}],
         replies' \subseteq replies,
         \A r \in replies : r.id # u => r \in replies',
         ended' \subseteq Ids, ended \subseteq ended', ended' \subseteq ended \union {u},
         UNCHANGED <<sessionBytes, fresh, hashed, disk, complete, overtaken, phase>>
  PROVE  UploadInv'
<1> USE DEF UploadInv
<1>0. u \in Ids /\ uploads[u] # None /\ u \notin complete /\ u \notin fresh
  BY DEF Open, NothingLeft, Untouched
<1>1. Open' = Open \ {u}
  BY <1>0 DEF Open, TransferTypeOK
<1>2. TransferTypeOK'
  <2>1. Post("delete", u, 0) \in Task
    BY <1>0, Posted
  <2>2. uploads' \in [Ids -> Upload \union {None}]
    BY <1>0 DEF TransferTypeOK
  <2> QED
    BY <2>1, <2>2 DEF TransferTypeOK
<1>3. ASSUME NEW v \in Open'
      PROVE  Writing(v)' = Writing(v) /\ uploads'[v] = uploads[v] /\ v \in Open /\ v # u
  <2>1. v \in Open /\ v # u /\ v \in Ids
    BY <1>1 DEF Open
  <2>2. uploads'[v] = uploads[v]
    BY <2>1 DEF TransferTypeOK
  <2>3. \A s \in Nat : Post("write", v, s) \in pool' <=> Post("write", v, s) \in pool
    BY <2>1, Posted
  <2>4. \A s \in Nat, ok \in BOOLEAN :
           WriteReply(v, s, ok) \in replies' <=> WriteReply(v, s, ok) \in replies
    BY <2>1, Replied
  <2>5. Writing(v)' = Writing(v)
    BY <2>3, <2>4, SameWriting
  <2> QED
    BY <2>1, <2>2, <2>5
<1>4. Untouched'
  BY <1>0, <1>1, Posted DEF Untouched
<1>5. Counted'
  BY <1>3 DEF Counted
<1>7. \A v, s : Post("write", v, s) \in pool' <=> Post("write", v, s) \in pool
  BY Posted
<1>6. OnePlace'
  BY <1>1, <1>7 DEF OnePlace
<1>8. Sized' /\ Landed' /\ Settled'
  <2>1. Sized'
    BY <1>3 DEF Sized
  <2>2. Landed'
    BY <1>3, <1>7 DEF Landed
  <2>3. Settled'
    BY <1>3, <1>7 DEF Settled
  <2> QED
    BY <2>1, <2>2, <2>3
<1>9. phase # "none"
  BY DEF NothingLeft
<1>10. NothingLeft'
  BY <1>0, <1>1, <1>9, Posted DEF NothingLeft
<1>11. CompleteIsIntact'
  BY DEF CompleteIsIntact
<1> QED
  BY <1>2, <1>4, <1>5, <1>6, <1>8, <1>10, <1>11

(* A start opens an entry for an id that has left no trace. *)
LEMMA StartInv ==
  ASSUME UploadInv, phase = "up", phase' = phase, NEW u \in Ids, NEW n \in Sizes,
         NEW declares \in BOOLEAN, HandleStart(u, n, declares)
  PROVE  UploadInv'
<1> USE DEF UploadInv
<1>0. /\ u \in fresh /\ u \notin Open /\ fresh' = fresh \ {u} /\ n \in Nat
      /\ hashed' \subseteq hashed \union {u} /\ hashed \subseteq hashed' /\ u \notin complete
      /\ UNCHANGED <<sessionBytes, ended, disk, pool, replies, complete, overtaken>>
  BY DEF HandleStart, Untouched
<1>1. /\ TransferTypeOK'
      /\ Open' \subseteq Open \union {u} /\ Open \subseteq Open'
      /\ \A v \in Open : uploads'[v] = uploads[v]
      /\ u \in Open' => /\ uploads'[u].nextSeq = 0 /\ uploads'[u].writes = 0
                        /\ uploads'[u].size = n
  <2> DEFINE e == [size |-> n, nextSeq |-> 0, writes |-> 0, endPending |-> FALSE]
  <2>0. e \in Upload
    BY <1>0 DEF Upload
  <2>1. e \in Upload /\ e # None /\ e.nextSeq = 0 /\ e.writes = 0 /\ e.endPending = FALSE /\ e.size = n
    BY <2>0
  <2>2. CASE TooLarge(n) \/ OverQuota(n)
    BY <1>0, <2>2 DEF HandleStart, ReplyError, TransferTypeOK, Open
  <2>3. CASE ~(TooLarge(n) \/ OverQuota(n))
    <3>1. uploads' = [uploads EXCEPT ![u] = e] /\ told' = [told EXCEPT ![u] = "nothing"]
      BY <2>3 DEF HandleStart
    <3> HIDE DEF e
    <3> QED
      BY <1>0, <2>1, <3>1 DEF TransferTypeOK, Open
  <2> QED
    BY <2>2, <2>3
<1>2. Writing(u) = {}
  <2>1. \A s \in Nat : Post("write", u, s) \notin pool
    BY <1>0, Posted DEF Untouched
  <2>2. \A s \in Nat, ok \in BOOLEAN : WriteReply(u, s, ok) \notin replies
    BY <1>0, Replied DEF Untouched
  <2> QED
    BY <2>1, <2>2 DEF Writing
<1>3. \A v : Writing(v)' = Writing(v)
  BY <1>0 DEF Writing
<1>4. Untouched'
  BY <1>0, <1>1 DEF Untouched
<1>5. Counted'
  <2> SUFFICES ASSUME NEW v \in Open'
               PROVE  /\ IsFiniteSet(Writing(v)') /\ Cardinality(Writing(v)') = uploads'[v].writes
                      /\ \A s \in Writing(v)' : s < uploads'[v].nextSeq
    BY DEF Counted
  <2>1. CASE v = u
    BY <2>1, <1>1, <1>2, <1>3, FS_EmptySet
  <2>2. CASE v \in Open
    BY <2>2, <1>1, <1>3 DEF Counted
  <2> QED
    BY <1>1, <2>1, <2>2
<1>6. OnePlace'
  <2>1. \A s \in Nat : Post("write", u, s) \notin pool /\ WriteReply(u, s, TRUE) \notin replies
    BY <1>2 DEF Writing
  <2> QED
    BY <1>0, <1>1, <2>1 DEF OnePlace
<1>7. disk[u] = None /\ \A r \in replies : r.id # u
  BY <1>0 DEF Untouched
<1>8. Sized' /\ Landed' /\ Settled'
  <2>1. Sized'
    <3> SUFFICES ASSUME NEW v \in Open'
                 PROVE  uploads'[v].size \in Sizes /\ uploads'[v].nextSeq <= uploads'[v].size
      BY DEF Sized
    <3>1. CASE v = u
      BY <3>1, <1>0, <1>1
    <3>2. CASE v \in Open
      BY <3>2, <1>1 DEF Sized
    <3> QED
      BY <1>1, <3>1, <3>2
  <2>2. Landed'
    BY <1>0, <1>1, <1>7 DEF Landed
  <2>3. Settled'
    BY <1>0, <1>1, <1>7 DEF Settled
  <2> QED
    BY <2>1, <2>2, <2>3
<1>9. NothingLeft'
  BY <1>0, <1>1 DEF NothingLeft, Untouched
<1>10. CompleteIsIntact'
  BY <1>0 DEF CompleteIsIntact
<1> QED
  BY <1>1, <1>4, <1>5, <1>6, <1>8, <1>9, <1>10

(* A chunk that is accepted joins the ones on their way; its number is     *)
(* above all of theirs.                                                    *)
LEMMA ChunkInv ==
  ASSUME UploadInv, phase' = phase, NEW u, NEW seq, NEW decodes \in BOOLEAN,
         HandleChunk(u, seq, decodes)
  PROVE  UploadInv'
<1> USE DEF UploadInv
<1>0. /\ u \in Open
      /\ UNCHANGED <<sessionBytes, fresh, hashed, ended, disk, replies, complete, overtaken>>
  BY DEF HandleChunk
<1>1. u \in Ids /\ uploads[u] \in Upload /\ uploads[u].writes \in Nat /\ uploads[u].nextSeq \in Nat
  BY <1>0, OpenEntry
<1>a. CASE AbandonUpload(u)
  <2>1. told' \in [Ids -> {"nothing", "complete", "error"}]
    BY <1>a DEF AbandonUpload, ReplyError, TransferTypeOK
  <2>2. ended' \subseteq Ids
    BY <1>0 DEF TransferTypeOK
  <2> QED
    BY <1>0, <1>a, <2>1, <2>2, AbandonInv DEF AbandonUpload
<1>b. CASE Accept(u) /\ ~(uploads[u].nextSeq + 1 > uploads[u].size)
  <2> DEFINE q == uploads[u].nextSeq
             e == [uploads[u] EXCEPT !.nextSeq = @ + 1, !.writes = @ + 1]
  <2>1. uploads' = [uploads EXCEPT ![u] = e]
    BY <1>b DEF Accept
  <2>2. pool' = pool \union {Post("write", u, q)} /\ told' = told
    BY <1>b DEF Accept
  <2>3. /\ e \in Upload /\ e.nextSeq = q + 1 /\ e.writes = uploads[u].writes + 1
        /\ e.size = uploads[u].size /\ e.endPending = uploads[u].endPending
    BY <1>1, Entries
  <2>4. q \in Nat /\ uploads[u].nextSeq = q /\ uploads[u].size \in Nat /\ q + 1 <= uploads[u].size
    <3>1. uploads[u].size \in Nat /\ uploads[u].nextSeq \in Nat
      BY <1>0, <1>1 DEF Sized
    <3> QED
      BY <1>b, <3>1
  <2> HIDE DEF q, e
  <2>5. Open' = Open
    BY <1>0, <1>1, <2>1, <2>3 DEF Open, TransferTypeOK
  <2>6. uploads'[u] = e /\ \A v \in Open : v # u => uploads'[v] = uploads[v]
    BY <1>1, <2>1 DEF TransferTypeOK, Open
  <2>7. TransferTypeOK'
    <3>1. Post("write", u, q) \in Task
      BY <1>1, <2>4, Posted
    <3>2. uploads' \in [Ids -> Upload \union {None}]
      BY <1>1, <2>1, <2>3 DEF TransferTypeOK
    <3> QED
      BY <1>0, <2>2, <3>1, <3>2 DEF TransferTypeOK
  <2>0. \A v, s : Post("write", v, s) \in pool' <=>
                     Post("write", v, s) \in pool \/ (v = u /\ s = q)
    BY <2>2, Posted
  <2>8. Writing(u)' = Writing(u) \union {q}
    BY <1>0, <2>0, <2>4 DEF Writing
  <2>9. \A v \in Open : v # u => Writing(v)' = Writing(v)
    BY <1>0, <2>0 DEF Writing
  <2>10. q \notin Writing(u)
    BY <1>0, <1>1, <2>4 DEF Counted, q
  <2>11. Untouched'
    BY <1>0, <1>1, <2>2, <2>5, Posted DEF Untouched, TransferTypeOK
  <2>12. Counted'
    <3> SUFFICES ASSUME NEW v \in Open
                 PROVE  /\ IsFiniteSet(Writing(v)') /\ Cardinality(Writing(v)') = uploads'[v].writes
                        /\ \A s \in Writing(v)' : s < uploads'[v].nextSeq
      BY <2>5 DEF Counted
    <3>1. CASE v # u
      BY <3>1, <2>6, <2>9 DEF Counted
    <3>2. CASE v = u
      <4>1. IsFiniteSet(Writing(u)) /\ Cardinality(Writing(u)) = uploads[u].writes
        BY <1>0 DEF Counted
      <4>2. IsFiniteSet(Writing(u) \union {q}) /\ Cardinality(Writing(u) \union {q}) = uploads[u].writes + 1
        BY <4>1, <2>10, FS_AddElement
      <4>3. \A s \in Writing(u) \union {q} : s < q + 1
        <5>1. \A s \in Writing(u) : s < q /\ s \in Nat
          BY <1>0 DEF Counted, Writing, q
        <5> QED
          BY <5>1, <2>4
      <4> QED
        BY <3>2, <4>2, <4>3, <2>3, <2>6, <2>8
    <3> QED
      BY <3>1, <3>2
  <2>13. OnePlace'
    <3>1. WriteReply(u, q, TRUE) \notin replies /\ WriteReply(u, q, FALSE) \notin replies
      BY <2>4, <2>10 DEF Writing
    <3> QED
      BY <1>0, <2>0, <2>5, <3>1 DEF OnePlace
  <2>14. Sized'
    <3> SUFFICES ASSUME NEW v \in Open
                 PROVE  uploads'[v].size \in Sizes /\ uploads'[v].nextSeq <= uploads'[v].size
      BY <2>5 DEF Sized
    <3>1. CASE v = u
      BY <3>1, <1>0, <2>3, <2>4, <2>6 DEF Sized
    <3>2. CASE v # u
      BY <3>2, <2>6 DEF Sized
    <3> QED
      BY <3>1, <3>2
  <2>15. Landed'
    <3> SUFFICES ASSUME NEW v \in Open, disk[v] # None, NEW i \in DOMAIN disk[v]
                 PROVE  /\ disk[v][i] < uploads'[v].nextSeq
                        /\ Post("write", v, disk[v][i]) \notin pool'
      BY <1>0, <2>5 DEF Landed
    <3>1. disk[v][i] < uploads[v].nextSeq /\ Post("write", v, disk[v][i]) \notin pool
      BY DEF Landed
    <3>2. disk[v][i] \in Nat
      BY DEF TransferTypeOK, Open
    <3>3. CASE v = u
      <4>1. disk[v][i] < q /\ disk[v][i] < q + 1
        BY <2>4, <3>1, <3>2, <3>3
      <4>2. disk[v][i] # q
        BY <2>4, <3>2, <4>1
      <4> QED
        BY <2>0, <2>3, <2>6, <3>1, <3>3, <4>1, <4>2
    <3>4. CASE v # u
      BY <2>0, <2>6, <3>1, <3>4
    <3> QED
      BY <3>3, <3>4
  <2>18. Settled'
    <3> SUFFICES ASSUME NEW r \in replies, r.op = "hash", r.id \in Open,
                        r.was # None, r.was = File(uploads'[r.id].size)
                 PROVE  /\ \A s \in Nat : Post("write", r.id, s) \notin pool'
                        /\ uploads'[r.id].nextSeq = uploads'[r.id].size
                        /\ overtaken \/ r.was = disk[r.id]
      BY <1>0, <2>5 DEF Settled
    <3>1. uploads'[r.id].size = uploads[r.id].size
      BY <2>3, <2>6
    <3>2. /\ \A s \in Nat : Post("write", r.id, s) \notin pool
          /\ uploads[r.id].nextSeq = uploads[r.id].size
          /\ overtaken \/ r.was = disk[r.id]
      BY <3>1 DEF Settled
    <3>3. r.id # u
      BY <3>2, <2>4
    <3> QED
      BY <2>0, <2>6, <3>2, <3>3
  <2>16. NothingLeft'
    BY <1>0, <2>2, <2>5, Posted DEF NothingLeft
  <2>17. CompleteIsIntact'
    BY <1>0 DEF CompleteIsIntact
  <2> QED
    BY <2>7, <2>11, <2>12, <2>13, <2>14, <2>15, <2>16, <2>17, <2>18
<1> QED
  BY <1>a, <1>b DEF HandleChunk

(* Asking for the hash of an upload changes nothing of it. *)
LEMMA HashAsked ==
  ASSUME UploadInv, NEW u \in Open,
         pool' = pool \union {Post("hash", u, 0)}, ended' = ended \union {u},
         UNCHANGED <<uploads, sessionBytes, fresh, hashed, disk, replies, told, complete,
                     overtaken, phase>>
  PROVE  UploadInv'
<1> USE DEF UploadInv
<1>1. u \in Ids /\ u \notin fresh /\ Open' = Open
  BY DEF Open, Untouched
<1>2. \A v, s : Post("write", v, s) \in pool' <=> Post("write", v, s) \in pool
  BY Posted
<1>3. TransferTypeOK' /\ CompleteIsIntact'
  <2>1. Post("hash", u, 0) \in Task
    BY <1>1, Posted
  <2> QED
    BY <1>1, <2>1 DEF TransferTypeOK, CompleteIsIntact
<1>4. Untouched' /\ NothingLeft'
  BY <1>1, Posted DEF Untouched, NothingLeft
<1>5. Counted' /\ OnePlace'
  BY <1>1, <1>2 DEF Counted, OnePlace, Writing
<1>6. Sized' /\ Landed' /\ Settled'
  BY <1>1, <1>2 DEF Sized, Landed, Settled
<1> QED
  BY <1>3, <1>4, <1>5, <1>6

(* A reply nobody waits for is dropped. *)
LEMMA ReplyDropped ==
  ASSUME UploadInv, NEW r \in replies, uploads[r.id] = None, replies' = replies \ {r},
         UNCHANGED <<uploads, sessionBytes, fresh, hashed, ended, disk, pool, told,
                     complete, overtaken, phase>>
  PROVE  UploadInv'
<1> USE DEF UploadInv
<1>1. r.id \notin Open /\ Open' = Open
  BY DEF Open
<1>2. \A v \in Open : \A s \in Nat, ok \in BOOLEAN :
        WriteReply(v, s, ok) \in replies' <=> WriteReply(v, s, ok) \in replies
  BY <1>1, Replied
<1>3. \A v \in Open : Writing(v)' = Writing(v)
  BY <1>2, SameWriting
<1>4. TransferTypeOK' /\ CompleteIsIntact'
  BY DEF TransferTypeOK, CompleteIsIntact
<1>5. Untouched' /\ NothingLeft'
  BY <1>1 DEF Untouched, NothingLeft
<1>6. Counted' /\ OnePlace'
  BY <1>1, <1>2, <1>3 DEF Counted, OnePlace
<1>7. Sized' /\ Landed' /\ Settled'
  BY <1>1 DEF Sized, Landed, Settled
<1> QED
  BY <1>4, <1>5, <1>6, <1>7

(* A write's reply: the chunk has arrived, and the last one asks for the   *)
(* hash when the end came first.                                           *)
LEMMA WrittenInv ==
  ASSUME UploadInv, phase' = phase, NEW r \in replies, OnChunkWritten(r)
  PROVE  UploadInv'
<1> USE DEF UploadInv
<1> DEFINE u == r.id
<1>0. /\ r.op = "write" /\ replies' = replies \ {r}
      /\ UNCHANGED <<sessionBytes, fresh, hashed, ended, disk, complete, overtaken>>
  BY DEF OnChunkWritten
<1>1. u \in Ids /\ r.seq \in Nat /\ r.ok \in BOOLEAN /\ r = WriteReply(u, r.seq, r.ok)
  BY <1>0, Replied DEF TransferTypeOK
<1>2. CASE uploads[u] = None
  BY <1>0, <1>2, ReplyDropped DEF OnChunkWritten
<1>3. CASE u \in Open /\ ~r.ok
  <2>1. AbandonUpload(u)
    BY <1>3 DEF OnChunkWritten, Open
  <2>2. told' \in [Ids -> {"nothing", "complete", "error"}] /\ ended' \subseteq Ids
    BY <1>0, <2>1 DEF AbandonUpload, ReplyError, TransferTypeOK
  <2> QED
    BY <1>0, <1>3, <2>1, <2>2, AbandonInv DEF AbandonUpload
<1>4. CASE u \in Open /\ r.ok
  <2> DEFINE q == r.seq
             e == [uploads[u] EXCEPT !.writes = @ - 1]
  <2>1. uploads' = [uploads EXCEPT ![u] = e] /\ told' = told
    BY <1>4 DEF OnChunkWritten, Open
  <2>2. pool' = pool \/ (uploads[u].endPending /\ uploads[u].writes = 1
                         /\ pool' = pool \union {Post("hash", u, 0)})
    BY <1>4 DEF OnChunkWritten, Open, FinaliseUpload
  <2>3. r = WriteReply(u, q, TRUE) /\ q \in Nat
    BY <1>1, <1>4
  <2>4. q \in Writing(u)
    BY <2>3 DEF Writing
  <2>5. /\ uploads[u] \in Upload /\ uploads[u].writes \in Nat /\ uploads[u].nextSeq \in Nat
        /\ IsFiniteSet(Writing(u)) /\ Cardinality(Writing(u)) = uploads[u].writes
    BY <1>4, OpenEntry DEF Counted
  <2>6. /\ IsFiniteSet(Writing(u) \ {q})
        /\ Cardinality(Writing(u) \ {q}) = uploads[u].writes - 1
        /\ uploads[u].writes # 0
    BY <2>4, <2>5, FS_RemoveElement, FS_EmptySet
  <2>7. /\ e \in Upload /\ e.nextSeq = uploads[u].nextSeq /\ e.writes = uploads[u].writes - 1
        /\ e.size = uploads[u].size /\ e.endPending = uploads[u].endPending
    BY <2>5, <2>6, Entries
  <2> HIDE DEF q, e, u
  <2>8. Open' = Open
    BY <1>1, <1>4, <2>1, <2>7 DEF Open, TransferTypeOK
  <2>9. uploads'[u] = e /\ \A v \in Open : v # u => uploads'[v] = uploads[v]
    BY <1>1, <2>1 DEF TransferTypeOK, Open
  <2>10. \A v, s : Post("write", v, s) \in pool' <=> Post("write", v, s) \in pool
    BY <2>2, Posted
  <2>11. \A v, s : /\ WriteReply(v, s, FALSE) \in replies' <=>
                        WriteReply(v, s, FALSE) \in replies
                   /\ WriteReply(v, s, TRUE) \in replies' <=>
                        WriteReply(v, s, TRUE) \in replies /\ ~(v = u /\ s = q)
    <3>1. \A v, s : WriteReply(v, s, FALSE) # r
      BY <2>3 DEF WriteReply
    <3>2. \A v, s : WriteReply(v, s, TRUE) = r => v = u /\ s = q
      BY <2>3 DEF WriteReply
    <3> QED
      BY <1>0, <2>3, <3>1, <3>2
  <2>12. Writing(u)' = Writing(u) \ {q}
    <3>1. Post("write", u, q) \notin pool /\ WriteReply(u, q, FALSE) \notin replies
      BY <1>4, <2>3 DEF OnePlace
    <3> QED
      BY <2>10, <2>11, <3>1 DEF Writing
  <2>13. \A v \in Open : v # u => Writing(v)' = Writing(v)
    BY <2>10, <2>11 DEF Writing
  <2>14. TransferTypeOK'
    <3>1. Post("hash", u, 0) \in Task
      BY <1>1, Posted
    <3>2. uploads' \in [Ids -> Upload \union {None}]
      BY <1>1, <2>1, <2>7 DEF TransferTypeOK
    <3> QED
      BY <1>0, <2>1, <2>2, <3>1, <3>2 DEF TransferTypeOK
  <2>15. Untouched'
    BY <1>0, <1>1, <1>4, <2>2, <2>8, Posted DEF Untouched
  <2>16. Counted'
    <3> SUFFICES ASSUME NEW v \in Open
                 PROVE  /\ IsFiniteSet(Writing(v)') /\ Cardinality(Writing(v)') = uploads'[v].writes
                        /\ \A s \in Writing(v)' : s < uploads'[v].nextSeq
      BY <2>8 DEF Counted
    <3>1. CASE v # u
      BY <3>1, <2>9, <2>13 DEF Counted
    <3>2. CASE v = u
      <4>1. \A s \in Writing(u) : s < uploads[u].nextSeq
        BY <1>4 DEF Counted
      <4> QED
        BY <3>2, <4>1, <2>6, <2>7, <2>9, <2>12
    <3> QED
      BY <3>1, <3>2
  <2>17. OnePlace'
    BY <2>8, <2>10, <2>11 DEF OnePlace
  <2>18. \A v \in Open : /\ uploads'[v].size = uploads[v].size
                         /\ uploads'[v].nextSeq = uploads[v].nextSeq
    BY <2>7, <2>9
  <2>19. Sized' /\ Landed'
    BY <1>0, <2>8, <2>10, <2>18 DEF Sized, Landed
  <2>20. Settled'
    BY <1>0, <2>8, <2>10, <2>18 DEF Settled
  <2>21. NothingLeft'
    <3>1. phase # "none"
      BY <1>4 DEF NothingLeft
    <3> QED
      BY <1>0, <1>4, <2>2, <2>8, <3>1, Posted DEF NothingLeft
  <2>22. CompleteIsIntact'
    BY <1>0 DEF CompleteIsIntact
  <2> QED
    BY <2>14, <2>15, <2>16, <2>17, <2>19, <2>20, <2>21, <2>22
<1> QED
  BY <1>1, <1>2, <1>3, <1>4 DEF Open

(* The end of an upload with writes on their way waits for them. *)
LEMMA EndInv ==
  ASSUME UploadInv, phase' = phase, NEW u, HandleEnd(u)
  PROVE  UploadInv'
<1> USE DEF UploadInv
<1>0. /\ u \in Open /\ ended' = ended \union {u}
      /\ UNCHANGED <<sessionBytes, fresh, hashed, disk, replies, told, complete, overtaken>>
  BY DEF HandleEnd
<1>1. u \in Ids /\ uploads[u] \in Upload /\ uploads[u].writes \in Nat
  BY <1>0, OpenEntry
<1>2. CASE ~(uploads[u].writes > 0)
  BY <1>0, <1>1, <1>2, HashAsked DEF HandleEnd, FinaliseUpload
<1>3. CASE uploads[u].writes > 0
  <2> DEFINE e == [uploads[u] EXCEPT !.endPending = TRUE]
  <2>1. uploads' = [uploads EXCEPT ![u] = e] /\ pool' = pool
    BY <1>3 DEF HandleEnd
  <2>2. /\ e \in Upload /\ e.nextSeq = uploads[u].nextSeq /\ e.writes = uploads[u].writes
        /\ e.size = uploads[u].size
    BY <1>1, Entries
  <2> HIDE DEF e
  <2>3. Open' = Open
    BY <1>0, <1>1, <2>1, <2>2 DEF Open, TransferTypeOK
  <2>4. uploads'[u] = e /\ \A v \in Open : v # u => uploads'[v] = uploads[v]
    BY <1>1, <2>1 DEF TransferTypeOK, Open
  <2>5. \A v : Writing(v)' = Writing(v)
    BY <1>0, <2>1 DEF Writing
  <2>6. TransferTypeOK' /\ CompleteIsIntact'
    <3>1. uploads' \in [Ids -> Upload \union {None}]
      BY <1>1, <2>1, <2>2 DEF TransferTypeOK
    <3> QED
      BY <1>0, <1>1, <2>1, <3>1 DEF TransferTypeOK, CompleteIsIntact
  <2>7. Untouched'
    BY <1>0, <2>1, <2>3 DEF Untouched
  <2>8. \A v \in Open : /\ uploads'[v].writes = uploads[v].writes
                        /\ uploads'[v].nextSeq = uploads[v].nextSeq
                        /\ uploads'[v].size = uploads[v].size
    BY <2>2, <2>4
  <2>9. Counted' /\ OnePlace' /\ NothingLeft'
    <3>1. Counted'
      BY <2>3, <2>5, <2>8 DEF Counted
    <3>2. OnePlace' /\ NothingLeft'
      BY <1>0, <2>1, <2>3 DEF OnePlace, NothingLeft
    <3> QED
      BY <3>1, <3>2
  <2>10. Sized' /\ Landed' /\ Settled'
    BY <1>0, <2>1, <2>3, <2>8 DEF Sized, Landed, Settled
  <2> QED
    BY <2>6, <2>7, <2>9, <2>10
<1> QED
  BY <1>2, <1>3

(* The hash's reply: a file that matches is complete, and nothing that     *)
(* could change it is left.                                                *)
LEMMA FinalisedInv ==
  ASSUME UploadInv, phase' = phase, NEW r \in replies, NEW same \in BOOLEAN,
         OnFinalised(r, same)
  PROVE  UploadInv'
<1> USE DEF UploadInv
<1> DEFINE u == r.id
<1>0. /\ r.op = "hash" /\ replies' = replies \ {r}
      /\ UNCHANGED <<fresh, hashed, ended, disk, overtaken>>
  BY DEF OnFinalised
<1>1. u \in Ids /\ r.was \in Seq(Nat) \union {None}
  BY <1>0, Replied DEF TransferTypeOK
<1>2. CASE uploads[u] = None
  BY <1>0, <1>2, ReplyDropped DEF OnFinalised
<1>3. CASE u \in Open /\ ~Matches(u, r.was, same)
  <2>1. AbandonUpload(u) /\ UNCHANGED <<sessionBytes, complete>>
    BY <1>3 DEF OnFinalised, Open
  <2>2. told' \in [Ids -> {"nothing", "complete", "error"}] /\ ended' \subseteq Ids
    BY <1>0, <2>1 DEF AbandonUpload, ReplyError, TransferTypeOK
  <2> QED
    BY <1>0, <1>3, <2>1, <2>2, AbandonInv DEF AbandonUpload
<1>4. CASE u \in Open /\ Matches(u, r.was, same)
  <2>1. /\ uploads' = [uploads EXCEPT ![u] = None]
        /\ sessionBytes' = sessionBytes + Len(r.was)
        /\ complete' = complete \union {u} /\ pool' = pool
        /\ told' = [told EXCEPT ![u] = "complete"]
    BY <1>4 DEF OnFinalised, Open, ReplyComplete
  <2>2. r.was \in Seq(Nat) /\ r.was # None /\ (u \in hashed => r.was = File(uploads[u].size))
    BY <1>1, <1>4 DEF Matches
  <2>3. uploads[u].size \in Sizes
    BY <1>4 DEF Sized
  <2>4. u \in hashed => /\ \A s \in Nat : Post("write", u, s) \notin pool
                        /\ overtaken \/ r.was = disk[u]
    BY <1>0, <1>4, <2>2 DEF Settled
  <2>6. u \notin fresh /\ phase # "none"
    BY <1>4 DEF Untouched, NothingLeft
  <2> HIDE DEF u
  <2>7. Open' = Open \ {u}
    BY <1>1, <2>1 DEF Open, TransferTypeOK
  <2>8. \A v \in Open \ {u} : uploads'[v] = uploads[v]
    BY <2>1 DEF Open, TransferTypeOK
  <2>9. TransferTypeOK'
    <3>1. uploads' \in [Ids -> Upload \union {None}]
      BY <1>1, <2>1 DEF TransferTypeOK
    <3>2. sessionBytes' \in Nat
      BY <2>1, <2>2 DEF TransferTypeOK
    <3>3. told' \in [Ids -> {"nothing", "complete", "error"}]
      BY <2>1 DEF TransferTypeOK
    <3> QED
      BY <1>0, <1>1, <2>1, <3>1, <3>2, <3>3 DEF TransferTypeOK
  <2>10. \A v \in Open, s \in Nat, ok \in BOOLEAN :
           WriteReply(v, s, ok) \in replies' <=> WriteReply(v, s, ok) \in replies
    BY <1>0, Replied
  <2>11. \A v \in Open : Writing(v)' = Writing(v)
    BY <2>1, <2>10, SameWriting
  <2>12. Untouched'
    BY <1>0, <2>1, <2>6, <2>7 DEF Untouched
  <2>13. Counted'
    BY <2>7, <2>8, <2>11 DEF Counted
  <2>14. OnePlace'
    BY <2>1, <2>7, <2>10 DEF OnePlace
  <2>16. Sized' /\ Landed' /\ Settled'
    BY <1>0, <2>1, <2>7, <2>8 DEF Sized, Landed, Settled
  <2>17. NothingLeft'
    <3>1. ASSUME NEW t \in pool
          PROVE  /\ ~t.live /\ t.op # "wipe" => t.id \notin Open \union complete'
                 /\ t.op = "delete" => t.id \notin Open \union complete'
                 /\ t.op = "write" => t.id \notin complete' \intersect hashed
      <4>1. t.id = u => (t.live /\ t.op # "delete") \/ t.op = "wipe"
        BY <1>4 DEF NothingLeft, u
      <4>2. t.live /\ t.id = u /\ u \in hashed => t.op # "write"
        BY <2>4, Posted DEF TransferTypeOK, Task
      <4> QED
        BY <4>1, <4>2, <2>1, <1>4 DEF NothingLeft
    <3> QED
      BY <1>0, <3>1, <2>1, <2>6, <2>7 DEF NothingLeft
  <2>18. CompleteIsIntact'
    BY <1>0, <2>1, <2>2, <2>3, <2>4 DEF CompleteIsIntact
  <2> QED
    BY <2>9, <2>12, <2>13, <2>14, <2>16, <2>17, <2>18
<1> QED
  BY <1>1, <1>2, <1>3, <1>4 DEF Open

(* A cancel abandons an upload that is known, and only says so otherwise. *)
LEMMA CancelInv ==
  ASSUME UploadInv, phase' = phase, NEW u \in Ids, HandleCancel(u)
  PROVE  UploadInv'
<1> USE DEF UploadInv
<1>0. UNCHANGED <<sessionBytes, fresh, hashed, ended, disk, replies, complete, overtaken>>
  BY DEF HandleCancel
<1>1. ended' \subseteq Ids
  BY <1>0 DEF TransferTypeOK
<1>2. CASE u \in Open
  <2>1. AbandonUpload(u)
    BY <1>2 DEF HandleCancel
  <2>2. told' \in [Ids -> {"nothing", "complete", "error"}]
    BY <2>1 DEF AbandonUpload, ReplyError, TransferTypeOK
  <2> QED
    BY <1>0, <1>1, <1>2, <2>1, <2>2, AbandonInv DEF AbandonUpload
<1>3. CASE u \notin Open
  <2>1. told' = [told EXCEPT ![u] = "error"] /\ UNCHANGED <<uploads, pool>>
    BY <1>3 DEF HandleCancel, ReplyError
  <2>2. Open' = Open
    BY <2>1 DEF Open
  <2>3. TransferTypeOK' /\ CompleteIsIntact'
    BY <1>0, <1>1, <2>1 DEF TransferTypeOK, CompleteIsIntact
  <2>4. Untouched' /\ NothingLeft' /\ OnePlace'
    BY <1>0, <2>1, <2>2 DEF Untouched, NothingLeft, OnePlace
  <2>5. Counted' /\ Sized' /\ Landed' /\ Settled'
    BY <1>0, <2>1, <2>2 DEF Counted, Sized, Landed, Settled, Writing
  <2> QED
    BY <2>3, <2>4, <2>5
<1> QED
  BY <1>2, <1>3

-----------------------------------------------------------------------------
(* The thread pool.                                                        *)

(* A write that was run leaves its chunk on its way, as a reply; nobody    *)
(* has found the declared file in the one it changes.                      *)
LEMMA AppendInv ==
  ASSUME UploadInv, phase' = phase, NEW t \in pool, pool' = pool \ {t}, AppendChunk(t),
         UNCHANGED <<uploads, sessionBytes, fresh, hashed, ended, told>>
  PROVE  UploadInv'
<1> USE DEF UploadInv
<1> DEFINE u == t.id
           q == t.seq
<1>0. /\ t.op = "write" /\ UNCHANGED <<complete, overtaken>> /\ Open' = Open
      /\ u \in Ids \ fresh /\ q \in Nat /\ t \in Task /\ t.live \in BOOLEAN
  BY DEF AppendChunk, Open, Untouched, TransferTypeOK, Task
<1>1. PICK ok \in BOOLEAN :
        /\ t.seq > 0 /\ disk[t.id] = None => ~ok
        /\ disk' = IF ~ok THEN disk
                   ELSE [disk EXCEPT ![t.id] = IF t.seq = 0 THEN <<0>>
                                               ELSE Append(@, t.seq)]
        /\ replies' = IF ~t.live THEN replies ELSE
             replies \union {[op |-> "write", id |-> t.id, seq |-> t.seq, ok |-> ok]}
  BY DEF AppendChunk
<1>2. replies' = IF ~t.live THEN replies ELSE replies \union {WriteReply(u, q, ok)}
  BY <1>1 DEF WriteReply
<1>3. disk' \in [Ids -> Seq(Nat) \union {None}] /\ \A v \in Ids : v # u => disk'[v] = disk[v]
  <2>1. disk[u] \in Seq(Nat) \union {None}
    BY <1>0 DEF TransferTypeOK
  <2>2. ok /\ q # 0 => Append(disk[u], q) \in Seq(Nat)
    BY <1>0, <1>1, <2>1
  <2>3. <<0>> \in Seq(Nat)
    OBVIOUS
  <2> QED
    BY <1>0, <1>1, <2>2, <2>3 DEF TransferTypeOK
<1>4. TransferTypeOK'
  BY <1>0, <1>2, <1>3, Replied DEF TransferTypeOK
<1>5. Untouched'
  BY <1>0, <1>2, <1>3, Replied DEF Untouched, TransferTypeOK
<1>6. ~t.live => u \notin Open \union complete
  BY <1>0 DEF NothingLeft
<1>7. t.live => t = Post("write", u, q)
  BY <1>0, Posted
<1> HIDE DEF u, q
<1>8. \A v \in Open : Writing(v)' = Writing(v)
  <2> SUFFICES ASSUME NEW v \in Open PROVE Writing(v)' = Writing(v)
    OBVIOUS
  <2>1. CASE ~t.live
    <3>1. \A s : Post("write", v, s) # t
      BY <2>1, Posted
    <3> QED
      BY <1>2, <2>1, <3>1 DEF Writing
  <2>2. CASE t.live
    <3>1. \A s : Post("write", v, s) \in pool' <=>
                   Post("write", v, s) \in pool /\ ~(v = u /\ s = q)
      BY <1>7, <2>2, Posted
    <3>2. \A s, o : WriteReply(v, s, o) \in replies' <=>
                   WriteReply(v, s, o) \in replies \/ (v = u /\ s = q /\ o = ok)
      BY <1>2, <2>2, Replied
    <3>3. Post("write", u, q) \in pool
      BY <1>7, <2>2
    <3>4. ok = TRUE \/ ok = FALSE
      OBVIOUS
    <3> QED
      BY <1>0, <3>1, <3>2, <3>3, <3>4 DEF Writing
  <2> QED
    BY <1>0, <2>1, <2>2
<1>9. Counted'
  BY <1>0, <1>8 DEF Counted
<1>10. OnePlace'
  <2> SUFFICES ASSUME NEW v \in Open, NEW s \in Nat
      PROVE  /\ Post("write", v, s) \in pool' =>
                  WriteReply(v, s, TRUE) \notin replies' /\ WriteReply(v, s, FALSE) \notin replies'
             /\ WriteReply(v, s, TRUE) \in replies' => WriteReply(v, s, FALSE) \notin replies'
    BY <1>0 DEF OnePlace
  <2>1. CASE ~t.live
    BY <1>2, <2>1 DEF OnePlace
  <2>2. CASE t.live
    <3>1. Post("write", u, q) \in pool /\ Post("write", u, q) \notin pool'
      BY <1>7, <2>2
    <3>2. \A o : WriteReply(v, s, o) \in replies' <=>
                   WriteReply(v, s, o) \in replies \/ (v = u /\ s = q /\ o = ok)
      BY <1>2, <2>2, Replied
    <3>3. CASE v = u /\ s = q
      <4>1. WriteReply(v, s, TRUE) \notin replies /\ WriteReply(v, s, FALSE) \notin replies
        BY <1>0, <3>1, <3>3 DEF OnePlace
      <4>2. CASE ok = TRUE
        BY <3>1, <3>2, <3>3, <4>1, <4>2
      <4>3. CASE ok = FALSE
        BY <3>1, <3>2, <3>3, <4>1, <4>3
      <4> QED
        BY <4>2, <4>3
    <3>4. CASE ~(v = u /\ s = q)
      BY <3>2, <3>4 DEF OnePlace
    <3> QED
      BY <3>3, <3>4
  <2> QED
    BY <1>0, <2>1, <2>2
<1>11. \A r \in replies' : r.op = "hash" => r \in replies
  BY <1>2, Replied
<1>12. Sized'
  BY <1>0 DEF Sized
<1>13. u \in Open => Post("write", u, q) \in pool /\ Post("write", u, q) \notin pool' /\ q < uploads[u].nextSeq
  <2> SUFFICES ASSUME u \in Open
               PROVE  /\ Post("write", u, q) \in pool /\ Post("write", u, q) \notin pool'
                      /\ q < uploads[u].nextSeq
    OBVIOUS
  <2>1. t = Post("write", u, q)
    BY <1>0, <1>6, <1>7
  <2>2. q \in Writing(u)
    BY <1>0, <2>1 DEF Writing
  <2> QED
    BY <2>1, <2>2 DEF Counted
<1>14. Landed'
  <2> SUFFICES ASSUME NEW v \in Open, disk'[v] # None, NEW i \in DOMAIN disk'[v]
               PROVE  /\ disk'[v][i] < uploads[v].nextSeq
                      /\ Post("write", v, disk'[v][i]) \notin pool'
    BY <1>0 DEF Landed
  <2>0. v \in Ids /\ disk[v] \in Seq(Nat) \union {None}
    BY DEF Open, TransferTypeOK
  <2>1. CASE disk'[v] = disk[v]
    BY <2>1 DEF Landed
  <2>2. CASE v = u /\ disk'[v] # disk[v]
    <3>1. \/ disk'[u] = <<0>> /\ q = 0
          \/ disk'[u] = Append(disk[u], q) /\ disk[u] # None
      <4>1. disk' = IF ~ok THEN disk
                    ELSE [disk EXCEPT ![u] = IF q = 0 THEN <<0>> ELSE Append(disk[u], q)]
        BY <1>1 DEF u, q
      <4>2. ok
        BY <2>2, <4>1
      <4>3. q # 0 => disk[u] # None
        BY <1>0, <1>1, <4>2 DEF u, q
      <4>4. CASE q = 0
        <5>1. disk' = [disk EXCEPT ![u] = <<0>>]
          BY <4>1, <4>2, <4>4
        <5>2. u \in DOMAIN disk
          BY <1>0 DEF TransferTypeOK
        <5>3. disk'[u] = <<0>>
          BY <5>1, <5>2, Zenon
        <5> QED
          BY <4>4, <5>3, Zenon
      <4>5. CASE q # 0
        <5>1. disk' = [disk EXCEPT ![u] = Append(disk[u], q)]
          BY <4>1, <4>2, <4>5
        <5> QED
          BY <1>0, <4>3, <4>5, <5>1 DEF TransferTypeOK
      <4> QED
        BY <4>4, <4>5
    <3>2. \/ disk'[u][i] = q
          \/ disk[u] # None /\ i \in DOMAIN disk[u] /\ disk'[u][i] = disk[u][i]
      <4>1. CASE disk'[u] = <<0>> /\ q = 0
        BY <2>2, <4>1
      <4>2. CASE disk'[u] = Append(disk[u], q) /\ disk[u] # None
        BY <1>0, <2>0, <2>2, <4>2
      <4> QED
        BY <3>1, <4>1, <4>2
    <3> QED
      BY <1>13, <2>2, <3>2 DEF Landed
  <2> QED
    BY <1>3, <2>0, <2>1, <2>2
<1>17. Settled'
  <2> SUFFICES ASSUME NEW r \in replies', r.op = "hash", r.id \in Open,
                      r.was # None, r.was = File(uploads[r.id].size)
               PROVE  /\ \A s \in Nat : Post("write", r.id, s) \notin pool'
                      /\ uploads[r.id].nextSeq = uploads[r.id].size
                      /\ overtaken \/ r.was = disk'[r.id]
    BY <1>0 DEF Settled
  <2>1. /\ \A s \in Nat : Post("write", r.id, s) \notin pool
        /\ uploads[r.id].nextSeq = uploads[r.id].size
        /\ overtaken \/ r.was = disk[r.id]
    BY <1>11 DEF Settled
  <2>2. r.id # u /\ r.id \in Ids
    BY <1>0, <1>13, <2>1 DEF Open
  <2> QED
    BY <1>3, <2>1, <2>2
<1>15. NothingLeft'
  <2>1. t.live => phase # "none"
    BY DEF NothingLeft
  <2> QED
    BY <1>0, <1>2, <2>1 DEF NothingLeft
<1>16. CompleteIsIntact'
  <2>1. u \notin complete \intersect hashed
    BY <1>0 DEF NothingLeft, u
  <2> QED
    BY <1>0, <1>3, <2>1 DEF CompleteIsIntact, TransferTypeOK
<1> QED
  BY <1>4, <1>5, <1>9, <1>10, <1>12, <1>14, <1>15, <1>16, <1>17

(* A hash reads the file as it is. *)
LEMMA HashInv ==
  ASSUME UploadInv, phase' = phase, NEW t \in pool, pool' = pool \ {t}, HashFile(t),
         UNCHANGED <<uploads, sessionBytes, fresh, hashed, ended, told>>
  PROVE  UploadInv'
<1> USE DEF UploadInv
<1> DEFINE h == [op |-> "hash", id |-> t.id, was |-> disk[t.id]]
<1>0. /\ t.op = "hash" /\ UNCHANGED <<disk, complete, overtaken>> /\ Open' = Open
      /\ t.id \in Ids \ fresh /\ t \in Task
  BY DEF HashFile, Open, Untouched, TransferTypeOK
<1>1. replies' = IF ~t.live THEN replies ELSE replies \union {h}
  BY DEF HashFile
<1>2. h.op = "hash" /\ h.id = t.id /\ h.was = disk[t.id] /\ h \in Reply
  BY <1>0 DEF Reply, TransferTypeOK
<1> HIDE DEF h
<1>3. \A v, s : Post("write", v, s) \in pool' <=> Post("write", v, s) \in pool
  BY <1>0, Posted
<1>4. \A v, s, ok : WriteReply(v, s, ok) \in replies' <=> WriteReply(v, s, ok) \in replies
  BY <1>1, <1>2, Replied
<1>5. TransferTypeOK' /\ CompleteIsIntact'
  BY <1>0, <1>1, <1>2 DEF TransferTypeOK, CompleteIsIntact
<1>6. Untouched'
  BY <1>0, <1>1, <1>2 DEF Untouched
<1>7. NothingLeft'
  BY <1>0, <1>1 DEF NothingLeft
<1>8. Counted' /\ OnePlace'
  <2>1. \A v : Writing(v)' = Writing(v)
    BY <1>3, <1>4 DEF Writing
  <2>2. Counted'
    BY <1>0, <2>1 DEF Counted
  <2>3. OnePlace'
    BY <1>0, <1>3, <1>4 DEF OnePlace
  <2> QED
    BY <2>2, <2>3
<1>9. Sized' /\ Landed'
  BY <1>0, <1>3 DEF Sized, Landed
<1>10. Settled'
  <2> SUFFICES ASSUME NEW r \in replies', r.op = "hash", r.id \in Open,
                      r.was # None, r.was = File(uploads[r.id].size)
               PROVE  /\ \A s \in Nat : Post("write", r.id, s) \notin pool
                      /\ uploads[r.id].nextSeq = uploads[r.id].size
                      /\ overtaken \/ r.was = disk[r.id]
    BY <1>0, <1>3 DEF Settled
  <2>1. CASE r \in replies
    BY <2>1 DEF Settled
  <2>2. CASE r = h
    <3> DEFINE u == t.id
               n == uploads[u].size
    <3>1. u \in Open /\ disk[u] = File(n) /\ r.was = disk[r.id] /\ r.id = u
      BY <1>2, <2>2
    <3>2. /\ n \in Nat /\ uploads[u].nextSeq \in Nat /\ uploads[u].nextSeq <= n
          /\ disk[u] # None
      BY <3>1, <1>0, OpenEntry DEF Sized
    <3> HIDE DEF u, n
    <3>3. \A s \in Nat : s < n => s < uploads[u].nextSeq /\ Post("write", u, s) \notin pool
      <4> SUFFICES ASSUME NEW s \in Nat, s < n
                   PROVE  s < uploads[u].nextSeq /\ Post("write", u, s) \notin pool
        OBVIOUS
      <4>1. s + 1 \in DOMAIN disk[u] /\ disk[u][s + 1] = s
        BY <3>1, <3>2 DEF File
      <4> QED
        BY <3>1, <3>2, <4>1 DEF Landed
    <3>4. uploads[u].nextSeq = n
      <4>1. CASE n = 0
        BY <3>2, <4>1
      <4>2. CASE n # 0
        <5>1. n - 1 \in Nat /\ n - 1 < n
          BY <3>2, <4>2
        <5>2. n - 1 < uploads[u].nextSeq
          BY <3>3, <5>1
        <5> QED
          BY <3>2, <5>2
      <4> QED
        BY <4>1, <4>2
    <3>5. \A s \in Nat : Post("write", u, s) \notin pool
      <4> SUFFICES ASSUME NEW s \in Nat, Post("write", u, s) \in pool PROVE FALSE
        OBVIOUS
      <4>1. s < n
        BY <3>1, <3>4 DEF Counted, Writing
      <4> QED
        BY <3>3, <4>1
    <3> QED
      BY <3>1, <3>4, <3>5 DEF n
  <2> QED
    BY <1>1, <2>1, <2>2
<1> QED
  BY <1>5, <1>6, <1>7, <1>8, <1>9, <1>10

(* A delete or a wipe finds no upload it could hurt, or is the one that    *)
(* came late.                                                              *)
LEMMA DeleteInv ==
  ASSUME UploadInv, phase' = phase, NEW t \in pool, pool' = pool \ {t},
         DeleteFile(t) \/ Wipe(t, phase # "none"),
         UNCHANGED <<uploads, sessionBytes, fresh, hashed, ended, told>>
  PROVE  UploadInv'
<1> USE DEF UploadInv
<1>0. /\ t.op \in {"delete", "wipe"} /\ UNCHANGED <<replies, complete>> /\ Open' = Open
      /\ overtaken' \in BOOLEAN /\ (overtaken => overtaken')
  BY DEF DeleteFile, Wipe, Open, TransferTypeOK
<1>1. \A v \in Open \union complete : overtaken' \/ disk'[v] = disk[v]
  <2>1. CASE DeleteFile(t)
    <3>1. t.id \notin Open \union complete
      BY <2>1 DEF NothingLeft, DeleteFile
    <3>2. Open \union complete \subseteq Ids
      BY DEF Open, TransferTypeOK
    <3> QED
      BY <2>1, <3>1, <3>2 DEF DeleteFile, TransferTypeOK
  <2>2. CASE Wipe(t, phase # "none")
    <3>1. phase = "none" => Open = {} /\ complete = {}
      BY DEF NothingLeft
    <3> QED
      BY <2>2, <3>1 DEF Wipe
  <2> QED
    BY <2>1, <2>2
<1>2. disk' \in [Ids -> Seq(Nat) \union {None}]
  BY DEF DeleteFile, Wipe, TransferTypeOK
<1>3. \A v, s : Post("write", v, s) \in pool' <=> Post("write", v, s) \in pool
  BY <1>0, Posted
<1>4. TransferTypeOK'
  BY <1>0, <1>2 DEF TransferTypeOK
<1>5. \A v \in Ids : disk'[v] = disk[v] \/ disk'[v] = None
  BY DEF DeleteFile, Wipe, TransferTypeOK
<1>6. Untouched' /\ NothingLeft' /\ Counted' /\ OnePlace'
  <2>1. Untouched'
    BY <1>0, <1>5 DEF Untouched, TransferTypeOK
  <2>2. NothingLeft'
    BY <1>0 DEF NothingLeft
  <2>3. Counted' /\ OnePlace'
    BY <1>0, <1>3 DEF Counted, OnePlace, Writing
  <2> QED
    BY <2>1, <2>2, <2>3
<1>7. Sized' /\ Landed'
  <2>1. Sized'
    BY <1>0 DEF Sized
  <2>2. \A v \in Open : v \in Ids
    BY DEF Open
  <2>3. Landed'
    BY <1>0, <1>3, <1>5, <2>2 DEF Landed
  <2> QED
    BY <2>1, <2>3
<1>8. Settled'
  BY <1>0, <1>1, <1>3 DEF Settled
<1>9. CompleteIsIntact'
  BY <1>0, <1>1 DEF CompleteIsIntact
<1> QED
  BY <1>4, <1>6, <1>7, <1>8, <1>9

(* The session ends: nothing is open, and what is left in the pool belongs *)
(* to nobody.                                                              *)
LEMMA DestroysInv ==
  ASSUME UploadInv, phase' = "none", ResetForNewSession
  PROVE  UploadInv'
<1> USE DEF UploadInv
<1>1. /\ Open' = {} /\ complete' = {} /\ ended' = {} /\ replies' = {}
      /\ UNCHANGED <<fresh, hashed, disk, overtaken>>
  BY DEF ResetForNewSession, Open
<1>2. ASSUME NEW p \in pool'
      PROVE  /\ p \in Task /\ ~p.live
             /\ p.op # "wipe" => \E t \in pool : p.op = t.op /\ p.id = t.id
  <2>1. CASE \E t \in pool : p = [t EXCEPT !.live = FALSE]
    BY <2>1 DEF Task, TransferTypeOK
  <2>2. CASE p = [Post("wipe", None, 0) EXCEPT !.live = FALSE]
    BY <2>2 DEF Task, Post
  <2> QED
    BY <2>1, <2>2 DEF ResetForNewSession
<1>3. TransferTypeOK'
  <2>1. /\ uploads' \in [Ids -> Upload \union {None}] /\ sessionBytes' \in Nat
        /\ told' \in [Ids -> {"nothing", "complete", "error"}]
    BY DEF ResetForNewSession
  <2> QED
    BY <1>1, <1>2, <2>1 DEF TransferTypeOK
<1>4. Untouched'
  BY <1>1, <1>2 DEF Untouched
<1>5. Counted' /\ OnePlace' /\ Sized' /\ Landed' /\ Settled' /\ CompleteIsIntact'
  BY <1>1 DEF Counted, OnePlace, Sized, Landed, Settled, CompleteIsIntact
<1>6. NothingLeft'
  BY <1>1, <1>2 DEF NothingLeft
<1> QED
  BY <1>3, <1>4, <1>5, <1>6

(* Every step keeps the transfers in order. *)
LEMMA UploadStep ==
  ASSUME UploadInv, [Next]_vars
  PROVE  UploadInv'
<1>1. CASE Ask
  <2>1. UNCHANGED <<uploadVars, phase>>
    BY <1>1 DEF Ask, RunJavaScriptDialog, RunBeforeUnloadDialog, AskViewer, RunDialog,
                LoginRequired, RunFileChooser, receiverVars
  <2> QED
    BY <2>1, UploadUnchanged
<1>2. CASE \E a \in Asks :
             \/ Send(a)
             \/ RequestDeadline(a) \/ SendFailed(a)
             \/ \E v \in {"yes", "no"} : OnMessage(a, v) \/ Response(a, v)
             \/ LoginPosted(a)
             \/ LoginDestroyed(a)
  <2>1. UNCHANGED <<uploadVars, phase>>
    BY <1>2 DEF Send, RequestDeadline, SendFailed, OnMessage, Response, LoginPosted,
                LoginDestroyed, receiverVars, controlVars
  <2> QED
    BY <2>1, UploadUnchanged
<1>3. CASE CancelDialogs \/ ChannelOpens \/ ChannelCloses \/ ReceiverDeadline
  <2>1. UNCHANGED <<uploadVars, phase>>
    BY <1>3 DEF CancelDialogs, ChannelOpens, ChannelCloses, ReceiverDeadline,
                ChooserDeadline, receiverVars, controlVars
  <2> QED
    BY <2>1, UploadUnchanged
<1>4. CASE RebuildNativeDataChannels \/ RearmDrains
  <2>1. UNCHANGED uploadVars /\ phase' # "none"
    BY <1>4 DEF RebuildNativeDataChannels, RearmDrains, receiverVars
  <2> QED
    BY <2>1, UploadUnchanged
<1>5. CASE ViewerUploads
  <2>1. phase' = phase /\ phase = "up"
    BY <1>5 DEF ViewerUploads, controlVars
  <2>2. PICK u \in Ids :
       \/ \E n \in Sizes, declares \in BOOLEAN : HandleStart(u, n, declares)
       \/ \E seq \in 0..MaxUploadBytes, ok \in BOOLEAN : HandleChunk(u, seq, ok)
       \/ HandleEnd(u)
       \/ HandleCancel(u)
    BY <1>5 DEF ViewerUploads
  <2> QED
    BY <2>1, <2>2, StartInv, ChunkInv, EndInv, CancelInv
<1>6. CASE RunPool
  <2>1. phase' = phase
    BY <1>6 DEF RunPool, controlVars
  <2>2. PICK t \in pool : PoolTask(t, phase # "none")
    BY <1>6 DEF RunPool
  <2>3. /\ pool' = pool \ {t} /\ UNCHANGED <<uploads, sessionBytes, fresh, hashed, ended, told>>
        /\ AppendChunk(t) \/ HashFile(t) \/ DeleteFile(t) \/ Wipe(t, phase # "none")
    BY <2>2 DEF PoolTask
  <2> QED
    BY <2>1, <2>3, AppendInv, HashInv, DeleteInv
<1>7. CASE PoolReplies
  <2>1. phase' = phase
    BY <1>7 DEF PoolReplies, controlVars
  <2>2. PICK r \in replies : OnChunkWritten(r) \/ \E same \in BOOLEAN : OnFinalised(r, same)
    BY <1>7 DEF PoolReplies
  <2> QED
    BY <2>1, <2>2, WrittenInv, FinalisedInv
<1>8. CASE RearmDestroys
  BY <1>8, DestroysInv DEF RearmDestroys
<1>9. CASE UNCHANGED vars
  BY <1>9, UploadUnchanged DEF vars, receiverVars, controlVars
<1> QED
  BY <1>1, <1>2, <1>3, <1>4, <1>5, <1>6, <1>7, <1>8, <1>9 DEF Next

(* Before the first session nothing is on its way. *)
LEMMA UploadInit ==
  ASSUME Init
  PROVE  UploadInv
<1>1. TransferTypeOK
  BY DEF Init, UploadsInit, TransferTypeOK
<1>2. Open = {}
  BY DEF Init, UploadsInit, Open
<1> QED
  BY <1>1, <1>2 DEF Init, UploadsInit, UploadInv, Untouched, Counted, OnePlace,
                    Sized, Landed, Settled, NothingLeft, CompleteIsIntact

(* A file that was reported complete is the one the viewer declared,       *)
(* whatever order the pool ran its tasks in (Page!CompleteIsIntact, on     *)
(* cb_file_upload_receiver.cc's writes, hash and deletes).                 *)
THEOREM PageCompleteIsIntact == Spec => []CompleteIsIntact
<1>1. Init => UploadInv
  BY UploadInit
<1>2. UploadInv /\ [Next]_vars => UploadInv'
  BY UploadStep
<1>3. UploadInv => CompleteIsIntact
  BY DEF UploadInv
<1> QED
  BY <1>1, <1>2, <1>3, PTL DEF Spec

-----------------------------------------------------------------------------
(* The questions.                                                          *)

(* A callback that is run for the first time. *)
LEMMA Given ==
  ASSUME NEW v
  PROVE  Give("blocked", v) = v /\ Give("withdrawn", v) = "withdrawn"
  BY DEF Give

(* Requests that leave pending_ run their callbacks: each finds its own    *)
(* page, a chooser's the page of the chooser that is parked.               *)
LEMMA CallbacksRun ==
  ASSUME AskInv, NEW S \in SUBSET pending, NEW v \in {"default", "yes", "no"},
         RunCallbacks(S, v), pending' = pending \ S, UNCHANGED <<kind, posted>>,
         v # "default" => \A a \in S : <<a, v>> \in said
  PROVE  /\ AskTypeOK' /\ BlockedIsHeld' /\ PendingWaits' /\ ParkedWaits' /\ PostedWaits'
         /\ \A a \in Asks : Moves(a)
<1> DEFINE cancels == v # "yes" /\ \E a \in S : kind[a] = "chooser"
<1> USE DEF AskInv
<1>1. /\ page' = [a \in Asks |->
            IF a \in S /\ kind[a] # "chooser" THEN Give(page[a], v)
            ELSE IF a = parked /\ cancels THEN Give(page[a], "default")
            ELSE page[a]]
      /\ IF cancels THEN parked' = None ELSE parked' = parked
  BY DEF RunCallbacks
<1> HIDE DEF cancels
<1>2. ASSUME NEW a \in Asks
      PROVE  \/ /\ a \in S /\ kind[a] # "chooser" /\ a # parked
                /\ \/ page[a] = "blocked" /\ page'[a] = v
                   \/ page[a] = "withdrawn" /\ page'[a] = "withdrawn"
             \/ /\ ~(a \in S /\ kind[a] # "chooser") /\ a = parked /\ cancels
                /\ page[a] = "blocked" /\ page'[a] = "default"
             \/ /\ ~(a \in S /\ kind[a] # "chooser") /\ ~(a = parked /\ cancels)
                /\ page'[a] = page[a]
  <2>1. CASE a \in S /\ kind[a] # "chooser"
    <3>0. a \in pending
      BY <2>1
    <3>a. page[a] \in {"blocked", "withdrawn"}
      BY <2>1, <3>0 DEF PendingWaits
    <3>b. page'[a] = Give(page[a], v)
      BY <1>1, <2>1
    <3>1. page[a] \in {"blocked", "withdrawn"} /\ page'[a] = Give(page[a], v)
      BY <3>a, <3>b
    <3>2. a # parked
      BY <2>1 DEF ParkedWaits
    <3> QED
      BY <2>1, <3>1, <3>2, Given
  <2>2. CASE ~(a \in S /\ kind[a] # "chooser") /\ a = parked /\ cancels
    <3>1. page[a] = "blocked" /\ page'[a] = Give(page[a], "default")
      BY <1>1, <2>2 DEF ParkedWaits
    <3> QED
      BY <2>2, <3>1, Given
  <2>3. CASE ~(a \in S /\ kind[a] # "chooser") /\ ~(a = parked /\ cancels)
    BY <1>1, <2>3
  <2> QED
    BY <2>1, <2>2, <2>3
<1>3. AskTypeOK'
  <2>1. \A a \in Asks : page'[a] \in {"idle", "blocked"} \union Outcomes
    BY <1>2 DEF AskTypeOK, Outcomes
  <2> QED
    BY <1>1, <2>1 DEF AskTypeOK
<1>4. BlockedIsHeld'
  <2> SUFFICES ASSUME NEW a \in Asks, page'[a] = "blocked" PROVE Held(a)'
    BY DEF BlockedIsHeld
  <2>1. ~(a \in S /\ kind[a] # "chooser") /\ ~(a = parked /\ cancels) /\ page[a] = "blocked"
    BY <1>2
  <2>2. Held(a)
    BY <2>1 DEF BlockedIsHeld
  <2> QED
    BY <1>1, <2>1, <2>2 DEF Held
<1>5. PendingWaits'
  BY <1>2 DEF PendingWaits, ParkedWaits, AskTypeOK
<1>6. ParkedWaits'
  BY <1>1, <1>2 DEF ParkedWaits, AskTypeOK
<1>7. PostedWaits'
  BY <1>2 DEF PostedWaits, ParkedWaits, AskTypeOK
<1>8. \A a \in Asks : Moves(a)
  BY <1>2 DEF Moves
<1> QED
  BY <1>3, <1>4, <1>5, <1>6, <1>7, <1>8

(* The parked chooser leaves the receiver, with an answer or without. *)
LEMMA ChooserLeaves ==
  ASSUME AskInv, NEW v \in {"default", "file"}, v = "file" => Offered, parked' = None,
         page' = IF parked = None THEN page ELSE [page EXCEPT ![parked] = Give(@, v)],
         UNCHANGED <<kind, posted>>, pending' = pending
  PROVE  /\ AskTypeOK' /\ BlockedIsHeld' /\ PendingWaits' /\ ParkedWaits' /\ PostedWaits'
         /\ \A a \in Asks : Moves(a)
<1> USE DEF AskInv
<1>1. ASSUME NEW a \in Asks
      PROVE  \/ a = parked /\ page[a] = "blocked" /\ page'[a] = v /\ kind[a] = "chooser"
             \/ a # parked /\ page'[a] = page[a]
  BY Given DEF AskTypeOK, ParkedWaits
<1>2. AskTypeOK'
  BY <1>1 DEF AskTypeOK, Outcomes
<1>3. BlockedIsHeld'
  BY <1>1 DEF BlockedIsHeld, Held
<1>4. PendingWaits'
  BY <1>1 DEF PendingWaits, AskTypeOK
<1>5. ParkedWaits'
  BY DEF ParkedWaits
<1>6. PostedWaits'
  BY <1>1 DEF PostedWaits, AskTypeOK
<1>7. \A a \in Asks : Moves(a)
  BY <1>1 DEF Moves
<1> QED
  BY <1>2, <1>3, <1>4, <1>5, <1>6, <1>7

(* A step that touches no question. *)
LEMMA AskUnchanged ==
  ASSUME AskInv, UNCHANGED <<parked, page, kind, pending, posted>>,
         phase' = phase \/ phase' = "up", inbound' \subseteq said'
  PROVE  AskInv' /\ \A a \in Asks : Moves(a)
<1>1. AskTypeOK' /\ PendingWaits' /\ ParkedWaits' /\ PostedWaits'
  BY DEF AskInv, AskTypeOK, PendingWaits, ParkedWaits, PostedWaits
<1>2. BlockedIsHeld'
  BY DEF AskInv, BlockedIsHeld, Held
<1> QED
  BY <1>1, <1>2 DEF AskInv, Moves

(* A question is put: asked on the control channel, posted, parked or      *)
(* answered at once.                                                       *)
LEMMA QuestionPut ==
  ASSUME AskInv, Ask
  PROVE  AskInv' /\ \A a \in Asks : Moves(a)
<1> USE DEF AskInv
<1>0. UNCHANGED <<phase, inbound, said>>
  BY DEF Ask, RunJavaScriptDialog, RunBeforeUnloadDialog, AskViewer, RunDialog,
         LoginRequired, RunFileChooser
<1>1. PICK a \in Asks : RunDialog(a) \/ LoginRequired(a)
                          \/ \E supported \in BOOLEAN : RunFileChooser(a, supported)
  BY DEF Ask, RunJavaScriptDialog, RunBeforeUnloadDialog, AskViewer
<1>2. /\ page[a] = "idle" /\ a \notin pending /\ a \notin posted /\ a # parked /\ a # None
  <2>1. page[a] = "idle"
    BY <1>1 DEF RunDialog, LoginRequired, RunFileChooser
  <2>2. a \notin pending
    BY <2>1 DEF PendingWaits
  <2>3. a \notin posted
    BY <2>1 DEF PostedWaits
  <2>4. a # None
    OBVIOUS
  <2>5. a # parked
    BY <2>1, <2>4 DEF ParkedWaits
  <2> QED
    BY <2>1, <2>2, <2>3, <2>4, <2>5
<1>3. ASSUME NEW k \in Kinds, kind' = [kind EXCEPT ![a] = k],
             NEW v \in {"blocked", "default"}, page' = [page EXCEPT ![a] = v],
             parked' = parked,
             \/ v = "default" /\ UNCHANGED <<pending, posted>>
             \/ v = "blocked" /\ k # "chooser" /\ pending' = pending \union {a}
                  /\ posted' = posted /\ phase = "up"
             \/ v = "blocked" /\ k = "login" /\ pending' = pending
                  /\ posted' = posted \union {a}
      PROVE  AskInv' /\ \A b \in Asks : Moves(b)
  <2>1. /\ page'[a] = v /\ kind'[a] = k
        /\ \A b \in Asks : b # a => page'[b] = page[b] /\ kind'[b] = kind[b]
    BY <1>3 DEF AskTypeOK
  <2>2. AskTypeOK'
    <3>1. page' \in [Asks -> {"idle", "blocked"} \union Outcomes]
      BY <1>3, <2>1 DEF AskTypeOK, Outcomes
    <3>2. kind' \in [Asks -> Kinds \union {None}]
      BY <1>3 DEF AskTypeOK
    <3> QED
      BY <1>3, <3>1, <3>2 DEF AskTypeOK
  <2>3. BlockedIsHeld'
    BY <1>3, <2>1 DEF BlockedIsHeld, Held
  <2>4. PendingWaits'
    BY <1>2, <1>3, <2>1 DEF PendingWaits, AskTypeOK
  <2>5. ParkedWaits'
    BY <1>2, <1>3, <2>1 DEF ParkedWaits, AskTypeOK
  <2>6. PostedWaits'
    BY <1>2, <1>3, <2>1 DEF PostedWaits, AskTypeOK
  <2>7. phase' # "up" => pending' = {}
    BY <1>0, <1>3
  <2>8. \A b \in Asks : Moves(b)
    BY <1>2, <1>3, <2>1 DEF Moves
  <2> QED
    BY <1>0, <2>2, <2>3, <2>4, <2>5, <2>6, <2>7, <2>8
<1>4. CASE RunDialog(a)
  <2>1. "dialog" \in Kinds
    BY DEF Kinds
  <2> QED
    BY <1>3, <1>4, <2>1 DEF RunDialog, AskOrDefault, SendRequest, Published, receiverVars
<1>5. CASE LoginRequired(a)
  <2>1. "login" \in Kinds
    BY DEF Kinds
  <2> QED
    BY <1>3, <1>5, <2>1 DEF LoginRequired, SendRequest, Published, receiverVars
<1>6. ASSUME NEW supported \in BOOLEAN, RunFileChooser(a, supported)
      PROVE  AskInv' /\ \A b \in Asks : Moves(b)
  <2>1. kind' = [kind EXCEPT ![a] = "chooser"] /\ posted' = posted
    BY <1>6 DEF RunFileChooser
  <2>2. kind'[a] = "chooser" /\ \A b \in Asks : b # a => kind'[b] = kind[b]
    BY <2>1 DEF AskTypeOK
  <2>3. kind' \in [Asks -> Kinds \union {None}]
    BY <2>1 DEF AskTypeOK, Kinds
  <2>4. CASE phase = "none" \/ ~supported
    <3>1. "chooser" \in Kinds
      BY DEF Kinds
    <3> QED
      BY <1>3, <1>6, <2>4, <3>1 DEF RunFileChooser
  <2>5. ASSUME NEW v \in {"blocked", "default"}, page'[a] = v,
               \A b \in Asks : b # a => \/ b # parked /\ page'[b] = page[b]
                                        \/ b = parked /\ page'[b] = "default",
               page' \in [Asks -> {"idle", "blocked"} \union Outcomes],
               \/ v = "blocked" /\ parked' = a /\ pending' = pending \union {a} /\ phase = "up"
               \/ v = "default" /\ parked' = None /\ pending' = pending
        PROVE  AskInv' /\ \A b \in Asks : Moves(b)
    <3>1. AskTypeOK'
      BY <2>1, <2>3, <2>5 DEF AskTypeOK
    <3>2. BlockedIsHeld'
      BY <2>1, <2>2, <2>5 DEF BlockedIsHeld, Held
    <3>3. PendingWaits'
      BY <1>2, <2>2, <2>5 DEF PendingWaits, ParkedWaits, AskTypeOK
    <3>4. ParkedWaits'
      BY <2>2, <2>5 DEF ParkedWaits
    <3>5. PostedWaits'
      BY <1>2, <2>1, <2>2, <2>5 DEF PostedWaits, ParkedWaits, AskTypeOK
    <3>6. \A b \in Asks : Moves(b)
      BY <1>2, <2>5 DEF Moves, ParkedWaits
    <3> QED
      BY <1>0, <2>5, <3>1, <3>2, <3>3, <3>4, <3>5, <3>6
  <2>6. CASE ~(phase = "none" \/ ~supported) /\ Published /\ IsOpen
    <3>1. /\ parked' = a /\ pending' = pending \union {a} /\ phase = "up"
          /\ page' = [b \in Asks |-> IF b = a THEN "blocked"
                             ELSE IF b = parked THEN Give(page[b], "default")
                             ELSE page[b]]
      BY <1>6, <2>6 DEF RunFileChooser, BeginChooser, Published
    <3>2. ASSUME NEW b \in Asks, b # a
          PROVE  \/ b # parked /\ page'[b] = page[b]
                 \/ b = parked /\ page'[b] = "default"
      BY <1>2, <3>1, <3>2, Given DEF ParkedWaits
    <3>3. page'[a] = "blocked"
      BY <3>1
    <3>4. page' \in [Asks -> {"idle", "blocked"} \union Outcomes]
      BY <3>1, <3>2, <3>3 DEF AskTypeOK, Outcomes
    <3> QED
      BY <2>5, <3>1, <3>2, <3>3, <3>4
  <2>7. CASE ~(phase = "none" \/ ~supported) /\ ~(Published /\ IsOpen)
    <3>1. /\ parked' = None /\ pending' = pending
          /\ page' = [b \in Asks |-> IF b \in {a, parked} THEN "default" ELSE page[b]]
      BY <1>6, <2>7 DEF RunFileChooser
    <3>2. page' \in [Asks -> {"idle", "blocked"} \union Outcomes]
      BY <3>1 DEF AskTypeOK, Outcomes
    <3> QED
      BY <2>5, <3>1, <3>2
  <2> QED
    BY <2>4, <2>6, <2>7
<1> QED
  BY <1>1, <1>4, <1>5, <1>6

(* Every step keeps the callbacks in order and moves each question as the  *)
(* promise allows.                                                         *)
LEMMA AskStep ==
  ASSUME AskInv, TransferTypeOK, [Next]_vars
  PROVE  AskInv' /\ \A a \in Asks : Moves(a)
<1> DEFINE Parts == AskTypeOK /\ BlockedIsHeld /\ PendingWaits /\ ParkedWaits /\ PostedWaits
<1>0. ASSUME Parts', inbound' \subseteq said', phase' # "up" => pending' = {}
      PROVE  AskInv'
  BY <1>0 DEF AskInv
<1>00. (phase # "up" => pending = {}) /\ inbound \subseteq said /\ pending \subseteq Asks
  BY DEF AskInv, AskTypeOK
<1> HIDE DEF Parts
<1>1. CASE Ask
  BY <1>1, QuestionPut
<1>2. CASE \/ \E a \in Asks : Send(a)
           \/ \E a \in Asks, v \in {"yes", "no"} : OnMessage(a, v)
           \/ ChannelOpens \/ ChannelCloses \/ RebuildNativeDataChannels \/ UNCHANGED vars
  <2>1. UNCHANGED <<parked, page, kind, pending, posted>>
    BY <1>2 DEF Send, OnMessage, ChannelOpens, ChannelCloses, RebuildNativeDataChannels,
                vars, receiverVars, controlVars
  <2>2. phase' = phase \/ phase' = "up"
    BY <1>2 DEF Send, OnMessage, ChannelOpens, ChannelCloses, RebuildNativeDataChannels,
                vars, controlVars
  <2>3. inbound' \subseteq said'
    BY <1>00, <1>2 DEF Send, OnMessage, ChannelOpens, ChannelCloses, RebuildNativeDataChannels,
                vars, controlVars
  <2> QED
    BY <2>1, <2>2, <2>3, AskUnchanged
<1>3. ASSUME NEW S \in SUBSET pending, NEW v \in {"default", "yes", "no"},
             RunCallbacks(S, v), pending' = pending \ S, UNCHANGED <<kind, posted>>,
             v # "default" => \A a \in S : <<a, v>> \in said,
             phase' = phase \/ pending' = {}, inbound' \subseteq said'
      PROVE  AskInv' /\ \A a \in Asks : Moves(a)
  <2>1. Parts' /\ \A a \in Asks : Moves(a)
    BY <1>3, CallbacksRun DEF Parts
  <2> QED
    BY <1>0, <1>00, <1>3, <2>1
<1>4. ASSUME NEW a \in Asks, NEW v \in {"default", "yes", "no"}, ResolvePending(a, v),
             UNCHANGED <<kind, posted, phase>>, v # "default" => <<a, v>> \in said,
             inbound' \subseteq said'
      PROVE  AskInv' /\ \A b \in Asks : Moves(b)
  <2>1. CASE a \in pending
    <3>1. RunCallbacks({a}, v) /\ pending' = pending \ {a}
      BY <1>4, <2>1 DEF ResolvePending
    <3> QED
      BY <1>3, <1>4, <2>1, <3>1
  <2>2. CASE a \notin pending
    <3>1. UNCHANGED <<pending, parked, page>>
      BY <1>4, <2>2 DEF ResolvePending
    <3> QED
      BY <1>4, <3>1, AskUnchanged
  <2> QED
    BY <2>1, <2>2
<1>5. CASE \E a \in Asks : RequestDeadline(a) \/ SendFailed(a)
  <2>1. PICK a \in Asks : RequestDeadline(a) \/ SendFailed(a)
    BY <1>5
  <2>2. ResolvePending(a, "default") /\ UNCHANGED <<kind, posted, phase, inbound, said>>
    BY <2>1 DEF RequestDeadline, SendFailed
  <2> QED
    BY <1>00, <1>4, <2>2
<1>6. CASE \E a \in Asks, v \in {"yes", "no"} : Response(a, v)
  <2>1. PICK a \in Asks, v \in {"yes", "no"} : Response(a, v)
    BY <1>6
  <2>2. /\ ResolvePending(a, v) /\ UNCHANGED <<kind, posted, phase, said>>
        /\ <<a, v>> \in inbound /\ inbound' \subseteq inbound
    BY <2>1 DEF Response
  <2> QED
    BY <1>00, <1>4, <2>2
<1>7. CASE CancelDialogs \/ RearmDrains
  <2>1. /\ RunCallbacks(pending, "default") /\ pending' = {}
        /\ UNCHANGED <<kind, posted, inbound, said>>
    BY <1>7 DEF CancelDialogs, RearmDrains, CancelAllPending
  <2>2. pending' = pending \ pending
    BY <2>1
  <2> QED
    BY <1>00, <1>3, <2>1, <2>2
<1>8. CASE \E a \in Asks : LoginPosted(a)
  <2>1. PICK a \in Asks : LoginPosted(a)
    BY <1>8
  <2>2. /\ a \in posted /\ posted' = posted \ {a} /\ page' = [page EXCEPT ![a] = Give(@, "default")]
        /\ UNCHANGED <<parked, kind, pending, phase, inbound, said>>
    BY <2>1 DEF LoginPosted, receiverVars
  <2>3. a \notin pending /\ a # parked /\ page[a] \in {"blocked", "withdrawn"}
    BY <2>2 DEF AskInv, PostedWaits, ParkedWaits
  <2>4. /\ page'[a] \in {"default", "withdrawn"}
        /\ page[a] = "blocked" \/ page'[a] = page[a]
        /\ \A b \in Asks : b # a => page'[b] = page[b]
    BY <2>2, <2>3, Given DEF AskInv, AskTypeOK
  <2>5. AskTypeOK'
    BY <2>2, <2>4 DEF AskInv, AskTypeOK, Outcomes
  <2>6. BlockedIsHeld'
    BY <2>2, <2>4 DEF AskInv, BlockedIsHeld, Held
  <2>7. PendingWaits' /\ ParkedWaits' /\ PostedWaits'
    BY <2>2, <2>3, <2>4 DEF AskInv, PendingWaits, ParkedWaits, PostedWaits, AskTypeOK
  <2>8. \A b \in Asks : Moves(b)
    BY <2>4 DEF Moves
  <2> QED
    BY <1>00, <2>2, <2>5, <2>6, <2>7, <2>8 DEF AskInv
<1>9. CASE \E a \in Asks : LoginDestroyed(a)
  <2>1. PICK a \in Asks : LoginDestroyed(a)
    BY <1>9
  <2>2. /\ kind[a] = "login" /\ page[a] = "blocked" /\ page' = [page EXCEPT ![a] = "withdrawn"]
        /\ UNCHANGED <<parked, kind, pending, posted, phase, inbound, said>>
    BY <2>1 DEF LoginDestroyed, receiverVars, controlVars
  <2>3. a # parked \/ parked = None
    BY <2>2 DEF AskInv, ParkedWaits
  <2>4. /\ page'[a] = "withdrawn" /\ \A b \in Asks : b # a => page'[b] = page[b]
    BY <2>2 DEF AskInv, AskTypeOK
  <2>5. AskTypeOK'
    BY <2>2, <2>4 DEF AskInv, AskTypeOK, Outcomes
  <2>6. BlockedIsHeld'
    BY <2>2, <2>4 DEF AskInv, BlockedIsHeld, Held
  <2>7. PendingWaits' /\ ParkedWaits' /\ PostedWaits'
    BY <2>2, <2>3, <2>4 DEF AskInv, PendingWaits, ParkedWaits, PostedWaits, AskTypeOK
  <2>8. \A b \in Asks : Moves(b)
    BY <2>2, <2>4 DEF Moves
  <2> QED
    BY <1>00, <2>2, <2>5, <2>6, <2>7, <2>8 DEF AskInv
<1>10. ASSUME NEW v \in {"default", "file"}, v = "file" => Offered, parked' = None,
              page' = IF parked = None THEN page ELSE [page EXCEPT ![parked] = Give(@, v)],
              UNCHANGED <<kind, posted>>, pending' = pending,
              phase' = phase \/ pending' = {}, inbound' \subseteq said'
       PROVE  AskInv' /\ \A a \in Asks : Moves(a)
  <2>1. Parts' /\ \A a \in Asks : Moves(a)
    BY <1>10, ChooserLeaves DEF Parts
  <2> QED
    BY <1>0, <1>00, <1>10, <2>1
<1>11. CASE ReceiverDeadline
  BY <1>00, <1>10, <1>11 DEF ReceiverDeadline, ChooserDeadline, CancelChooser, controlVars
<1>12. CASE ViewerUploads
  <2>0. UNCHANGED controlVars
    BY <1>12 DEF ViewerUploads
  <2>1. PICK u \in Ids :
       \/ \E n \in Sizes, declares \in BOOLEAN : HandleStart(u, n, declares)
       \/ \E seq \in 0..MaxUploadBytes, ok \in BOOLEAN : HandleChunk(u, seq, ok)
       \/ HandleEnd(u)
       \/ HandleCancel(u)
    BY <1>12 DEF ViewerUploads
  <2>2. CASE HandleCancel(u)
    <3>1. CancelChooser
      BY <2>2 DEF HandleCancel
    <3> QED
      BY <1>00, <1>10, <2>0, <3>1 DEF CancelChooser, controlVars
  <2>3. CASE ~HandleCancel(u)
    <3>1. UNCHANGED <<parked, page>>
      BY <2>1, <2>3 DEF HandleStart, HandleChunk, HandleEnd
    <3> QED
      BY <1>00, <2>0, <3>1, AskUnchanged DEF controlVars
  <2> QED
    BY <2>2, <2>3
<1>13. CASE RunPool
  <2>1. UNCHANGED <<parked, page, controlVars>>
    BY <1>13 DEF RunPool, PoolTask
  <2> QED
    BY <1>00, <2>1, AskUnchanged DEF controlVars
<1>14. CASE PoolReplies
  <2>0. UNCHANGED controlVars
    BY <1>14 DEF PoolReplies
  <2>1. PICK r \in replies : OnChunkWritten(r) \/ \E same \in BOOLEAN : OnFinalised(r, same)
    BY <1>14 DEF PoolReplies
  <2>2. CASE UNCHANGED <<parked, page>>
    BY <1>00, <2>0, <2>2, AskUnchanged DEF controlVars
  <2>3. CASE ResolveChooserWith /\ uploads[r.id] # None /\ r.id \in Ids
    <3>1. Offered
      BY <2>3 DEF Offered, Open
    <3> QED
      BY <1>00, <1>10, <2>0, <2>3, <3>1 DEF ResolveChooserWith, controlVars
  <2>4. r.id \in Ids
    BY Replied DEF TransferTypeOK
  <2>5. UNCHANGED <<parked, page>> \/ (ResolveChooserWith /\ uploads[r.id] # None)
    BY <2>1 DEF OnChunkWritten, OnFinalised
  <2> QED
    BY <2>2, <2>3, <2>4, <2>5
<1>15. CASE RearmDestroys
  <2>1. /\ CancelChooser /\ pending' = {} /\ inbound' = {} /\ pending = {}
        /\ UNCHANGED <<kind, posted>>
    BY <1>00, <1>15 DEF RearmDestroys
  <2> QED
    BY <1>10, <2>1 DEF CancelChooser
<1> QED
  BY <1>1, <1>2, <1>5, <1>6, <1>7, <1>8, <1>9, <1>11, <1>12, <1>13, <1>14, <1>15 DEF Next

(* The reply of a write was counted. *)
LEMMA ReplyCounted ==
  ASSUME UploadInv, NEW r \in replies, r.op = "write", r.id \in Open
  PROVE  uploads[r.id].writes # 0
<1>1. /\ r.seq \in Nat /\ r.ok \in BOOLEAN /\ r = WriteReply(r.id, r.seq, r.ok)
  BY Replied DEF UploadInv, TransferTypeOK
<1>2. r.seq \in Writing(r.id)
  <2>1. CASE r.ok = TRUE
    BY <1>1, <2>1 DEF Writing
  <2>2. CASE r.ok = FALSE
    BY <1>1, <2>2 DEF Writing
  <2> QED
    BY <1>1, <2>1, <2>2
<1>3. IsFiniteSet(Writing(r.id)) /\ Cardinality(Writing(r.id)) = uploads[r.id].writes
  BY DEF UploadInv, Counted
<1> QED
  BY <1>2, <1>3, FS_EmptySet

(* What the viewer was heard to say is not unsaid before it leaves. *)
LEMMA HeardStep ==
  ASSUME UploadInv, [Next]_vars
  PROVE  Heard \subseteq Heard' \/ Heard' = {}
<1>0. TransferTypeOK
  BY DEF UploadInv
<1>1. ASSUME said \subseteq said', Offered => Offered'
      PROVE  Heard \subseteq Heard'
  BY <1>1 DEF Heard
<1>2. ASSUME said \subseteq said', UNCHANGED <<uploads, fresh, ended, told>>
      PROVE  Heard \subseteq Heard'
  BY <1>1, <1>2 DEF Offered, Open
<1>3. CASE Ask
  BY <1>2, <1>3 DEF Ask, RunJavaScriptDialog, RunBeforeUnloadDialog, AskViewer, RunDialog,
                LoginRequired, RunFileChooser, receiverVars, uploadVars
<1>4. CASE \E a \in Asks :
             \/ Send(a)
             \/ RequestDeadline(a) \/ SendFailed(a)
             \/ \E v \in {"yes", "no"} : OnMessage(a, v) \/ Response(a, v)
             \/ LoginPosted(a)
             \/ LoginDestroyed(a)
  BY <1>2, <1>4 DEF Send, RequestDeadline, SendFailed, OnMessage, Response, LoginPosted,
                LoginDestroyed, receiverVars, uploadVars, controlVars
<1>5. CASE CancelDialogs \/ ChannelOpens \/ ChannelCloses \/ ReceiverDeadline
             \/ RebuildNativeDataChannels \/ RearmDrains \/ UNCHANGED vars
  BY <1>2, <1>5 DEF CancelDialogs, ChannelOpens, ChannelCloses, ReceiverDeadline,
       ChooserDeadline, RebuildNativeDataChannels, RearmDrains, vars, receiverVars,
       uploadVars, controlVars
<1>6. CASE RunPool
  BY <1>2, <1>6 DEF RunPool, PoolTask, controlVars
<1>7. ASSUME NEW u \in Ids, said' = said, ended \subseteq ended',
             (told'[u] # "nothing" /\ u \notin fresh') \/ u \in ended' \/ uploads'[u] # None
      PROVE  Heard \subseteq Heard'
  BY <1>1, <1>7 DEF Offered, Open
<1>8. CASE ViewerUploads
  <2>0. said' = said
    BY <1>8 DEF ViewerUploads, controlVars
  <2>1. PICK u \in Ids :
       \/ \E n \in Sizes, declares \in BOOLEAN : HandleStart(u, n, declares)
       \/ \E seq \in 0..MaxUploadBytes, ok \in BOOLEAN : HandleChunk(u, seq, ok)
       \/ HandleEnd(u)
       \/ HandleCancel(u)
    BY <1>8 DEF ViewerUploads
  <2>2. told \in [Ids -> {"nothing", "complete", "error"}] /\ uploads \in [Ids -> Upload \union {None}]
    BY <1>0 DEF TransferTypeOK
  <2>3. ASSUME NEW n \in Sizes, NEW declares, HandleStart(u, n, declares)
        PROVE  Heard \subseteq Heard'
    <3> DEFINE e == [size |-> n, nextSeq |-> 0, writes |-> 0, endPending |-> FALSE]
    <3>1. e \in Upload
      BY DEF Upload
    <3>2. e # None
      BY <3>1
    <3>3. /\ ended' = ended /\ u \notin fresh'
          /\ \/ told' = [told EXCEPT ![u] = "error"]
             \/ uploads' = [uploads EXCEPT ![u] = e]
      BY <2>3 DEF HandleStart, ReplyError
    <3> HIDE DEF e
    <3>4. told'[u] # "nothing" \/ uploads'[u] # None
      BY <2>2, <3>2, <3>3
    <3> QED
      BY <1>7, <2>0, <3>3, <3>4
  <2>4. ASSUME NEW seq, NEW ok, HandleChunk(u, seq, ok) PROVE Heard \subseteq Heard'
    <3>1. ended' = ended /\ u \in Open /\ u \notin fresh' /\ (AbandonUpload(u) \/ Accept(u))
      BY <2>4 DEF HandleChunk, UploadInv, Untouched
    <3>2. CASE AbandonUpload(u)
      <4>1. told'[u] = "error"
        BY <2>2, <3>2 DEF AbandonUpload, ReplyError
      <4> QED
        BY <1>7, <2>0, <3>1, <4>1
    <3>3. CASE Accept(u)
      <4>1. uploads'[u] = [uploads[u] EXCEPT !.nextSeq = @ + 1, !.writes = @ + 1]
        BY <2>2, <3>3 DEF Accept
      <4>2. uploads'[u] \in Upload
        BY <1>0, <4>1, <3>1, OpenEntry, Entries
      <4>3. uploads'[u] # None
        BY <4>2
      <4> QED
        BY <1>7, <2>0, <3>1, <4>3
    <3> QED
      BY <3>1, <3>2, <3>3
  <2>5. CASE HandleEnd(u)
    <3>1. ended' = ended \union {u}
      BY <2>5 DEF HandleEnd
    <3> QED
      BY <1>7, <2>0, <3>1
  <2>6. CASE HandleCancel(u) /\ u \in Open
    <3>1. ended' = ended /\ u \notin fresh' /\ AbandonUpload(u)
      BY <2>6 DEF HandleCancel, UploadInv, Untouched
    <3>2. told'[u] = "error"
      BY <2>2, <3>1 DEF AbandonUpload, ReplyError
    <3> QED
      BY <1>7, <2>0, <3>1, <3>2
  <2>7. CASE HandleCancel(u) /\ u \notin Open
    <3>1. UNCHANGED <<ended, fresh, uploads>> /\ told' = [told EXCEPT ![u] = "error"]
      BY <2>7 DEF HandleCancel, ReplyError
    <3>2. \A v \in Ids : told[v] # "nothing" => told'[v] # "nothing"
      BY <2>2, <3>1
    <3>3. Offered => Offered'
      BY <3>1, <3>2 DEF Offered, Open
    <3> QED
      BY <1>1, <2>0, <3>3
  <2> QED
    BY <2>1, <2>3, <2>4, <2>5, <2>6, <2>7
<1>9. CASE PoolReplies
  <2>0. said' = said
    BY <1>9 DEF PoolReplies, controlVars
  <2>1. PICK r \in replies : OnChunkWritten(r) \/ \E same \in BOOLEAN : OnFinalised(r, same)
    BY <1>9 DEF PoolReplies
  <2>2. /\ told \in [Ids -> {"nothing", "complete", "error"}]
        /\ uploads \in [Ids -> Upload \union {None}] /\ r.id \in Ids
    BY <1>0, Replied DEF TransferTypeOK
  <2>3. ended' = ended /\ fresh' = fresh /\ r.id \notin fresh
    BY <2>1 DEF OnChunkWritten, OnFinalised, UploadInv, Untouched
  <2>4. CASE UNCHANGED <<uploads, told>>
    BY <1>2, <2>0, <2>3, <2>4
  <2>5. CASE \E v \in {"error", "complete"} : told' = [told EXCEPT ![r.id] = v]
    <3>1. told'[r.id] # "nothing"
      BY <2>2, <2>5
    <3> QED
      BY <1>7, <2>0, <2>2, <2>3, <3>1
  <2>6. CASE r.op = "write" /\ uploads[r.id] # None /\ uploads' = [uploads EXCEPT ![r.id].writes = @ - 1]
               /\ told' = told
    <3>1. r.id \in Open /\ uploads[r.id] \in Upload /\ uploads[r.id].writes # 0
      BY <2>2, <2>6, ReplyCounted DEF Open
    <3>2. uploads'[r.id] = [uploads[r.id] EXCEPT !.writes = @ - 1]
      BY <2>2, <2>6
    <3>3. uploads'[r.id] \in Upload
      BY <3>1, <3>2, Entries
    <3>4. uploads'[r.id] # None
      BY <3>3
    <3> QED
      BY <1>7, <2>0, <2>2, <2>3, <3>4
  <2> QED
    BY <2>1, <2>4, <2>5, <2>6 DEF OnChunkWritten, OnFinalised, AbandonUpload, ReplyError,
                                  ReplyComplete
<1>10. CASE RearmDestroys
  <2>1. said' = {} /\ ended' = {} /\ uploads' = [u \in Ids |-> None]
        /\ told' = [u \in Ids |-> "nothing"]
    BY <1>10 DEF RearmDestroys, ResetForNewSession
  <2>2. ~Offered'
    BY <2>1 DEF Offered, Open
  <2> QED
    BY <2>1, <2>2 DEF Heard
<1> QED
  BY <1>3, <1>4, <1>5, <1>6, <1>8, <1>9, <1>10 DEF Next

-----------------------------------------------------------------------------
(* The promise.                                                            *)

(* What Page promises of a question, step by step: it is put once and      *)
(* answered once, by the browser's default or with what the viewer who is  *)
(* there has said, for any number of questions, requests in flight, and    *)
(* sessions (the safety half of Page!KeepsPromise; cb_control_channel.cc,  *)
(* cb_login_delegate.cc, cb_file_upload_receiver.cc).                      *)
THEOREM PageAnswersOnce == Spec => Promise!AnswersOnce
<1> DEFINE I == UploadInv /\ AskInv
<1>1. Init => I
  <2> SUFFICES ASSUME Init PROVE I
    OBVIOUS
  <2>3. UploadInv
    BY UploadInit
  <2>4. AskInv
    BY DEF Init, UploadsInit, AskInv, AskTypeOK, BlockedIsHeld, PendingWaits, ParkedWaits,
           PostedWaits
  <2> QED
    BY <2>3, <2>4
<1>2. I /\ [Next]_vars => I'
  BY UploadStep, AskStep DEF UploadInv
<1>3. Init => Promise!Init
  <2> SUFFICES ASSUME Init PROVE Promise!Init
    OBVIOUS
  <2>1. ~Offered
    BY DEF Init, UploadsInit, Offered, Open
  <2>2. QuestionState = [a \in Asks |-> "idle"]
    BY DEF Init, QuestionState
  <2>3. Heard = {}
    BY <2>1 DEF Init, Heard
  <2> QED
    BY <2>2, <2>3 DEF Promise!Init
<1>4. I /\ I' /\ [Next]_vars => [Promise!Next]_<<QuestionState, Heard>>
  <2> SUFFICES ASSUME I, I', [Next]_vars PROVE Promise!Next
    OBVIOUS
  <2>1. /\ \A a \in Asks : QuestionState[a] = IF page[a] = "blocked" THEN "open" ELSE page[a]
        /\ \A a \in Asks : QuestionState'[a] = IF page'[a] = "blocked" THEN "open" ELSE page'[a]
    BY DEF AskInv, BlockedIsHeld, QuestionState
  <2>2. Heard \subseteq Heard' \/ Heard' = {}
    BY HeardStep
  <2>3. ASSUME NEW a \in Asks
        PROVE  QuestionState'[a] = QuestionState[a] \/ Promise!Opens(a) \/ Promise!Answered(a)
    <3>1. Moves(a) /\ page[a] \in {"idle", "blocked"} \union Outcomes
      BY AskStep DEF AskInv, AskTypeOK, UploadInv
    <3>2. CASE page'[a] = page[a]
      BY <2>1, <3>2
    <3>3. CASE page[a] = "idle" /\ page'[a] = "blocked"
      BY <2>1, <3>3 DEF Promise!Opens
    <3>4. CASE page[a] \in {"idle", "blocked"} /\ page'[a] \in {"default", "withdrawn"}
      BY <2>1, <3>4 DEF Promise!Answered, Promise!Answers, Promise!ByViewer
    <3>5. CASE page[a] = "blocked" /\ page'[a] \in {"yes", "no"} /\ <<a, page'[a]>> \in said
      <4>1. <<a, page'[a]>> \in Heard
        BY <3>5 DEF Heard
      <4> QED
        BY <2>1, <3>5, <4>1 DEF Promise!Answered, Promise!Answers, Promise!ByViewer
    <3>6. CASE page[a] = "blocked" /\ page'[a] = "file" /\ Offered
      <4>1. <<a, page'[a]>> \in Heard
        BY <3>6 DEF Heard
      <4> QED
        BY <2>1, <3>6, <4>1 DEF Promise!Answered, Promise!Answers, Promise!ByViewer
    <3> QED
      BY <3>1, <3>2, <3>3, <3>4, <3>5, <3>6 DEF Moves
  <2> QED
    BY <2>2, <2>3 DEF Promise!Next, Promise!Speaks, Promise!Leaves
<1> QED
  BY <1>1, <1>2, <1>3, <1>4, PTL DEF Spec, Promise!AnswersOnce

=============================================================================
