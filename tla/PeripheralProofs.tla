-------------------------- MODULE PeripheralProofs --------------------------
(***************************************************************************)
(* Proofs about the worker's peripherals: the cursor channel (Cursor), and *)
(* the input dispatchers with the clipboard relay they are composed with   *)
(* (Input).                                                                *)
(***************************************************************************)
EXTENDS Cursor, Input, FiniteSetTheorems, TLAPS

(***************************************************************************)
(* Cursor.  The inductive invariant follows a cursor state along its way:  *)
(* parked, queued, sent, completed, recorded; the channel's life tells     *)
(* which of these can be at the same time.                                 *)
(***************************************************************************)

IsSent(t) == t.task = "sent"
Opens(t) == t.task = "state" /\ t.open
Closes(t) == t.task = "state" /\ ~t.open

(* The channel opens once and closes once, and the UI thread hears of it   *)
(* in that order: what was open and is not never opens again, so that      *)
(* nothing is ever replayed.                                               *)
OpensOnce ==
  /\ dcOpen => everOpen
  /\ everOpen /\ ~dcOpen =>
       chan = "closed" /\ \A i \in DOMAIN ui : ~Opens(ui[i])
  /\ chan = "open" /\ ~everOpen => \E i \in DOMAIN ui : Opens(ui[i])
  /\ chan = "connecting" => ~everOpen /\ \A i \in DOMAIN ui : ~Opens(ui[i])
  /\ chan # "closed" => \A i \in DOMAIN ui : ~Closes(ui[i])
  /\ \A i, j \in DOMAIN ui : i < j /\ Closes(ui[i]) => ~Opens(ui[j])

(* Numbers grow along the way to the viewer. *)
Ordered ==
  /\ \A i \in DOMAIN sends : sends[i].seq < nextSeq
  /\ \A i \in DOMAIN sends : viewer # NoCursor => viewer.seq < sends[i].seq
  /\ \A i, j \in DOMAIN sends : i < j => sends[i].seq < sends[j].seq

(* Before the first opening there is nothing on the way; after it nothing  *)
(* is parked.  Every send is recorded, and succeeds until the channel      *)
(* closes.                                                                 *)
Stages ==
  /\ ~everOpen => /\ sends = <<>> /\ last = NoCursor /\ viewer = NoCursor
                  /\ \A i \in DOMAIN ui : ~IsSent(ui[i])
  /\ everOpen /\ dcOpen => parked = NoCursor
  /\ \A i \in DOMAIN sends : sends[i].record
  /\ \A i \in DOMAIN ui :
       IsSent(ui[i]) => ui[i].record /\ (chan # "closed" => ui[i].ok)

(* v is the envelope of j. *)
Shows(v, j) == v # NoCursor /\ v.view = Assemble(j) /\ v.x = j.at \div 2

(* The viewer shows the last completion that is on its way back, or else   *)
(* what the policy has recorded, to within the rounding.                   *)
Recalled ==
  chan # "closed" =>
    /\ \A i \in DOMAIN ui :
         IsSent(ui[i]) /\ (\A k \in DOMAIN ui : k > i => ~IsSent(ui[k]))
           => Shows(viewer, ui[i].joined)
    /\ (\A i \in DOMAIN ui : ~IsSent(ui[i])) /\ last # NoCursor =>
         /\ viewer # NoCursor /\ viewer.view = Assemble(last)
         /\ last.at - viewer.x \in {0, 1}

(* The last edge is parked, last in line, or on the viewer's screen. *)
OnItsWay ==
  chan # "closed" /\ edge # NoCursor /\ ~hidden =>
    IF ~everOpen THEN parked = edge
    ELSE IF sends # <<>> THEN sends[Len(sends)].joined = edge
    ELSE /\ viewer # NoCursor /\ viewer.view = Assemble(edge)
         /\ Near(viewer.x, edge.at \div 2)

CursorInv == CursorTypeOK /\ OpensOnce /\ Ordered /\ Stages /\ Recalled /\ OnItsWay

-----------------------------------------------------------------------------
(* Operators.                                                              *)

Messages == [joined : Joined, seq : Nat, record : BOOLEAN]
StateTasks == [task : {"state"}, open : BOOLEAN]
SentTasks == [task : {"sent"}, joined : Joined, record : BOOLEAN, ok : BOOLEAN]
Tasks == StateTasks \union SentTasks

(* A queue with one more element. *)
LEMMA Push ==
  ASSUME NEW S, NEW q \in Seq(S), NEW e \in S
  PROVE  /\ q \o <<e>> = Append(q, e)
         /\ Append(q, e) \in Seq(S) /\ Append(q, e) # <<>>
         /\ Len(Append(q, e)) = Len(q) + 1 /\ Len(q) \in Nat
         /\ DOMAIN q = 1..Len(q) /\ DOMAIN Append(q, e) = 1..(Len(q) + 1)
         /\ Append(q, e)[Len(q) + 1] = e
         /\ \A i \in DOMAIN q : Append(q, e)[i] = q[i]
  OBVIOUS

(* A queue without its head. *)
LEMMA Pop ==
  ASSUME NEW S, NEW q \in Seq(S), q # <<>>
  PROVE  /\ Tail(q) \in Seq(S) /\ Head(q) = q[1] /\ Head(q) \in S
         /\ Len(q) \in Nat \ {0} /\ Len(Tail(q)) = Len(q) - 1
         /\ DOMAIN q = 1..Len(q) /\ DOMAIN Tail(q) = 1..(Len(q) - 1)
         /\ \A i \in DOMAIN Tail(q) : Tail(q)[i] = q[i + 1] /\ i + 1 \in DOMAIN q
         /\ Tail(q) # <<>> => Tail(q)[Len(Tail(q))] = q[Len(q)]
  OBVIOUS

(* A task is of one kind, and has the fields of its kind. *)
LEMMA TaskKinds ==
  ASSUME NEW t \in Tasks
  PROVE  /\ IsSent(t) => t \in SentTasks /\ t.joined \in Joined /\ ~Opens(t) /\ ~Closes(t)
         /\ ~IsSent(t) => t \in StateTasks /\ t.task = "state"
  BY DEF Tasks, StateTasks, SentTasks, IsSent, Opens, Closes

(* Rounding and cutting a position are at most one pixel apart. *)
LEMMA Rounding ==
  ASSUME NEW p \in Nat
  PROVE  /\ RoundPosition(p) \in Int /\ p \div 2 \in Int
         /\ RoundPosition(p) - p \div 2 \in {0, 1}
  BY DEF RoundPosition

(* What is sent is an envelope, numbered as asked. *)
LEMMA Encoded ==
  ASSUME NEW j \in Joined, NEW n \in Nat
  PROVE  /\ EncodeWithSeq(j, n) \in Envelopes /\ EncodeWithSeq(j, n) # NoCursor
         /\ EncodeWithSeq(j, n).seq = n
         /\ EncodeWithSeq(j, n).view = Assemble(j)
         /\ EncodeWithSeq(j, n).x = j.at \div 2
<1>1. j.type \in Types /\ j.visible \in BOOLEAN /\ j.at \in Nat
  BY PointsAssumption DEF Joined
<1>2. CssKeywordForType[j.type] \in Shapes
  <2>1. /\ CssKeywordForType["kPointer"] = "default" /\ CssKeywordForType["kNull"] = "default"
        /\ CssKeywordForType["kHand"] = "pointer" /\ CssKeywordForType["kNone"] = "none"
        /\ CssKeywordForType["kCustom"] = "custom"
    BY DEF CssKeywordForType
  <2> QED
    BY <1>1, <2>1, TypesAssumption DEF Shapes
<1>3. Assemble(j) \in [visible : BOOLEAN, shape : Shapes]
  BY <1>1, <1>2 DEF Assemble, Shapes
<1>4. j.at \div 2 \in Int
  BY <1>1, Rounding
<1>5. EncodeWithSeq(j, n) \in Envelopes
  BY <1>3, <1>4 DEF EncodeWithSeq, Envelopes
<1> QED
  BY <1>5, NoCursorAssumption DEF EncodeWithSeq

(* Nothing is a duplicate before anything was recorded; a duplicate looks  *)
(* like what was recorded and is within the rounding of it.                *)
LEMMA Duplicates ==
  ASSUME NEW j \in Joined, last \in Recorded \union {NoCursor}
  PROVE  /\ last = NoCursor => ~IsDuplicate(j)
         /\ IsDuplicate(j) => /\ last # NoCursor /\ Assemble(j) = Assemble(last)
                              /\ last.at - j.at \div 2 \in {0, 1}
                              /\ last.at \in Int /\ j.at \div 2 \in Int
<1>1. j.at \in Nat
  BY PointsAssumption DEF Joined
<1>2. RoundPosition(j.at) - j.at \div 2 \in {0, 1} /\ j.at \div 2 \in Int
  BY <1>1, Rounding
<1> QED
  BY <1>2 DEF IsDuplicate, Assemble, Recorded

-----------------------------------------------------------------------------
(* The steps.                                                              *)

(* CursorTypeOK, with the queues' elements named. *)
LEMMA Typed ==
  CursorTypeOK =>
    /\ cursor \in [type : Types, visible : BOOLEAN] /\ pointer \in Pointers
    /\ sends \in Seq(Messages) /\ ui \in Seq(Tasks) /\ nextSeq \in Nat
    /\ last \in Recorded \union {NoCursor} /\ edge \in Joined \union {NoCursor}
    /\ parked \in Joined \union {NoCursor} /\ viewer \in Envelopes \union {NoCursor}
  BY DEF CursorTypeOK, Messages, Tasks, StateTasks, SentTasks

(* A session starts with nothing on its way. *)
LEMMA CursorInitInv == CursorInit => CursorInv
<1> SUFFICES ASSUME CursorInit PROVE CursorInv
  OBVIOUS
<1> USE CursorBoundsAssumption DEF CursorInit
<1>1. CursorTypeOK
  <2>1. cursor \in [type : Types, visible : BOOLEAN] /\ pointer \in Pointers
    OBVIOUS
  <2>2. dcOpen \in BOOLEAN /\ everOpen \in BOOLEAN /\ hidden \in BOOLEAN
    OBVIOUS
  <2>3. edges \in 0..MaxEdges /\ session \in 1..MaxSessions /\ nextSeq \in Nat
    OBVIOUS
  <2> QED
    BY <2>1, <2>2, <2>3 DEF CursorTypeOK
<1>2. OpensOnce /\ Ordered /\ Stages /\ Recalled /\ OnItsWay
  BY DEF OpensOnce, Ordered, Stages, Recalled, OnItsWay
<1> QED
  BY <1>1, <1>2 DEF CursorInv

(* A new session starts from nothing. *)
LEMMA RebuildInv == CursorInv /\ Rebuild => CursorInv'
<1> SUFFICES ASSUME CursorInv, Rebuild PROVE CursorInv'
  OBVIOUS
<1> USE CursorBoundsAssumption DEF Rebuild
<1>1. CursorTypeOK'
  <2>1. dcOpen' \in BOOLEAN /\ everOpen' \in BOOLEAN /\ hidden' \in BOOLEAN
    OBVIOUS
  <2>2. edges' \in 0..MaxEdges /\ session' \in 1..MaxSessions /\ nextSeq' \in Nat
    BY DEF CursorInv, CursorTypeOK
  <2> QED
    BY <2>1, <2>2 DEF CursorInv, CursorTypeOK
<1>2. OpensOnce' /\ Ordered' /\ Stages' /\ Recalled' /\ OnItsWay'
  BY DEF OpensOnce, Ordered, Stages, Recalled, OnItsWay
<1> QED
  BY <1>1, <1>2 DEF CursorInv

(* The pointer moves: nothing of this speaks of it. *)
LEMMA UpdatePointerInv ==
  ASSUME CursorInv, NEW p \in Pointers, UpdatePointer(p) PROVE CursorInv'
<1> USE DEF UpdatePointer, emitterVars
<1>1. CursorTypeOK'
  BY DEF CursorInv, CursorTypeOK
<1>2. OpensOnce' /\ Ordered' /\ Stages'
  BY DEF CursorInv, OpensOnce, Ordered, Stages
<1>3. Recalled' /\ OnItsWay'
  BY DEF CursorInv, Recalled, Shows, OnItsWay
<1> QED
  BY <1>1, <1>2, <1>3 DEF CursorInv

(* The channel opens: the UI thread is told once or twice, after whatever  *)
(* else it has been told.                                                  *)
LEMMA ChannelOpensInv == CursorInv /\ ChannelOpens => CursorInv'
<1> SUFFICES ASSUME CursorInv, ChannelOpens PROVE CursorInv'
  OBVIOUS
<1> DEFINE t == [task |-> "state", open |-> TRUE]
<1> USE DEF CursorInv
<1>0. ui \in Seq(Tasks) /\ t \in Tasks /\ Opens(t) /\ ~Closes(t) /\ ~IsSent(t)
  BY Typed DEF Tasks, StateTasks, Opens, Closes, IsSent
<1>1. PICK n \in 1..2 : ui' = ui \o [i \in 1..n |-> t]
  BY DEF ChannelOpens
<1> HIDE DEF t
<1>2. /\ ui' \in Seq(Tasks) /\ Len(ui') = Len(ui) + n /\ Len(ui) \in Nat
      /\ DOMAIN ui = 1..Len(ui) /\ DOMAIN ui' = 1..(Len(ui) + n)
      /\ \A i \in DOMAIN ui : ui'[i] = ui[i]
      /\ \A i \in DOMAIN ui' : i > Len(ui) => ui'[i] = t
  <2> DEFINE g == [i \in 1..n |-> t]
  <2>1. n \in Nat /\ g \in [1..n -> Tasks] /\ \A i \in 1..n : g[i] = t
    BY <1>0
  <2>2. \A k \in Nat : \A f \in [1..k -> Tasks] : f \in Seq(Tasks) /\ Len(f) = k
    OBVIOUS
  <2>3. ui' = ui \o g
    BY <1>1
  <2> HIDE DEF g
  <2>4. g \in Seq(Tasks) /\ Len(g) = n
    BY <2>1, <2>2
  <2>5. \A p, q \in Seq(Tasks) :
          /\ p \o q \in Seq(Tasks) /\ Len(p \o q) = Len(p) + Len(q) /\ Len(p) \in Nat
          /\ DOMAIN p = 1..Len(p) /\ DOMAIN (p \o q) = 1..(Len(p) + Len(q))
          /\ \A i \in DOMAIN p : (p \o q)[i] = p[i]
          /\ \A i \in DOMAIN (p \o q) :
               i > Len(p) => i - Len(p) \in 1..Len(q) /\ (p \o q)[i] = q[i - Len(p)]
    OBVIOUS
  <2>6. /\ ui' \in Seq(Tasks) /\ Len(ui') = Len(ui) + n /\ Len(ui) \in Nat
        /\ DOMAIN ui = 1..Len(ui) /\ DOMAIN ui' = 1..(Len(ui) + n)
        /\ \A i \in DOMAIN ui : ui'[i] = ui[i]
        /\ \A i \in DOMAIN ui' :
             i > Len(ui) => i - Len(ui) \in 1..n /\ ui'[i] = g[i - Len(ui)]
    BY <1>0, <2>3, <2>4, <2>5
  <2> QED  BY <2>1, <2>6
<1>3. /\ chan = "connecting" /\ chan' = "open" /\ ~everOpen /\ ~dcOpen
      /\ UNCHANGED <<cursor, pointer, dcOpen, everOpen, parked, last, nextSeq, sends,
                     viewer, edge, hidden, edges, session>>
  BY DEF ChannelOpens, OpensOnce, emitterVars
<1>4. CursorTypeOK'
  BY <1>2, <1>3 DEF CursorTypeOK, Tasks, StateTasks, SentTasks
<1>5. OpensOnce'
  BY <1>0, <1>2, <1>3 DEF OpensOnce
<1>6. Ordered' /\ Stages'
  BY <1>0, <1>2, <1>3 DEF Ordered, Stages
<1>7. Recalled' /\ OnItsWay'
  BY <1>0, <1>2, <1>3 DEF Stages, Recalled, OnItsWay
<1> QED
  BY <1>4, <1>5, <1>6, <1>7

(* It closes, for good. *)
LEMMA ChannelClosesInv == CursorInv /\ ChannelCloses => CursorInv'
<1> SUFFICES ASSUME CursorInv, ChannelCloses PROVE CursorInv'
  OBVIOUS
<1> DEFINE t == [task |-> "state", open |-> FALSE]
<1> USE DEF CursorInv
<1>0. ui \in Seq(Tasks) /\ t \in Tasks /\ Closes(t) /\ ~Opens(t) /\ ~IsSent(t)
  BY Typed DEF Tasks, StateTasks, Opens, Closes, IsSent
<1>1. ui' = Append(ui, t) /\ chan = "open" /\ chan' = "closed"
      /\ UNCHANGED <<cursor, pointer, dcOpen, everOpen, parked, last, nextSeq, sends,
                     viewer, edge, hidden, edges, session>>
  BY DEF ChannelCloses, emitterVars
<1> HIDE DEF t
<1>2. /\ ui' \in Seq(Tasks) /\ Len(ui) \in Nat
      /\ DOMAIN ui = 1..Len(ui) /\ DOMAIN ui' = 1..(Len(ui) + 1)
      /\ \A i \in DOMAIN ui : ui'[i] = ui[i]
      /\ ui'[Len(ui) + 1] = t
  BY <1>0, <1>1, Push
<1>4. CursorTypeOK'
  BY <1>1, <1>2 DEF CursorTypeOK, Tasks, StateTasks, SentTasks
<1>5. OpensOnce'
  BY <1>0, <1>1, <1>2 DEF OpensOnce
<1>6. Ordered' /\ Stages'
  BY <1>0, <1>1, <1>2 DEF Ordered, Stages
<1>7. Recalled' /\ OnItsWay'
  BY <1>1 DEF Recalled, OnItsWay
<1> QED
  BY <1>4, <1>5, <1>6, <1>7

(* A send leaves the queue: an open channel carries it to the viewer under *)
(* a number above the last, and its completion is posted.                  *)
LEMMA SendAsyncInv == CursorInv /\ SendAsync => CursorInv'
<1> SUFFICES ASSUME CursorInv, SendAsync PROVE CursorInv'
  OBVIOUS
<1> USE DEF CursorInv
<1> DEFINE m == Head(sends)
           t == [task |-> "sent", joined |-> m.joined, record |-> m.record,
                 ok |-> chan = "open"]
<1>0. ui \in Seq(Tasks) /\ sends \in Seq(Messages) /\ sends # <<>>
  BY Typed DEF SendAsync
<1>1. /\ sends' \in Seq(Messages) /\ m = sends[1] /\ m \in Messages
      /\ Len(sends) \in Nat \ {0} /\ Len(sends') = Len(sends) - 1
      /\ DOMAIN sends = 1..Len(sends) /\ DOMAIN sends' = 1..(Len(sends) - 1)
      /\ \A i \in DOMAIN sends' : sends'[i] = sends[i + 1] /\ i + 1 \in DOMAIN sends
      /\ sends' # <<>> => sends'[Len(sends')] = sends[Len(sends)]
  BY <1>0, Pop DEF SendAsync
<1>2. m.joined \in Joined /\ m.seq \in Nat /\ m.record /\ m.record \in BOOLEAN
  BY <1>1 DEF Messages, Stages
<1>3. t \in Tasks /\ IsSent(t) /\ ~Opens(t) /\ ~Closes(t) /\ t.joined = m.joined
      /\ t.record /\ (chan = "open" => t.ok)
  BY <1>2 DEF Tasks, SentTasks, IsSent, Opens, Closes
<1>4. ui' = Append(ui, t)
      /\ viewer' = (IF chan = "open" THEN EncodeWithSeq(m.joined, m.seq) ELSE viewer)
      /\ UNCHANGED <<cursor, pointer, chan, dcOpen, everOpen, parked, last,
                     nextSeq, edge, hidden, edges, session>>
  BY DEF SendAsync
<1> HIDE DEF m, t
<1>5. /\ ui' \in Seq(Tasks) /\ Len(ui) \in Nat
      /\ DOMAIN ui = 1..Len(ui) /\ DOMAIN ui' = 1..(Len(ui) + 1)
      /\ \A i \in DOMAIN ui : ui'[i] = ui[i]
      /\ ui'[Len(ui) + 1] = t
  BY <1>0, <1>3, <1>4, Push
<1>6. everOpen /\ chan # "connecting"
  BY <1>0 DEF Stages, OpensOnce
<1>7. /\ EncodeWithSeq(m.joined, m.seq) \in Envelopes
      /\ EncodeWithSeq(m.joined, m.seq) # NoCursor
      /\ EncodeWithSeq(m.joined, m.seq).seq = m.seq
      /\ EncodeWithSeq(m.joined, m.seq).view = Assemble(m.joined)
      /\ EncodeWithSeq(m.joined, m.seq).x = m.joined.at \div 2
  BY <1>2, Encoded
<1>8. m.seq < nextSeq
  BY <1>1 DEF Ordered
<1>9. viewer' \in Envelopes \union {NoCursor} /\ (viewer' # NoCursor => viewer'.seq < nextSeq')
  BY <1>4, <1>7, <1>8 DEF CursorTypeOK
<1>10. CursorTypeOK'
  BY <1>1, <1>4, <1>5, <1>9 DEF CursorTypeOK, Tasks, StateTasks, SentTasks, Messages
<1>11. OpensOnce'
  BY <1>3, <1>4, <1>5 DEF OpensOnce
<1>12. Ordered'
  <2>1. \A i \in DOMAIN sends' : sends'[i].seq < nextSeq'
    BY <1>1, <1>4 DEF Ordered
  <2>2. \A i \in DOMAIN sends' : m.seq < sends'[i].seq
    BY <1>1 DEF Ordered
  <2>3. \A i \in DOMAIN sends' : viewer' # NoCursor => viewer'.seq < sends'[i].seq
    BY <1>1, <1>4, <1>7, <2>2 DEF Ordered
  <2>4. \A i, j \in DOMAIN sends' : i < j => sends'[i].seq < sends'[j].seq
    BY <1>1 DEF Ordered
  <2> QED
    BY <2>1, <2>3, <2>4 DEF Ordered
<1>13. Stages'
  <2>1. \A i \in DOMAIN ui' :
          IsSent(ui'[i]) => ui'[i].record /\ (chan' # "closed" => ui'[i].ok)
    <3>1. chan # "closed" => chan = "open"
      BY <1>6 DEF CursorTypeOK
    <3>2. SUFFICES ASSUME NEW i \in DOMAIN ui', IsSent(ui'[i])
                   PROVE  ui'[i].record /\ (chan' # "closed" => ui'[i].ok)
      OBVIOUS
    <3>3. CASE i \in DOMAIN ui
      BY <1>4, <1>5, <3>2, <3>3 DEF Stages
    <3>4. CASE i = Len(ui) + 1
      BY <1>3, <1>4, <1>5, <3>1, <3>4
    <3> QED
      BY <1>5, <3>3, <3>4
  <2>2. \A i \in DOMAIN sends' : sends'[i].record
    BY <1>1 DEF Stages
  <2> QED
    BY <1>4, <1>6, <2>1, <2>2 DEF Stages
<1>14. ASSUME chan # "closed" PROVE Shows(viewer', m.joined)
  BY <1>4, <1>6, <1>7, <1>14 DEF CursorTypeOK, Shows
<1>15. Recalled'
  <2>1. SUFFICES ASSUME chan # "closed"
                 PROVE  \A i \in DOMAIN ui' :
                          IsSent(ui'[i]) /\ (\A k \in DOMAIN ui' : k > i => ~IsSent(ui'[k]))
                            => Shows(viewer', ui'[i].joined)
    BY <1>3, <1>4, <1>5 DEF Recalled
  <2>2. SUFFICES ASSUME NEW i \in DOMAIN ui',
                        \A k \in DOMAIN ui' : k > i => ~IsSent(ui'[k])
                 PROVE  Shows(viewer', ui'[i].joined)
    OBVIOUS
  <2>3. i = Len(ui) + 1
    BY <1>3, <1>5, <2>2
  <2>4. ui'[i].joined = m.joined
    BY <1>3, <1>5, <2>3
  <2> QED
    BY <1>14, <2>1, <2>4 DEF Shows
<1>16. OnItsWay'
  <2>1. SUFFICES ASSUME chan # "closed", edge # NoCursor, ~hidden
                 PROVE  IF sends' # <<>> THEN sends'[Len(sends')].joined = edge
                        ELSE /\ viewer' # NoCursor /\ viewer'.view = Assemble(edge)
                             /\ Near(viewer'.x, edge.at \div 2)
    BY <1>4, <1>6 DEF OnItsWay
  <2>2. sends[Len(sends)].joined = edge
    BY <1>0, <1>6, <2>1 DEF OnItsWay
  <2>3. CASE sends' # <<>>
    BY <1>1, <2>2, <2>3
  <2>4. CASE sends' = <<>>
    <3>0. Len(sends) = 1
      <4>1. Len(sends') = 0
        BY <2>4
      <4> QED
        BY <1>1, <4>1
    <3>1. m.joined = edge
      BY <1>1, <2>2, <3>0
    <3>2. edge.at \div 2 \in Int
      BY <1>2, <3>1, PointsAssumption, Rounding DEF Joined
    <3> QED
      BY <1>14, <2>1, <2>4, <3>1, <3>2 DEF Shows, Near
  <2> QED
    BY <2>3, <2>4
<1> QED
  BY <1>10, <1>11, <1>12, <1>13, <1>15, <1>16

(* A completion comes back and the policy records what was sent: the       *)
(* viewer has it already, or something newer.                              *)
LEMMA OnSendCompleteInv == CursorInv /\ OnSendComplete => CursorInv'
<1> SUFFICES ASSUME CursorInv, OnSendComplete PROVE CursorInv'
  OBVIOUS
<1> USE DEF CursorInv
<1> DEFINE t == Head(ui)
<1>0. ui \in Seq(Tasks) /\ ui # <<>> /\ IsSent(t)
  BY Typed DEF OnSendComplete, IsSent
<1>1. /\ ui' \in Seq(Tasks) /\ t = ui[1] /\ t \in Tasks
      /\ Len(ui) \in Nat \ {0} /\ Len(ui') = Len(ui) - 1
      /\ DOMAIN ui = 1..Len(ui) /\ DOMAIN ui' = 1..(Len(ui) - 1)
      /\ \A i \in DOMAIN ui' : ui'[i] = ui[i + 1] /\ i + 1 \in DOMAIN ui
  BY <1>0, Pop DEF OnSendComplete
<1>2. /\ IF t.ok /\ t.record THEN OnEmitted(t.joined) ELSE UNCHANGED last
      /\ UNCHANGED <<cursor, pointer, chan, dcOpen, everOpen, parked, nextSeq,
                     sends, viewer, edge, hidden, edges, session>>
  BY DEF OnSendComplete
<1> HIDE DEF t
<1>3. t.joined \in Joined
  BY <1>0, <1>1, TaskKinds
<1>4. /\ t.joined.at \in Nat /\ t.joined.type \in Types /\ t.joined.visible \in BOOLEAN
      /\ t.joined.buttons \in BOOLEAN
      /\ RoundPosition(t.joined.at) \in Int
      /\ RoundPosition(t.joined.at) - t.joined.at \div 2 \in {0, 1}
  BY <1>3, PointsAssumption, Rounding DEF Joined
<1>5. OnEmitted(t.joined) =>
        /\ last' \in Recorded /\ last'.seq = nextSeq - 1
        /\ Assemble(last') = Assemble(t.joined)
        /\ last'.at = RoundPosition(t.joined.at)
  BY <1>4 DEF OnEmitted, Recorded, Assemble, CursorTypeOK
<1>6. last' \in Recorded \union {NoCursor} /\ (last' # NoCursor => last'.seq < nextSeq')
  BY <1>2, <1>5 DEF CursorTypeOK
<1>7. CursorTypeOK'
  BY <1>1, <1>2, <1>6 DEF CursorTypeOK, Tasks, StateTasks, SentTasks
<1>8. everOpen
  BY <1>0, <1>1 DEF Stages
<1>9. OpensOnce'
  BY <1>1, <1>2, <1>8 DEF OpensOnce
<1>10. Ordered' /\ Stages'
  BY <1>1, <1>2, <1>8 DEF Ordered, Stages
<1>11. Recalled'
  <2>1. SUFFICES ASSUME chan # "closed" PROVE Recalled'
    BY <1>2 DEF Recalled
  <2>2. t.ok /\ t.record
    BY <1>0, <1>1, <2>1 DEF Stages
  <2>3. ASSUME NEW i \in DOMAIN ui', IsSent(ui'[i]),
               \A k \in DOMAIN ui' : k > i => ~IsSent(ui'[k])
        PROVE  Shows(viewer', ui'[i].joined)
    <3>1. \A k \in DOMAIN ui : k > i + 1 => k - 1 \in DOMAIN ui' /\ ui[k] = ui'[k - 1]
      BY <1>1, <2>3
    <3>2. \A k \in DOMAIN ui : k > i + 1 => ~IsSent(ui[k])
      BY <1>1, <2>3, <3>1
    <3> QED
      BY <1>1, <1>2, <2>1, <2>3, <3>2 DEF Recalled
  <2>4. ASSUME \A i \in DOMAIN ui' : ~IsSent(ui'[i]), last' # NoCursor
        PROVE  /\ viewer' # NoCursor /\ viewer'.view = Assemble(last')
               /\ last'.at - viewer'.x \in {0, 1}
    <3>1. \A k \in DOMAIN ui : k > 1 => k - 1 \in DOMAIN ui' /\ ui[k] = ui'[k - 1]
      BY <1>1
    <3>2. \A k \in DOMAIN ui : k > 1 => ~IsSent(ui[k])
      BY <2>4, <3>1
    <3>3. Shows(viewer, t.joined)
      BY <1>0, <1>1, <2>1, <3>2 DEF Recalled
    <3> QED
      BY <1>2, <1>4, <1>5, <2>2, <3>3 DEF Shows
  <2> QED
    BY <2>3, <2>4 DEF Recalled
<1>12. OnItsWay'
  BY <1>2 DEF OnItsWay
<1> QED
  BY <1>7, <1>9, <1>10, <1>11, <1>12

(* Numbers stay in order when the queue of sends is left alone or grows by *)
(* an envelope with the next one.                                          *)
LEMMA EmitOrdered ==
  ASSUME CursorInv, NEW j \in Joined,
         sends' = Append(sends, [joined |-> j, seq |-> nextSeq, record |-> TRUE]),
         nextSeq' = nextSeq + 1, viewer' = viewer
  PROVE  /\ Ordered' /\ sends' \in Seq(Messages) /\ nextSeq' \in Nat
         /\ \A i \in DOMAIN sends' : sends'[i].record
         /\ sends' # <<>> /\ sends'[Len(sends')].joined = j
<1> DEFINE m == [joined |-> j, seq |-> nextSeq, record |-> TRUE]
<1> USE DEF CursorInv
<1>0. /\ sends \in Seq(Messages) /\ nextSeq \in Nat
      /\ m \in Messages /\ m.seq = nextSeq /\ m.record = TRUE /\ m.joined = j
  <2>1. sends \in Seq(Messages) /\ nextSeq \in Nat
    BY Typed
  <2>2. TRUE \in BOOLEAN
    OBVIOUS
  <2>3. m \in Messages
    BY <2>1, <2>2 DEF Messages
  <2> QED
    BY <2>1, <2>3
<1>1. sends' = Append(sends, m)
  OBVIOUS
<1> HIDE DEF m
<1>2. /\ sends' \in Seq(Messages) /\ sends' # <<>>
      /\ Len(sends') = Len(sends) + 1 /\ Len(sends) \in Nat
      /\ DOMAIN sends = 1..Len(sends) /\ DOMAIN sends' = 1..(Len(sends) + 1)
      /\ sends'[Len(sends) + 1] = m
      /\ \A i \in DOMAIN sends : sends'[i] = sends[i]
  BY <1>0, <1>1, Push
<1>3. \A i \in DOMAIN sends : sends[i].seq \in Nat
  <2>1. \A i \in DOMAIN sends : sends[i] \in Messages
    BY <1>0
  <2> QED
    BY <2>1 DEF Messages
<1>4. \A i \in DOMAIN sends' : i \in DOMAIN sends \/ i = Len(sends) + 1
  BY <1>2
<1>5. \A i \in DOMAIN sends' : sends'[i].seq < nextSeq'
  BY <1>0, <1>2, <1>3, <1>4 DEF Ordered
<1>6. \A i \in DOMAIN sends' : viewer' # NoCursor => viewer'.seq < sends'[i].seq
  BY <1>0, <1>2, <1>4 DEF Ordered, CursorTypeOK
<1>7. \A i, k \in DOMAIN sends' : i < k => sends'[i].seq < sends'[k].seq
  BY <1>0, <1>2, <1>4 DEF Ordered
<1>8. \A i \in DOMAIN sends' : sends'[i].record
  BY <1>0, <1>2, <1>4 DEF Stages
<1> QED
  BY <1>0, <1>2, <1>5, <1>6, <1>7, <1>8 DEF Ordered

(* The UI thread hears that the channel opened or closed.  The first       *)
(* opening sends what was parked; a second one finds nothing to do.        *)
LEMMA OnChannelStateChangedInv == CursorInv /\ OnChannelStateChanged_Ui => CursorInv'
<1> SUFFICES ASSUME CursorInv, OnChannelStateChanged_Ui PROVE CursorInv'
  OBVIOUS
<1> USE DEF CursorInv
<1> DEFINE t == Head(ui)
<1>0. ui \in Seq(Tasks) /\ ui # <<>> /\ t.task = "state"
  BY Typed DEF OnChannelStateChanged_Ui
<1>1. /\ ui' \in Seq(Tasks) /\ t = ui[1] /\ t \in Tasks
      /\ Len(ui) \in Nat \ {0} /\ Len(ui') = Len(ui) - 1
      /\ DOMAIN ui = 1..Len(ui) /\ DOMAIN ui' = 1..(Len(ui) - 1)
      /\ \A i \in DOMAIN ui' : ui'[i] = ui[i + 1] /\ i + 1 \in DOMAIN ui
  BY <1>0, Pop DEF OnChannelStateChanged_Ui
<1>2. /\ \/ t.open /\ OnChannelOpen
         \/ ~t.open /\ dcOpen' = FALSE /\ UNCHANGED <<everOpen, parked, sends, nextSeq>>
      /\ UNCHANGED <<cursor, pointer, chan, last, viewer, edge, hidden, edges, session>>
  BY DEF OnChannelStateChanged_Ui
<1> HIDE DEF t
<1>3. ~IsSent(t) /\ (t.open => Opens(t)) /\ (~t.open => Closes(t))
  BY <1>0 DEF IsSent, Opens, Closes
<1>4. Recalled'
  <2>1. SUFFICES ASSUME chan # "closed" PROVE Recalled'
    BY <1>2 DEF Recalled
  <2>2. ASSUME NEW i \in DOMAIN ui', IsSent(ui'[i]),
               \A k \in DOMAIN ui' : k > i => ~IsSent(ui'[k])
        PROVE  Shows(viewer', ui'[i].joined)
    <3>1. \A k \in DOMAIN ui : k > i + 1 => k - 1 \in DOMAIN ui' /\ ui[k] = ui'[k - 1]
      BY <1>1, <2>2
    <3>2. \A k \in DOMAIN ui : k > i + 1 => ~IsSent(ui[k])
      BY <1>1, <2>2, <3>1
    <3> QED
      BY <1>1, <1>2, <2>1, <2>2, <3>2 DEF Recalled
  <2>3. ASSUME \A i \in DOMAIN ui' : ~IsSent(ui'[i]), last' # NoCursor
        PROVE  /\ viewer' # NoCursor /\ viewer'.view = Assemble(last')
               /\ last'.at - viewer'.x \in {0, 1}
    <3>1. \A k \in DOMAIN ui : k > 1 => k - 1 \in DOMAIN ui' /\ ui[k] = ui'[k - 1]
      BY <1>1
    <3>2. \A k \in DOMAIN ui : ~IsSent(ui[k])
      BY <1>1, <1>3, <2>3, <3>1
    <3> QED
      BY <1>2, <2>1, <2>3, <3>2 DEF Recalled
  <2> QED
    BY <2>2, <2>3 DEF Recalled
<1>5. CASE t.open /\ OnChannelOpen
  <2>1. Opens(t) /\ (everOpen => dcOpen) /\ chan # "connecting"
    BY <1>1, <1>3, <1>5 DEF OpensOnce
  <2>2. dcOpen' = TRUE /\ everOpen' = TRUE /\ parked' = NoCursor
    BY <1>5 DEF OnChannelOpen
  <2>3. OpensOnce'
    BY <1>1, <1>2, <2>1, <2>2 DEF OpensOnce
  <2>4. CASE parked = NoCursor
    <3>1. sends' = sends /\ nextSeq' = nextSeq
      <4>1. sends' = sends \o <<>> \o <<>> /\ nextSeq' = nextSeq + Len(<<>>)
        BY <1>5, <2>1, <2>4 DEF OnChannelOpen
      <4> QED
        BY <4>1, Typed
    <3>2. CursorTypeOK'
      BY <1>1, <1>2, <2>2, <3>1 DEF CursorTypeOK, Tasks, StateTasks, SentTasks
    <3>3. Ordered' /\ Stages'
      BY <1>1, <1>2, <2>2, <3>1 DEF Ordered, Stages
    <3>4. OnItsWay'
      BY <1>2, <2>2, <2>4, <3>1 DEF OnItsWay
    <3> QED
      BY <1>4, <2>3, <3>2, <3>3, <3>4
  <2>5. CASE parked # NoCursor
    <3>1. /\ ~everOpen /\ last = NoCursor /\ viewer = NoCursor /\ sends = <<>>
          /\ parked \in Joined /\ \A i \in DOMAIN ui : ~IsSent(ui[i])
      BY <2>1, <2>5 DEF Stages, CursorTypeOK
    <3>2. /\ sends' = Append(sends, [joined |-> parked, seq |-> nextSeq, record |-> TRUE])
          /\ nextSeq' = nextSeq + 1
      <4> DEFINE m == [joined |-> parked, seq |-> nextSeq, record |-> TRUE]
      <4>1. Emits(parked) = <<m>>
        BY <3>1 DEF Emits, IsDuplicate, AllocSeq
      <4> HIDE DEF m
      <4>2. sends' = <<>> \o <<m>> \o <<>> /\ nextSeq' = nextSeq + Len(<<m>>)
        BY <1>5, <2>5, <3>1, <4>1 DEF OnChannelOpen
      <4>3. sends' = Append(sends, m) /\ nextSeq' = nextSeq + 1
        BY <3>1, <4>2
      <4> QED
        BY <4>3 DEF m
    <3>3. /\ Ordered' /\ sends' \in Seq(Messages) /\ nextSeq' \in Nat
          /\ \A i \in DOMAIN sends' : sends'[i].record
          /\ sends' # <<>> /\ sends'[Len(sends')].joined = parked
      BY <1>2, <3>1, <3>2, EmitOrdered
    <3>4. CursorTypeOK'
      BY <1>1, <1>2, <2>2, <3>1, <3>3 DEF CursorTypeOK, Tasks, StateTasks, SentTasks, Messages
    <3>5. Stages'
      BY <1>1, <1>2, <2>2, <3>1, <3>3 DEF Stages
    <3>6. OnItsWay'
      BY <1>2, <2>2, <3>1, <3>3 DEF OnItsWay
    <3> QED
      BY <1>4, <2>3, <3>3, <3>4, <3>5, <3>6
  <2> QED
    BY <2>4, <2>5
<1>6. CASE ~t.open /\ dcOpen' = FALSE /\ UNCHANGED <<everOpen, parked, sends, nextSeq>>
  <2>1. Closes(t) /\ chan = "closed" /\ \A i \in DOMAIN ui' : ~Opens(ui'[i])
    BY <1>1, <1>3, <1>6 DEF OpensOnce
  <2>2. OpensOnce'
    BY <1>1, <1>2, <1>6, <2>1 DEF OpensOnce
  <2>3. CursorTypeOK'
    BY <1>1, <1>2, <1>6 DEF CursorTypeOK, Tasks, StateTasks, SentTasks
  <2>4. Ordered' /\ Stages'
    BY <1>1, <1>2, <1>6 DEF Ordered, Stages
  <2>5. OnItsWay'
    BY <1>2, <2>1 DEF OnItsWay
  <2> QED
    BY <1>4, <2>2, <2>3, <2>4, <2>5
<1> QED
  BY <1>2, <1>5, <1>6

(* A cursor edge is parked, queued, or dropped as a duplicate.  Dropped    *)
(* with nothing on its way, it is what the viewer shows.                   *)
LEMMA EdgeInv ==
  ASSUME CursorInv, NEW c \in [type : Types, visible : BOOLEAN], Edge(c) PROVE CursorInv'
<1> USE DEF CursorInv
<1> DEFINE j == [type |-> c.type, visible |-> c.visible, at |-> pointer.at,
                  buttons |-> pointer.buttons]
<1>0. /\ edges' \in 0..MaxEdges /\ cursor' = c
      /\ UNCHANGED <<pointer, chan, dcOpen, everOpen, last, ui, viewer, session>>
  BY CursorBoundsAssumption DEF Edge, CursorTypeOK
<1>1. /\ OnJoined(j) /\ edge' = j /\ hidden' = (IsDuplicate(j) /\ InFlight)
  BY DEF Edge, OnCursorChange
<1>2. j \in Joined
  BY Typed DEF Joined, Pointers
<1> HIDE DEF j
<1>3. edge' # NoCursor /\ hidden' \in BOOLEAN
  BY <1>1, <1>2, NoCursorAssumption
<1>4. OpensOnce' /\ Recalled'
  BY <1>0 DEF OpensOnce, Recalled
<1>5. CASE IsDuplicate(j) \/ ~dcOpen
  <2>1. sends' = sends /\ nextSeq' = nextSeq
    <3>1. sends' = sends \o <<>> /\ nextSeq' = nextSeq + Len(<<>>)
      BY <1>1, <1>5 DEF OnJoined, Emits
    <3> QED
      BY <3>1, Typed
  <2>2. parked' \in Joined \union {NoCursor} /\ (dcOpen => parked' = parked)
    BY <1>1, <1>2 DEF OnJoined, CursorTypeOK
  <2>3. CursorTypeOK'
    BY <1>0, <1>1, <1>2, <1>3, <2>1, <2>2 DEF CursorTypeOK
  <2>4. Ordered'
    BY <1>0, <2>1 DEF Ordered
  <2>5. Stages'
    BY <1>0, <2>1, <2>2 DEF Stages
  <2>6. OnItsWay'
    <3>1. SUFFICES ASSUME chan # "closed", ~hidden' PROVE OnItsWay'
      BY <1>0 DEF OnItsWay
    <3>2. CASE ~everOpen
      <4>1. ~IsDuplicate(j) /\ ~dcOpen
        BY <1>2, <3>2, Duplicates, Typed DEF Stages, OpensOnce
      <4>2. parked' = edge'
        BY <1>1, <4>1 DEF OnJoined
      <4> QED
        BY <1>0, <3>2, <4>2 DEF OnItsWay
    <3>3. CASE everOpen
      <4>1. IsDuplicate(j)
        BY <1>5, <3>1, <3>3 DEF OpensOnce
      <4>2. ~InFlight
        BY <1>1, <3>1, <4>1
      <4>3. sends = <<>> /\ \A i \in DOMAIN ui : ~IsSent(ui[i])
        BY <4>2 DEF InFlight, IsSent
      <4>4. /\ last # NoCursor /\ Assemble(j) = Assemble(last)
            /\ last.at - j.at \div 2 \in {0, 1}
            /\ last.at \in Int /\ j.at \div 2 \in Int
        BY <1>2, <4>1, Duplicates, Typed
      <4>5. /\ viewer # NoCursor /\ viewer.view = Assemble(last)
            /\ last.at - viewer.x \in {0, 1} /\ viewer.x \in Int
        BY <3>1, <4>3, <4>4, Typed DEF Recalled, Envelopes
      <4>6. Near(viewer.x, j.at \div 2)
        BY <4>4, <4>5 DEF Near
      <4> QED
        BY <1>0, <1>1, <2>1, <3>3, <4>3, <4>4, <4>5, <4>6 DEF OnItsWay
    <3> QED
      BY <3>2, <3>3
  <2> QED
    BY <1>4, <2>3, <2>4, <2>5, <2>6
<1>6. CASE ~IsDuplicate(j) /\ dcOpen
  <2>0. everOpen
    BY <1>6 DEF OpensOnce
  <2>1. /\ sends' = Append(sends, [joined |-> j, seq |-> nextSeq, record |-> TRUE])
        /\ nextSeq' = nextSeq + 1 /\ parked' = parked
    <3> DEFINE m == [joined |-> j, seq |-> nextSeq, record |-> TRUE]
    <3>1. Emits(j) = <<m>>
      BY <1>6 DEF Emits, AllocSeq
    <3> HIDE DEF m
    <3>2. sends' = sends \o <<m>> /\ nextSeq' = nextSeq + Len(<<m>>) /\ parked' = parked
      BY <1>1, <1>6, <3>1 DEF OnJoined
    <3>3. sends' = Append(sends, m) /\ nextSeq' = nextSeq + 1
      BY <3>2, Typed
    <3> QED
      BY <3>2, <3>3 DEF m
  <2>2. /\ Ordered' /\ sends' \in Seq(Messages) /\ nextSeq' \in Nat
        /\ \A i \in DOMAIN sends' : sends'[i].record
        /\ sends' # <<>> /\ sends'[Len(sends')].joined = j
    BY <1>0, <1>2, <2>1, EmitOrdered
  <2>3. /\ last' # NoCursor => last'.seq < nextSeq'
        /\ viewer' # NoCursor => viewer'.seq < nextSeq'
    BY <1>0, <2>1, Typed DEF CursorTypeOK, Recorded, Envelopes
  <2>4. CursorTypeOK'
    BY <1>0, <1>1, <1>2, <1>3, <2>1, <2>2, <2>3 DEF CursorTypeOK, Messages
  <2>5. Stages'
    BY <1>0, <2>0, <2>1, <2>2 DEF Stages
  <2>6. OnItsWay'
    BY <1>0, <1>1, <2>0, <2>2 DEF OnItsWay
  <2> QED
    BY <1>4, <2>2, <2>4, <2>5, <2>6
<1> QED
  BY <1>5, <1>6

(* Every step preserves the invariant. *)
LEMMA CursorStepInv == CursorInv /\ [CursorNext]_cursorVars => CursorInv'
<1> SUFFICES ASSUME CursorInv, [CursorNext]_cursorVars PROVE CursorInv'
  OBVIOUS
<1>1. CASE ChannelOpens \/ ChannelCloses \/ SendAsync \/ OnChannelStateChanged_Ui
           \/ OnSendComplete \/ Rebuild
  BY <1>1, ChannelOpensInv, ChannelClosesInv, SendAsyncInv, OnChannelStateChangedInv,
     OnSendCompleteInv, RebuildInv
<1>2. CASE (\E t \in Types : HandleCursorSet(t)) \/ ShowCursor \/ HideCursor
  <2>1. cursor \in [type : Types, visible : BOOLEAN]
    BY Typed DEF CursorInv
  <2>2. /\ \A t \in Types : [cursor EXCEPT !.type = t] \in [type : Types, visible : BOOLEAN]
        /\ \A b \in BOOLEAN : [cursor EXCEPT !.visible = b] \in [type : Types, visible : BOOLEAN]
    BY <2>1
  <2> QED
    BY <1>2, <2>2, EdgeInv DEF HandleCursorSet, ShowCursor, HideCursor
<1>3. CASE \E p \in Pointers : UpdatePointer(p)
  BY <1>3, UpdatePointerInv
<1>4. CASE UNCHANGED cursorVars
  <2>1. CursorTypeOK'
    BY <1>4 DEF cursorVars, emitterVars, CursorInv, CursorTypeOK
  <2>2. OpensOnce' /\ Ordered' /\ Stages'
    BY <1>4 DEF cursorVars, emitterVars, CursorInv, OpensOnce, Ordered, Stages
  <2>3. Recalled' /\ OnItsWay'
    BY <1>4 DEF cursorVars, emitterVars, CursorInv, Recalled, OnItsWay
  <2> QED
    BY <2>1, <2>2, <2>3 DEF CursorInv
<1> QED
  BY <1>1, <1>2, <1>3, <1>4 DEF CursorNext

-----------------------------------------------------------------------------
(* The invariant holds in every state of every behaviour. *)
THEOREM CursorInvariance == CursorSpec => []CursorInv
  BY CursorInitInv, CursorStepInv, PTL DEF CursorSpec

(* CursorArrives: when nothing is on its way the viewer shows the cursor   *)
(* of the last edge, for any number of edges and sessions, unless that     *)
(* edge was dropped against a recorded state about to be replaced.         *)
THEOREM CursorDoesArrive == CursorSpec => []CursorArrives
<1>1. CursorInv => CursorArrives
  <2> SUFFICES ASSUME CursorInv, Quiet, edge # NoCursor, ~hidden
               PROVE  /\ viewer # NoCursor /\ viewer.view = Assemble(edge)
                      /\ Near(viewer.x, edge.at \div 2)
    BY DEF CursorArrives
  <2>1. CASE everOpen
    BY <2>1 DEF CursorInv, OnItsWay, Quiet
  <2>2. CASE ~everOpen
    BY <2>2 DEF CursorInv, OpensOnce, Quiet
  <2> QED
    BY <2>1, <2>2
<1> QED
  BY <1>1, CursorInvariance, PTL

(* SeqIncreases: the viewer gets envelopes under strictly increasing       *)
(* numbers within a session, whatever is in flight.                        *)
THEOREM CursorSeqIncreases == CursorSpec => SeqIncreases
<1>1. CursorInv /\ [CursorNext]_cursorVars =>
        [viewer' # viewer /\ viewer # NoCursor /\ viewer' # NoCursor =>
           viewer'.seq > viewer.seq]_cursorVars
  <2> SUFFICES ASSUME CursorInv, CursorNext, viewer' # viewer, viewer # NoCursor, viewer' # NoCursor
               PROVE  viewer'.seq > viewer.seq
    BY DEF cursorVars
  <2>1. SendAsync
    BY DEF CursorNext, ChannelOpens, ChannelCloses, OnChannelStateChanged_Ui, OnSendComplete,
       Rebuild, HandleCursorSet, ShowCursor, HideCursor, Edge, UpdatePointer
  <2>2. /\ sends # <<>> /\ viewer' = EncodeWithSeq(Head(sends).joined, Head(sends).seq)
        /\ sends \in Seq(Messages)
    BY <2>1, Typed DEF SendAsync, CursorInv
  <2>3. Head(sends) = sends[1] /\ 1 \in DOMAIN sends /\ Head(sends) \in Messages
    BY <2>2, Pop
  <2>4. viewer'.seq = Head(sends).seq
    BY <2>2 DEF EncodeWithSeq
  <2> QED
    BY <2>3, <2>4, Typed DEF CursorInv, Ordered, Messages, Envelopes
<1> QED
  BY <1>1, CursorInvariance, PTL DEF CursorSpec, SeqIncreases

-----------------------------------------------------------------------------
(***************************************************************************)
(* Input and Clipboard.  The relay's half of the invariant ties what is    *)
(* remembered to who wrote the clipboard; the dispatchers' half says of    *)
(* every page, not only of the one in front, what it has been told.        *)
(***************************************************************************)

(* A text of the last paste is the one the relay remembers, on the         *)
(* clipboard and in the hands of a read, and no other paste is on the      *)
(* clipboard; a read under way was started by a paste that was applied or  *)
(* by a write of the page's.                                               *)
Remembered(c) ==
  c.paste <= applied /\ (c.paste # 0 /\ c.paste = applied => c.text = written)

EchoKnown ==
  /\ Remembered(clip) /\ clip.paste \in {0, applied}
  /\ \A i \in DOMAIN captured : Remembered(captured[i])
  /\ reads + Len(inbox) <= pasted + copied
  /\ applied + Len(inbox) <= pasted

ClipInv == ClipTypeOK /\ EchoKnown /\ NoEcho /\ OnePerGesture

(* What every page knows of a gesture that was not cut off there: the one  *)
(* in front what the dispatchers believe, the others nothing.              *)
AllAgree ==
  \A w \in Tabs, g \in Gestures :
    <<w, g>> \notin strays =>
      page[w][g] = IF HasWidget /\ w = active THEN Told(w)[g] ELSE Blank[g]

Inv == TypeOK /\ ClipInv /\ IsFiniteSet(points) /\ AllAgree

USE TooLongAssumption, ClipBoundsAssumption, CapAssumption, InputBoundsAssumption

Copies == [text : Texts, paste : Nat, after : Nat]

-----------------------------------------------------------------------------
(* The clipboard relay.                                                    *)

(* What a read hands to the viewer is nothing, or one text that is not of  *)
(* the last paste, provided that a text of that paste is the one           *)
(* remembered.                                                             *)
LEMMA ReadSends ==
  ASSUME NEW c \in Clips, NEW w, NEW n \in Nat,
         c.paste <= n, c.paste # 0 /\ c.paste = n => c.text = w
  PROVE  \/ OnClipboardTextRead(c, w, n) = <<>>
         \/ \E x \in Copies : /\ OnClipboardTextRead(c, w, n) = <<x>>
                              /\ x.paste # 0 => x.paste < x.after
<1>1. CASE c.text = None \/ c.text = w \/ c.text \in TooLong
  BY <1>1 DEF OnClipboardTextRead
<1>2. CASE ~(c.text = None \/ c.text = w \/ c.text \in TooLong)
  <2> DEFINE x == [text |-> c.text, paste |-> c.paste, after |-> n]
  <2>1. c.text \in Texts /\ c.paste \in Nat /\ (c.paste # 0 => c.paste < n)
    BY <1>2 DEF Clips
  <2>2. x \in Copies /\ (x.paste # 0 => x.paste < x.after)
    BY <2>1 DEF Copies
  <2>3. OnClipboardTextRead(c, w, n) = <<x>>
    BY <1>2 DEF OnClipboardTextRead
  <2> HIDE DEF x
  <2> QED
    BY <2>2, <2>3
<1> QED
  BY <1>1, <1>2

(* So a read adds at most one text, and no echo, to what was sent. *)
LEMMA ReadKeeps ==
  ASSUME NEW c \in Clips, NEW w, NEW n \in Nat,
         c.paste <= n, c.paste # 0 /\ c.paste = n => c.text = w,
         sent \in Seq(Copies), NoEcho,
         sent' = sent \o OnClipboardTextRead(c, w, n)
  PROVE  /\ sent' \in Seq(Copies) /\ NoEcho'
         /\ Len(sent') \in {Len(sent), Len(sent) + 1}
<1>1. CASE OnClipboardTextRead(c, w, n) = <<>>
  <2>1. sent' = sent
    BY <1>1
  <2> QED
    BY <2>1 DEF NoEcho
<1>2. ASSUME NEW x \in Copies, OnClipboardTextRead(c, w, n) = <<x>>,
             x.paste # 0 => x.paste < x.after
      PROVE  /\ sent' \in Seq(Copies) /\ NoEcho'
             /\ Len(sent') \in {Len(sent), Len(sent) + 1}
  <2>1. /\ sent' \in Seq(Copies) /\ Len(sent') = Len(sent) + 1
        /\ \A i \in 1..Len(sent) : sent'[i] = sent[i]
        /\ sent'[Len(sent) + 1] = x
    BY <1>2
  <2>2. ASSUME NEW i \in DOMAIN sent', sent'[i].paste # 0
        PROVE  sent'[i].paste < sent'[i].after
    <3>1. i \in 1..Len(sent) \/ i = Len(sent) + 1
      BY <2>1
    <3>2. CASE i \in 1..Len(sent)
      BY <2>1, <2>2, <3>2 DEF NoEcho
    <3>3. CASE i = Len(sent) + 1
      BY <1>2, <2>1, <2>2, <3>3
    <3> QED
      BY <3>1, <3>2, <3>3
  <2> QED
    BY <2>1, <2>2 DEF NoEcho
<1> QED
  BY <1>1, <1>2, ReadSends

(* A change of the clipboard adds at most a read or a text, for the window *)
(* that it uses up.                                                        *)
LEMMA ChangeKeeps ==
  ASSUME ClipInv, NEW c \in Clips, NEW w, NEW n \in Nat,
         c.paste <= n, c.paste # 0 /\ c.paste = n => c.text = w,
         OnClipboardDataChanged(c, w, n),
         gestures' = gestures, captured' = captured
  PROVE  /\ armed' \in BOOLEAN /\ reads' \in Nat /\ sent' \in Seq(Copies)
         /\ NoEcho' /\ OnePerGesture' /\ reads' <= reads + 1
<1> USE DEF ClipInv, ClipTypeOK, OnePerGesture
<1>0. /\ sent \in Seq(Copies) /\ Len(sent) \in Nat /\ reads \in Nat
      /\ gestures \in Nat /\ Len(captured) \in Nat
  BY DEF Copies
<1>1. CASE ~armed
  BY <1>0, <1>1 DEF OnClipboardDataChanged, NoEcho
<1>2. CASE armed
  <2>0. armed' = FALSE /\ armed' \in BOOLEAN
    BY <1>2 DEF OnClipboardDataChanged
  <2>3. Len(sent) + Len(captured) + reads + 1 <= gestures
    BY <1>0, <1>2
  <2>1. CASE sent' = sent \o OnClipboardTextRead(c, w, n) /\ UNCHANGED reads
    <3>1. /\ sent' \in Seq(Copies) /\ NoEcho'
          /\ Len(sent') \in {Len(sent), Len(sent) + 1}
      BY <1>0, <2>1, ReadKeeps
    <3>2. /\ Len(sent') + Len(captured') + reads' <= gestures'
          /\ reads' \in Nat /\ reads' <= reads + 1
      BY <1>0, <2>1, <2>3, <3>1
    <3>3. OnePerGesture'
      BY <1>0, <2>0, <2>1, <3>1, <3>2
    <3> QED
      BY <2>0, <3>1, <3>2, <3>3
  <2>2. CASE reads' = reads + 1 /\ UNCHANGED sent
    <3>1. /\ Len(sent') + Len(captured') + reads' <= gestures'
          /\ reads' \in Nat /\ reads' <= reads + 1
      BY <1>0, <2>2, <2>3
    <3>2. OnePerGesture'
      BY <1>0, <2>0, <2>2, <3>1
    <3>3. sent' \in Seq(Copies) /\ NoEcho'
      BY <1>0, <2>2 DEF NoEcho
    <3> QED
      BY <2>0, <3>1, <3>2, <3>3
  <2> QED
    BY <1>2, <2>1, <2>2 DEF OnClipboardDataChanged
<1> QED
  BY <1>1, <1>2

(* The relay starts with nothing armed, read or sent. *)
LEMMA ClipInitInv == ClipInit => ClipInv
<1> SUFFICES ASSUME ClipInit PROVE ClipInv
  OBVIOUS
<1>0. clip \in Clips /\ clip.paste = 0
  BY DEF ClipInit, Clips
<1>1. captured \in Seq(Clips) /\ written \in Texts \union {None}
  BY DEF ClipInit
<1>6. armed \in BOOLEAN
  BY DEF ClipInit
<1>2. /\ reads \in 0..(MaxPastes + MaxCopies) /\ pasted \in 0..MaxPastes
      /\ copied \in 0..MaxCopies /\ gestures \in Nat /\ applied \in 0..MaxPastes
  BY DEF ClipInit
<1>3. inbox \in Seq(Texts \ TooLong) /\ sent \in Seq(Copies)
  BY DEF ClipInit
<1>4. EchoKnown
  BY <1>0 DEF ClipInit, EchoKnown, Remembered
<1>5. NoEcho /\ OnePerGesture
  BY DEF ClipInit, NoEcho, OnePerGesture
<1> QED
  BY <1>0, <1>1, <1>2, <1>3, <1>4, <1>5, <1>6 DEF ClipInv, ClipTypeOK, Copies

(* A read finds what is on the clipboard by then. *)
LEMMA TextCapturedInv == ClipInv /\ TextCaptured => ClipInv'
<1> SUFFICES ASSUME ClipInv, TextCaptured PROVE ClipInv'
  OBVIOUS
<1> USE DEF ClipInv, TextCaptured
<1>1. /\ captured \in Seq(Clips) /\ clip \in Clips /\ reads \in Nat /\ reads > 0
      /\ pasted \in Nat /\ copied \in Nat /\ applied \in Nat /\ Len(inbox) \in Nat
      /\ Len(sent) \in Nat /\ gestures \in Nat /\ Len(captured) \in Nat
  BY DEF ClipTypeOK
<1>2. /\ captured' \in Seq(Clips) /\ Len(captured') = Len(captured) + 1
      /\ \A i \in 1..Len(captured) : captured'[i] = captured[i]
      /\ captured'[Len(captured) + 1] = clip
  BY <1>1
<1>3. ClipTypeOK'
  BY <1>1, <1>2 DEF ClipTypeOK
<1>4. EchoKnown'
  <2>1. ASSUME NEW i \in DOMAIN captured' PROVE Remembered(captured[i])'
    <3>1. i \in 1..Len(captured) \/ i = Len(captured) + 1
      BY <1>1, <1>2
    <3> QED
      BY <1>1, <1>2, <3>1 DEF EchoKnown, Remembered
  <2> QED
    BY <1>1, <2>1 DEF EchoKnown, Remembered
<1>5. OnePerGesture'
  BY <1>1, <1>2 DEF OnePerGesture, ClipTypeOK
<1> QED
  BY <1>3, <1>4, <1>5 DEF NoEcho

(* A read is answered, with what it found when it looked. *)
LEMMA TextReadInv == ClipInv /\ TextRead => ClipInv'
<1> SUFFICES ASSUME ClipInv, TextRead PROVE ClipInv'
  OBVIOUS
<1> USE DEF ClipInv, TextRead
<1>1. /\ captured \in Seq(Clips) /\ captured # <<>> /\ reads \in Nat
      /\ pasted \in Nat /\ copied \in Nat /\ applied \in Nat /\ Len(inbox) \in Nat
      /\ sent \in Seq(Copies) /\ gestures \in Nat
  BY DEF ClipTypeOK, Copies
<1>2. /\ captured' \in Seq(Clips) /\ Len(captured') = Len(captured) - 1
      /\ Len(captured) \in Nat \ {0}
      /\ \A i \in 1..Len(captured') : captured'[i] = captured[i + 1]
      /\ Head(captured) \in Clips /\ Head(captured) = captured[1]
  BY <1>1
<1>3. Remembered(Head(captured))
  BY <1>2 DEF EchoKnown
<1>4. /\ sent' \in Seq(Copies) /\ NoEcho'
      /\ Len(sent') \in {Len(sent), Len(sent) + 1}
  BY <1>1, <1>2, <1>3, ReadKeeps DEF Remembered
<1>5. ClipTypeOK'
  BY <1>1, <1>2, <1>4 DEF ClipTypeOK, Copies
<1>6. EchoKnown'
  <2>1. ASSUME NEW i \in DOMAIN captured' PROVE Remembered(captured[i])'
    <3>1. i \in 1..Len(captured') /\ i + 1 \in 1..Len(captured)
      BY <1>2
    <3> QED
      BY <1>2, <3>1 DEF EchoKnown, Remembered
  <2> QED
    BY <1>1, <2>1 DEF EchoKnown, Remembered
<1>7. OnePerGesture'
  BY <1>1, <1>2, <1>4 DEF OnePerGesture, ClipTypeOK
<1> QED
  BY <1>4, <1>5, <1>6, <1>7

(* A paste that is accepted waits for the UI thread. *)
LEMMA HandleInboundJsonInv ==
  ASSUME ClipInv, NEW t \in Texts, HandleInboundJson(t) PROVE ClipInv'
<1> USE DEF ClipInv, HandleInboundJson
<1>0. /\ pasted \in Nat /\ reads \in Nat /\ copied \in Nat /\ Len(inbox) \in Nat
      /\ applied \in Nat
  BY DEF ClipTypeOK
<1>1. inbox' \in Seq(Texts \ TooLong) /\ Len(inbox') <= Len(inbox) + 1 /\ Len(inbox') \in Nat
  BY DEF ClipTypeOK
<1>2. ClipTypeOK'
  BY <1>0, <1>1 DEF ClipTypeOK
<1>3. EchoKnown'
  BY <1>0, <1>1 DEF EchoKnown, Remembered
<1> QED
  BY <1>2, <1>3 DEF NoEcho, OnePerGesture

(* The paste is remembered before its own change is announced; what reads  *)
(* under way have found is of an earlier paste by then.                    *)
LEMMA ApplyPasteInv == ClipInv /\ ApplyPaste => ClipInv'
<1> SUFFICES ASSUME ClipInv, ApplyPaste PROVE ClipInv'
  OBVIOUS
<1> USE DEF ClipInv, ApplyPaste
<1>0. /\ pasted \in 0..MaxPastes /\ reads \in Nat /\ copied \in 0..MaxCopies
      /\ Len(inbox) \in Nat /\ applied \in Nat /\ captured \in Seq(Clips)
  BY DEF ClipTypeOK
<1>1. /\ inbox' \in Seq(Texts \ TooLong) /\ Len(inbox') = Len(inbox) - 1
      /\ Head(inbox) \in Texts /\ Len(inbox') \in Nat
  BY DEF ClipTypeOK
<1>2. /\ clip' \in Clips /\ clip'.text = written' /\ written' \in Texts
      /\ clip'.paste = applied' /\ applied' = applied + 1
  BY <1>0, <1>1 DEF Clips
<1>3. /\ armed' \in BOOLEAN /\ reads' \in Nat /\ sent' \in Seq(Copies)
      /\ NoEcho' /\ OnePerGesture' /\ reads' <= reads + 1
  BY <1>0, <1>2, ChangeKeeps
<1>4. EchoKnown'
  <2>1. ASSUME NEW i \in DOMAIN captured' PROVE Remembered(captured[i])'
    <3>1. captured'[i] = captured[i] /\ i \in DOMAIN captured
      OBVIOUS
    <3>0. captured[i] \in Clips
      BY <1>0, <3>1
    <3>2. captured[i] \in Clips /\ captured[i].paste \in Nat
      BY <3>0 DEF Clips
    <3>3. captured[i].paste <= applied
      BY <3>1 DEF EchoKnown, Remembered
    <3> QED
      BY <1>0, <1>2, <3>1, <3>2, <3>3 DEF Remembered
  <2>2. Remembered(clip)' /\ clip'.paste \in {0, applied'}
    BY <1>0, <1>2 DEF Remembered
  <2>3. reads' + Len(inbox') <= pasted' + copied' /\ applied' + Len(inbox') <= pasted'
    BY <1>0, <1>1, <1>2, <1>3 DEF EchoKnown
  <2> QED
    BY <2>1, <2>2, <2>3 DEF EchoKnown
<1>5. ClipTypeOK'
  <2>0. reads' + Len(inbox') <= pasted + copied /\ applied' + Len(inbox') <= pasted
    BY <1>4 DEF EchoKnown
  <2>1. /\ reads' \in 0..(MaxPastes + MaxCopies) /\ applied' \in 0..MaxPastes
    BY <1>0, <1>1, <1>2, <1>3, <2>0
  <2> QED
    BY <1>0, <1>1, <1>2, <1>3, <2>1 DEF ClipTypeOK, Copies
<1> QED
  BY <1>3, <1>4, <1>5

(* A write of the page's: its text is the page's, also when it is read late. *)
LEMMA PageCopiesInv ==
  ASSUME ClipInv, NEW t \in Texts, PageCopies(t) PROVE ClipInv'
<1> USE DEF ClipInv, PageCopies
<1>0. /\ pasted \in 0..MaxPastes /\ reads \in Nat /\ copied \in Nat
      /\ copied' \in 0..MaxCopies /\ copied' = copied + 1
      /\ Len(inbox) \in Nat /\ applied \in Nat
  BY DEF ClipTypeOK
<1>2. clip' \in Clips /\ clip'.paste = 0
  BY DEF Clips
<1>3. /\ armed' \in BOOLEAN /\ reads' \in Nat /\ sent' \in Seq(Copies)
      /\ NoEcho' /\ OnePerGesture' /\ reads' <= reads + 1
  BY <1>0, <1>2, ChangeKeeps
<1>4. EchoKnown'
  <2>1. ASSUME NEW i \in DOMAIN captured' PROVE Remembered(captured[i])'
    BY DEF EchoKnown, Remembered
  <2>2. Remembered(clip)' /\ clip'.paste \in {0, applied'}
    BY <1>0, <1>2 DEF Remembered
  <2>3. reads' + Len(inbox') <= pasted' + copied' /\ applied' + Len(inbox') <= pasted'
    BY <1>0, <1>3 DEF EchoKnown
  <2> QED
    BY <2>1, <2>2, <2>3 DEF EchoKnown
<1>5. ClipTypeOK'
  <2>0. reads' + Len(inbox) <= pasted + copied'
    BY <1>4 DEF EchoKnown
  <2>1. reads' \in 0..(MaxPastes + MaxCopies)
    <3> HIDE DEF ClipInv, PageCopies
    <3> QED
      BY <1>0, <1>3, <2>0
  <2> QED
    BY <1>0, <1>2, <1>3, <2>1 DEF ClipTypeOK, Copies
<1> QED
  BY <1>3, <1>4, <1>5

(* A gesture arms the window, once for however many gestures; time ends it. *)
LEMMA WindowInv == ClipInv /\ (ArmCopyWindow \/ WindowEnds) => ClipInv'
<1> SUFFICES ASSUME ClipInv, ArmCopyWindow \/ WindowEnds PROVE ClipInv'
  OBVIOUS
<1> USE DEF ClipInv
<1>0. Len(sent) \in Nat /\ Len(captured) \in Nat /\ reads \in Nat /\ gestures \in Nat
  BY DEF ClipTypeOK
<1>1. CASE ArmCopyWindow
  <2>1. ClipTypeOK'
    BY <1>1 DEF ArmCopyWindow, ClipTypeOK
  <2>2. EchoKnown' /\ NoEcho'
    BY <1>1 DEF ArmCopyWindow, EchoKnown, Remembered, NoEcho
  <2>3. OnePerGesture'
    BY <1>0, <1>1 DEF ArmCopyWindow, ClipTypeOK, OnePerGesture
  <2> QED
    BY <2>1, <2>2, <2>3
<1>2. CASE WindowEnds
  <2>1. ClipTypeOK'
    BY <1>2 DEF WindowEnds, ClipTypeOK
  <2>2. EchoKnown' /\ NoEcho'
    BY <1>2 DEF WindowEnds, EchoKnown, Remembered, NoEcho
  <2>3. OnePerGesture'
    BY <1>0, <1>2 DEF WindowEnds, ClipTypeOK, OnePerGesture
  <2> QED
    BY <2>1, <2>2, <2>3
<1> QED
  BY <1>1, <1>2

(* Steps that leave the relay alone. *)
LEMMA ClipUnchanged == ClipInv /\ UNCHANGED clipVars => ClipInv'
  BY DEF clipVars, ClipInv, ClipTypeOK, EchoKnown, Remembered, NoEcho, OnePerGesture

-----------------------------------------------------------------------------
(* The dispatchers and the pages.                                          *)

(* What the dispatchers keep, apart from the clipboard. *)
DispatchTypeOK ==
  /\ held \subseteq Buttons /\ points \subseteq Fingers /\ mods \subseteq Modifiers
  /\ IsFiniteSet(points) /\ Cardinality(points) <= Cap
  /\ click \in [button : Buttons \union {None}, count : 0..MaxClick]
  /\ scrolling \in BOOLEAN /\ composing \in BOOLEAN
  /\ drag \in {"idle", "active", "awaiting_end"}

TabTypeOK ==
  /\ active \in Tabs \union {None} /\ focus \in [Tabs -> Widgets]
  /\ strays \subseteq Tabs \X Gestures
  /\ page \in [Tabs -> Pages]
  /\ events \in 0..MaxEvents /\ tabOps \in 0..MaxTabOps

(* The invariant in its parts, in this state and in the next. *)
LEMMA InvParts ==
  /\ Inv <=> ClipInv /\ DispatchTypeOK /\ TabTypeOK /\ AllAgree
  /\ Inv' <=> ClipInv' /\ DispatchTypeOK' /\ TabTypeOK' /\ AllAgree'
  BY DEF Inv, TypeOK, ClipInv, DispatchTypeOK, TabTypeOK

(* What the dispatchers believe is a page's state. *)
LEMMA ToldIsPage ==
  /\ Blank \in Pages
  /\ DispatchTypeOK /\ TabTypeOK => \A w \in Tabs : Told(w) \in Pages
<1>1. Blank \in Pages
  BY DEF Blank, Pages
<1>2. ASSUME DispatchTypeOK, TabTypeOK, NEW w \in Tabs PROVE Told(w) \in Pages
  <2>1. (IF drag = "active" THEN 1 ELSE 0) \in Nat
    OBVIOUS
  <2>2. (IF composing THEN {focus[w]} ELSE {}) \in SUBSET Widgets
    BY <1>2 DEF TabTypeOK
  <2> QED
    BY <1>2, <2>1, <2>2 DEF Told, Pages, DispatchTypeOK
<1> QED
  BY <1>1, <1>2

(* Every page has all of its fields, and one of them may become anything   *)
(* of its type.                                                            *)
LEMMA PageField ==
  ASSUME NEW p \in Pages
  PROVE  /\ DOMAIN p = Gestures
         /\ \A v \in SUBSET Buttons : [p EXCEPT !["pressed"] = v] \in Pages
         /\ \A v \in SUBSET Fingers : [p EXCEPT !["touches"] = v] \in Pages
         /\ \A v \in Nat : [p EXCEPT !["entered"] = v] \in Pages
         /\ \A v \in SUBSET Widgets : [p EXCEPT !["composing"] = v] \in Pages
         /\ \A v \in BOOLEAN : [p EXCEPT !["scrolling"] = v] \in Pages
<1>1. DOMAIN p = Gestures
  BY DEF Pages, Gestures
<1>2. /\ \A v \in SUBSET Buttons : [p EXCEPT !["pressed"] = v] \in Pages
      /\ \A v \in SUBSET Fingers : [p EXCEPT !["touches"] = v] \in Pages
      /\ \A v \in Nat : [p EXCEPT !["entered"] = v] \in Pages
      /\ \A v \in SUBSET Widgets : [p EXCEPT !["composing"] = v] \in Pages
      /\ \A v \in BOOLEAN : [p EXCEPT !["scrolling"] = v] \in Pages
  BY DEF Pages
<1> QED
  BY <1>1, <1>2

(* Whether a drag is inside. *)
Inside(d) == IF d = "active" THEN 1 ELSE 0

(* What is believed of each gesture. *)
LEMMA ToldFields ==
  ASSUME NEW w
  PROVE  /\ Told(w)["pressed"] = held /\ Told(w)["touches"] = points
         /\ Told(w)["entered"] = Inside(drag)
         /\ Told(w)["composing"] = IF composing THEN {focus[w]} ELSE {}
         /\ Told(w)["scrolling"] = scrolling
  BY DEF Told, Inside

LEMMA ToldFieldsNext ==
  ASSUME NEW w
  PROVE  /\ Told(w)["pressed"]' = held' /\ Told(w)["touches"]' = points'
         /\ Told(w)["entered"]' = Inside(drag')
         /\ Told(w)["composing"]' = IF composing' THEN {focus'[w]} ELSE {}
         /\ Told(w)["scrolling"]' = scrolling'
  BY DEF Told, Inside

(* What a dispatcher leaves alone is believed as before. *)
LEMMA OthersKept ==
  ASSUME NEW w, focus' = focus
  PROVE  /\ UNCHANGED <<points, drag, composing, scrolling>> =>
              \A g \in Gestures \ {"pressed"} : Told(w)[g]' = Told(w)[g]
         /\ UNCHANGED <<held, drag, composing, scrolling>> =>
              \A g \in Gestures \ {"touches"} : Told(w)[g]' = Told(w)[g]
         /\ UNCHANGED <<held, points, composing, scrolling>> =>
              \A g \in Gestures \ {"entered"} : Told(w)[g]' = Told(w)[g]
         /\ UNCHANGED <<held, points, drag, scrolling>> =>
              \A g \in Gestures \ {"composing"} : Told(w)[g]' = Told(w)[g]
         /\ UNCHANGED <<held, points, drag, composing>> =>
              \A g \in Gestures \ {"scrolling"} : Told(w)[g]' = Told(w)[g]
<1>1. held' = held => Told(w)["pressed"]' = Told(w)["pressed"]
  BY ToldFields, ToldFieldsNext
<1>2. points' = points => Told(w)["touches"]' = Told(w)["touches"]
  BY ToldFields, ToldFieldsNext
<1>3. drag' = drag => Told(w)["entered"]' = Told(w)["entered"]
  BY ToldFields, ToldFieldsNext
<1>4. composing' = composing => Told(w)["composing"]' = Told(w)["composing"]
  BY DEF Told
<1>5. scrolling' = scrolling => Told(w)["scrolling"]' = Told(w)["scrolling"]
  BY ToldFields, ToldFieldsNext, Zenon
<1>6. \A g \in Gestures : \/ g = "pressed" \/ g = "touches" \/ g = "entered"
                         \/ g = "composing" \/ g = "scrolling"
  BY DEF Gestures
<1>7. UNCHANGED <<points, drag, composing, scrolling>> =>
        \A g \in Gestures \ {"pressed"} : Told(w)[g]' = Told(w)[g]
  BY <1>2, <1>3, <1>4, <1>5, <1>6, Zenon
<1>8. UNCHANGED <<held, drag, composing, scrolling>> =>
        \A g \in Gestures \ {"touches"} : Told(w)[g]' = Told(w)[g]
  BY <1>1, <1>3, <1>4, <1>5, <1>6, Zenon
<1>9. UNCHANGED <<held, points, composing, scrolling>> =>
        \A g \in Gestures \ {"entered"} : Told(w)[g]' = Told(w)[g]
  BY <1>1, <1>2, <1>4, <1>5, <1>6, Zenon
<1>10. UNCHANGED <<held, points, drag, scrolling>> =>
        \A g \in Gestures \ {"composing"} : Told(w)[g]' = Told(w)[g]
  BY <1>1, <1>2, <1>3, <1>5, <1>6, Zenon
<1>11. UNCHANGED <<held, points, drag, composing>> =>
        \A g \in Gestures \ {"scrolling"} : Told(w)[g]' = Told(w)[g]
  BY <1>1, <1>2, <1>3, <1>4, <1>6, Zenon
<1> QED
  BY <1>7, <1>8, <1>9, <1>10, <1>11

(* Forward changes one field of the page in front.  If the page agreed on  *)
(* it, and it becomes what the dispatchers now believe, it still does; the *)
(* other fields and every other page are left alone.                       *)
LEMMA ForwardAgrees ==
  ASSUME TabTypeOK, AllAgree, NEW f \in Gestures, NEW v, Forward(f, v),
         HasWidget => [Front EXCEPT ![f] = v] \in Pages,
         \A w \in Tabs, g \in Gestures \ {f} : Told(w)[g]' = Told(w)[g],
         \A w \in Tabs :
           HasWidget /\ w = active /\ Front[f] = Told(w)[f] => v = Told(w)[f]'
  PROVE  TabTypeOK' /\ AllAgree'
<1>1. /\ events' \in 0..MaxEvents /\ active' = active /\ strays' = strays
      /\ tabOps' = tabOps /\ focus' = focus
  BY DEF Forward, TabTypeOK
<1>2. CASE HasWidget
  <2>1. active \in Tabs
    BY <1>2 DEF HasWidget, TabTypeOK
  <2>0. /\ page \in [Tabs -> Pages] /\ Front = page[active] /\ Front \in Pages
        /\ DOMAIN Front = Gestures
    BY <2>1, PageField DEF TabTypeOK, Front
  <2>2. page' = [page EXCEPT ![active] = [Front EXCEPT ![f] = v]]
    BY <1>2 DEF Forward, HasWidget, Front
  <2>3. page' \in [Tabs -> Pages]
    BY <1>2, <2>0, <2>1, <2>2
  <2>4. ASSUME NEW w \in Tabs, NEW g \in Gestures, <<w, g>> \notin strays'
        PROVE  page'[w][g] = IF HasWidget' /\ w = active' THEN Told(w)[g]' ELSE Blank[g]
    <3>1. CASE w = active
      <4>1. Front[g] = Told(w)[g]
        BY <1>1, <1>2, <2>1, <2>4, <3>1 DEF AllAgree, Front
      <4>2. page'[w] = [Front EXCEPT ![f] = v]
        BY <2>0, <2>1, <2>2, <3>1
      <4>3. page'[w][g] = Told(w)[g]'
        <5>1. CASE g = f
          BY <1>2, <2>0, <3>1, <4>1, <4>2, <5>1
        <5>2. CASE g # f
          BY <2>0, <4>1, <4>2, <5>2
        <5> QED
          BY <5>1, <5>2
      <4> QED
        BY <1>1, <1>2, <3>1, <4>3 DEF HasWidget
    <3>2. CASE w # active
      <4>1. page'[w] = page[w]
        BY <2>0, <2>2, <2>4, <3>2
      <4>2. page[w][g] = Blank[g]
        BY <1>1, <2>4, <3>2 DEF AllAgree
      <4> QED
        BY <1>1, <3>2, <4>1, <4>2
    <3> QED
      BY <3>1, <3>2
  <2> QED
    BY <1>1, <2>3, <2>4 DEF TabTypeOK, AllAgree
<1>3. CASE ~HasWidget
  <2>1. page' = page
    BY <1>3 DEF Forward, HasWidget
  <2>2. AllAgree'
    BY <1>1, <1>3, <2>1 DEF AllAgree, HasWidget, Blank
  <2> QED
    BY <1>1, <2>1, <2>2 DEF TabTypeOK
<1> QED
  BY <1>2, <1>3

(* A button goes down, in the dispatcher and in the page. *)
LEMMA MouseDownInv ==
  ASSUME Inv, NEW b \in Buttons, NEW again \in BOOLEAN, MouseDown(b, again) PROVE Inv'
<1> DEFINE v == Front.pressed \union {b}
<1> USE InvParts DEF MouseDown
<1>1. DispatchTypeOK'
  <2>1. ClickCount(b, again) \in 0..MaxClick
    BY DEF ClickCount, DispatchTypeOK
  <2> QED
    BY <2>1 DEF DispatchTypeOK
<1>2. HasWidget => Front \in Pages
  BY DEF Front, HasWidget, TabTypeOK
<1>3. HasWidget => v \in SUBSET Buttons
  BY <1>2 DEF Pages
<1>4. \A w \in Tabs :
        HasWidget /\ w = active /\ Front["pressed"] = Told(w)["pressed"] =>
          v = Told(w)["pressed"]'
  BY ToldFields, ToldFieldsNext
<1>5. Forward("pressed", v) /\ UNCHANGED <<points, drag, composing, scrolling>>
  OBVIOUS
<1> HIDE DEF v, MouseDown
<1>6. "pressed" \in Gestures
  BY DEF Gestures
<1>7. HasWidget => [Front EXCEPT !["pressed"] = v] \in Pages
  BY <1>2, <1>3, PageField
<1>8. \A w \in Tabs, g \in Gestures \ {"pressed"} : Told(w)[g]' = Told(w)[g]
  BY <1>5, OthersKept DEF Forward
<1>9. TabTypeOK' /\ AllAgree'
  BY <1>4, <1>5, <1>6, <1>7, <1>8, ForwardAgrees
<1> QED
  BY <1>1, <1>9, ClipUnchanged DEF MouseDown

(* A button goes up. *)
LEMMA MouseUpInv ==
  ASSUME Inv, NEW b \in Buttons, MouseUp(b) PROVE Inv'
<1> DEFINE v == Front.pressed \ {b}
<1> USE InvParts DEF MouseUp
<1>1. DispatchTypeOK'
  BY DEF DispatchTypeOK
<1>2. HasWidget => Front \in Pages
  BY DEF Front, HasWidget, TabTypeOK
<1>3. HasWidget => v \in SUBSET Buttons
  BY <1>2 DEF Pages
<1>4. \A w \in Tabs :
        HasWidget /\ w = active /\ Front["pressed"] = Told(w)["pressed"] =>
          v = Told(w)["pressed"]'
  BY ToldFields, ToldFieldsNext
<1>5. Forward("pressed", v) /\ UNCHANGED <<points, drag, composing, scrolling>>
  OBVIOUS
<1> HIDE DEF v, MouseUp
<1>6. "pressed" \in Gestures
  BY DEF Gestures
<1>7. HasWidget => [Front EXCEPT !["pressed"] = v] \in Pages
  BY <1>2, <1>3, PageField
<1>8. \A w \in Tabs, g \in Gestures \ {"pressed"} : Told(w)[g]' = Told(w)[g]
  BY <1>5, OthersKept DEF Forward
<1>9. TabTypeOK' /\ AllAgree'
  BY <1>4, <1>5, <1>6, <1>7, <1>8, ForwardAgrees
<1> QED
  BY <1>1, <1>9, ClipUnchanged DEF MouseUp

(* The wheel: only a start and an end change what is under way. *)
LEMMA DispatchMouseWheelInv ==
  ASSUME Inv, NEW phase \in {"start", "changed", "end"}, DispatchMouseWheel(phase) PROVE Inv'
<1> DEFINE v == CASE phase = "start" -> TRUE
                  [] phase = "end" -> FALSE
                  [] OTHER -> Front.scrolling
<1> USE InvParts DEF DispatchMouseWheel
<1>1. DispatchTypeOK'
  <2>1. scrolling' \in BOOLEAN
    BY DEF DispatchTypeOK
  <2> QED
    BY <2>1 DEF DispatchTypeOK
<1>2. HasWidget => Front \in Pages
  BY DEF Front, HasWidget, TabTypeOK
<1>3. HasWidget => v \in BOOLEAN
  BY <1>2 DEF Pages
<1>4. \A w \in Tabs :
        HasWidget /\ w = active /\ Front["scrolling"] = Told(w)["scrolling"] =>
          v = Told(w)["scrolling"]'
  BY ToldFields, ToldFieldsNext
<1>5. Forward("scrolling", v) /\ UNCHANGED <<held, points, drag, composing>>
  OBVIOUS
<1> HIDE DEF v, DispatchMouseWheel
<1>6. "scrolling" \in Gestures
  BY DEF Gestures
<1>7. HasWidget => [Front EXCEPT !["scrolling"] = v] \in Pages
  BY <1>2, <1>3, PageField
<1>8. \A w \in Tabs, g \in Gestures \ {"scrolling"} : Told(w)[g]' = Told(w)[g]
  BY <1>5, OthersKept DEF Forward
<1>9. TabTypeOK' /\ AllAgree'
  BY <1>4, <1>5, <1>6, <1>7, <1>8, ForwardAgrees
<1> QED
  BY <1>1, <1>9, ClipUnchanged DEF DispatchMouseWheel

(* A composition is under way, in the widget that has the focus. *)
LEMMA DispatchCompositionUpdateInv ==
  ASSUME Inv, DispatchCompositionUpdate PROVE Inv'
<1> DEFINE v == Front.composing \union {ResolveFocusedRenderWidgetHost}
<1> USE InvParts DEF DispatchCompositionUpdate
<1>1. DispatchTypeOK'
  BY DEF DispatchTypeOK
<1>2. HasWidget => Front \in Pages
  BY DEF Front, HasWidget, TabTypeOK
<1>3. HasWidget => v \in SUBSET Widgets
  <2>1. HasWidget => focus[active] \in Widgets
    BY DEF HasWidget, TabTypeOK
  <2> QED
    BY <1>2, <2>1 DEF Pages, ResolveFocusedRenderWidgetHost
<1>4. \A w \in Tabs :
        HasWidget /\ w = active /\ Front["composing"] = Told(w)["composing"] =>
          v = Told(w)["composing"]'
  <2>1. composing' = TRUE /\ focus' = focus
    BY DEF Forward
  <2>2. \A w : Told(w)["composing"]' = {focus[w]}
    BY <2>1, ToldFieldsNext
  <2>3. \A w : Told(w)["composing"] \subseteq {focus[w]}
    BY ToldFields
  <2> QED
    BY <2>2, <2>3 DEF ResolveFocusedRenderWidgetHost
<1>5. Forward("composing", v) /\ UNCHANGED <<held, points, drag, scrolling>>
  OBVIOUS
<1> HIDE DEF v, DispatchCompositionUpdate
<1>6. "composing" \in Gestures
  BY DEF Gestures
<1>7. HasWidget => [Front EXCEPT !["composing"] = v] \in Pages
  BY <1>2, <1>3, PageField
<1>8. \A w \in Tabs, g \in Gestures \ {"composing"} : Told(w)[g]' = Told(w)[g]
  BY <1>5, OthersKept DEF Forward
<1>9. TabTypeOK' /\ AllAgree'
  BY <1>4, <1>5, <1>6, <1>7, <1>8, ForwardAgrees
<1> QED
  BY <1>1, <1>9, ClipUnchanged DEF DispatchCompositionUpdate

(* A composition ends, with or without a widget to tell. *)
LEMMA DispatchCompositionEndInv ==
  ASSUME Inv, DispatchCompositionEnd PROVE Inv'
<1> DEFINE v == Front.composing \ {ResolveFocusedRenderWidgetHost}
<1> USE InvParts DEF DispatchCompositionEnd
<1>1. DispatchTypeOK'
  BY DEF DispatchTypeOK
<1>2. HasWidget => Front \in Pages
  BY DEF Front, HasWidget, TabTypeOK
<1>3. HasWidget => v \in SUBSET Widgets
  BY <1>2 DEF Pages
<1>4. \A w \in Tabs :
        HasWidget /\ w = active /\ Front["composing"] = Told(w)["composing"] =>
          v = Told(w)["composing"]'
  <2>1. composing' = FALSE
    OBVIOUS
  <2>2. \A w : Told(w)["composing"]' = {}
    BY <2>1, ToldFieldsNext
  <2>3. \A w : Told(w)["composing"] \subseteq {focus[w]}
    BY ToldFields
  <2> QED
    BY <2>2, <2>3 DEF ResolveFocusedRenderWidgetHost
<1>5. Forward("composing", v) /\ UNCHANGED <<held, points, drag, scrolling>>
  OBVIOUS
<1> HIDE DEF v, DispatchCompositionEnd
<1>6. "composing" \in Gestures
  BY DEF Gestures
<1>7. HasWidget => [Front EXCEPT !["composing"] = v] \in Pages
  BY <1>2, <1>3, PageField
<1>8. \A w \in Tabs, g \in Gestures \ {"composing"} : Told(w)[g]' = Told(w)[g]
  BY <1>5, OthersKept DEF Forward
<1>9. TabTypeOK' /\ AllAgree'
  BY <1>4, <1>5, <1>6, <1>7, <1>8, ForwardAgrees
<1> QED
  BY <1>1, <1>9, ClipUnchanged DEF DispatchCompositionEnd

(* A finger comes down: the cap is checked before the point is kept, so    *)
(* the event is always forwarded.                                          *)
LEMMA DispatchTouchStartInv ==
  ASSUME Inv, NEW f \in Fingers, DispatchTouchStart(f) PROVE Inv'
<1> DEFINE v == AssembleTouchEvent(Cardinality(points'), Front.touches \union {f})
<1> USE InvParts DEF DispatchTouchStart
<1>0. /\ IsFiniteSet(points') /\ Cardinality(points') <= Cap
      /\ Cardinality(points') \in Nat
  <2>1. CASE f \in points
    <3>1. points' = points
      BY <2>1
    <3> QED
      BY <3>1, FS_CardinalityType DEF DispatchTypeOK
  <2>2. CASE f \notin points
    <3>1. Cardinality(points') = Cardinality(points) + 1 /\ IsFiniteSet(points')
      BY <2>2, FS_AddElement DEF DispatchTypeOK
    <3> QED
      BY <2>2, <3>1, FS_CardinalityType DEF DispatchTypeOK
  <2> QED
    BY <2>1, <2>2
<1>10. v = Front.touches \union {f}
  BY <1>0 DEF AssembleTouchEvent
<1>1. DispatchTypeOK'
  BY <1>0 DEF DispatchTypeOK
<1>2. HasWidget => Front \in Pages
  BY DEF Front, HasWidget, TabTypeOK
<1>3. HasWidget => v \in SUBSET Fingers
  BY <1>2, <1>10 DEF Pages
<1>4. \A w \in Tabs :
        HasWidget /\ w = active /\ Front["touches"] = Told(w)["touches"] =>
          v = Told(w)["touches"]'
  BY <1>10, ToldFields, ToldFieldsNext
<1>5. Forward("touches", v) /\ UNCHANGED <<held, drag, composing, scrolling>>
  OBVIOUS
<1> HIDE DEF v, DispatchTouchStart
<1>6. "touches" \in Gestures
  BY DEF Gestures
<1>7. HasWidget => [Front EXCEPT !["touches"] = v] \in Pages
  BY <1>2, <1>3, PageField
<1>8. \A w \in Tabs, g \in Gestures \ {"touches"} : Told(w)[g]' = Told(w)[g]
  BY <1>5, OthersKept DEF Forward
<1>9. TabTypeOK' /\ AllAgree'
  BY <1>4, <1>5, <1>6, <1>7, <1>8, ForwardAgrees
<1> QED
  BY <1>1, <1>9, ClipUnchanged DEF DispatchTouchStart

(* A finger goes up: it was one of at most Cap, so that with it listed     *)
(* once more the event still fits.                                         *)
LEMMA DispatchTouchEndInv ==
  ASSUME Inv, NEW f \in Fingers, DispatchTouchEnd(f) PROVE Inv'
<1> DEFINE v == AssembleTouchEvent(Cardinality(points') + 1, Front.touches \ {f})
<1> USE InvParts DEF DispatchTouchEnd
<1>0. /\ IsFiniteSet(points') /\ Cardinality(points') + 1 <= Cap
      /\ Cardinality(points') \in Nat
  BY FS_RemoveElement, FS_CardinalityType DEF DispatchTypeOK
<1>10. v = Front.touches \ {f}
  BY <1>0 DEF AssembleTouchEvent
<1>1. DispatchTypeOK'
  BY <1>0 DEF DispatchTypeOK
<1>2. HasWidget => Front \in Pages
  BY DEF Front, HasWidget, TabTypeOK
<1>3. HasWidget => v \in SUBSET Fingers
  BY <1>2, <1>10 DEF Pages
<1>4. \A w \in Tabs :
        HasWidget /\ w = active /\ Front["touches"] = Told(w)["touches"] =>
          v = Told(w)["touches"]'
  BY <1>10, ToldFields, ToldFieldsNext
<1>5. Forward("touches", v) /\ UNCHANGED <<held, drag, composing, scrolling>>
  OBVIOUS
<1> HIDE DEF v, DispatchTouchEnd
<1>6. "touches" \in Gestures
  BY DEF Gestures
<1>7. HasWidget => [Front EXCEPT !["touches"] = v] \in Pages
  BY <1>2, <1>3, PageField
<1>8. \A w \in Tabs, g \in Gestures \ {"touches"} : Told(w)[g]' = Told(w)[g]
  BY <1>5, OthersKept DEF Forward
<1>9. TabTypeOK' /\ AllAgree'
  BY <1>4, <1>5, <1>6, <1>7, <1>8, ForwardAgrees
<1> QED
  BY <1>1, <1>9, ClipUnchanged DEF DispatchTouchEnd

(* A drag enters once, also when the last one was never ended. *)
LEMMA DispatchDragStartInv ==
  ASSUME Inv, DispatchDragStart PROVE Inv'
<1> DEFINE v == (IF drag = "idle" THEN Front.entered ELSE Left(Front.entered)) + 1
<1> USE InvParts DEF DispatchDragStart
<1>1. DispatchTypeOK'
  BY DEF DispatchTypeOK
<1>2. HasWidget => Front \in Pages
  BY DEF Front, HasWidget, TabTypeOK
<1>3. HasWidget => v \in Nat
  <2>1. HasWidget => Front.entered \in Nat
    BY <1>2 DEF Pages
  <2> QED
    BY <2>1 DEF Left
<1>4. \A w \in Tabs :
        HasWidget /\ w = active /\ Front["entered"] = Told(w)["entered"] =>
          v = Told(w)["entered"]'
  <2>1. \A w : Told(w)["entered"] = Inside(drag) /\ Told(w)["entered"]' = Inside(drag')
    BY ToldFields, ToldFieldsNext
  <2> QED
    BY <2>1 DEF Inside, Left, DispatchTypeOK
<1>5. Forward("entered", v) /\ UNCHANGED <<held, points, composing, scrolling>>
  OBVIOUS
<1> HIDE DEF v, DispatchDragStart
<1>6. "entered" \in Gestures
  BY DEF Gestures
<1>7. HasWidget => [Front EXCEPT !["entered"] = v] \in Pages
  BY <1>2, <1>3, PageField
<1>8. \A w \in Tabs, g \in Gestures \ {"entered"} : Told(w)[g]' = Told(w)[g]
  BY <1>5, OthersKept DEF Forward
<1>9. TabTypeOK' /\ AllAgree'
  BY <1>4, <1>5, <1>6, <1>7, <1>8, ForwardAgrees
<1> QED
  BY <1>1, <1>9, ClipUnchanged DEF DispatchDragStart

(* A drop takes the drag out of the page, if there was one. *)
LEMMA DispatchDropInv ==
  ASSUME Inv, DispatchDrop PROVE Inv'
<1> DEFINE v == Left(Front.entered)
<1> USE InvParts DEF DispatchDrop
<1>1. DispatchTypeOK'
  BY DEF DispatchTypeOK
<1>2. HasWidget => Front \in Pages
  BY DEF Front, HasWidget, TabTypeOK
<1>3. HasWidget => v \in Nat
  <2>1. HasWidget => Front.entered \in Nat
    BY <1>2 DEF Pages
  <2> QED
    BY <2>1 DEF Left
<1>4. \A w \in Tabs :
        HasWidget /\ w = active /\ Front["entered"] = Told(w)["entered"] =>
          v = Told(w)["entered"]'
  <2>1. \A w : Told(w)["entered"] = Inside(drag) /\ Told(w)["entered"]' = Inside(drag')
    BY ToldFields, ToldFieldsNext
  <2> QED
    BY <2>1 DEF Inside, Left, DispatchTypeOK
<1>5. Forward("entered", v) /\ UNCHANGED <<held, points, composing, scrolling>>
  OBVIOUS
<1> HIDE DEF v, DispatchDrop
<1>6. "entered" \in Gestures
  BY DEF Gestures
<1>7. HasWidget => [Front EXCEPT !["entered"] = v] \in Pages
  BY <1>2, <1>3, PageField
<1>8. \A w \in Tabs, g \in Gestures \ {"entered"} : Told(w)[g]' = Told(w)[g]
  BY <1>5, OthersKept DEF Forward
<1>9. TabTypeOK' /\ AllAgree'
  BY <1>4, <1>5, <1>6, <1>7, <1>8, ForwardAgrees
<1> QED
  BY <1>1, <1>9, ClipUnchanged DEF DispatchDrop

(* An end leaves no drag in the page, dropped or not. *)
LEMMA DispatchDragEndInv ==
  ASSUME Inv, NEW success \in BOOLEAN, DispatchDragEnd(success) PROVE Inv'
<1> DEFINE v == IF drag = "active" \/ ~success THEN Left(Front.entered)
            ELSE Front.entered
<1> USE InvParts DEF DispatchDragEnd
<1>1. DispatchTypeOK'
  BY DEF DispatchTypeOK
<1>2. HasWidget => Front \in Pages
  BY DEF Front, HasWidget, TabTypeOK
<1>3. HasWidget => v \in Nat
  <2>1. HasWidget => Front.entered \in Nat
    BY <1>2 DEF Pages
  <2> QED
    BY <2>1 DEF Left
<1>4. \A w \in Tabs :
        HasWidget /\ w = active /\ Front["entered"] = Told(w)["entered"] =>
          v = Told(w)["entered"]'
  <2>1. \A w : Told(w)["entered"] = Inside(drag) /\ Told(w)["entered"]' = Inside(drag')
    BY ToldFields, ToldFieldsNext
  <2> QED
    BY <2>1 DEF Inside, Left, DispatchTypeOK
<1>5. Forward("entered", v) /\ UNCHANGED <<held, points, composing, scrolling>>
  OBVIOUS
<1> HIDE DEF v, DispatchDragEnd
<1>6. "entered" \in Gestures
  BY DEF Gestures
<1>7. HasWidget => [Front EXCEPT !["entered"] = v] \in Pages
  BY <1>2, <1>3, PageField
<1>8. \A w \in Tabs, g \in Gestures \ {"entered"} : Told(w)[g]' = Told(w)[g]
  BY <1>5, OthersKept DEF Forward
<1>9. TabTypeOK' /\ AllAgree'
  BY <1>4, <1>5, <1>6, <1>7, <1>8, ForwardAgrees
<1> QED
  BY <1>1, <1>9, ClipUnchanged DEF DispatchDragEnd

(* Steps that change neither what the dispatchers keep nor the focus. *)
LEMMA ToldKept ==
  ASSUME UNCHANGED <<held, points, drag, composing, scrolling>>
  PROVE  \A w : focus'[w] = focus[w] => Told(w)' = Told(w)
  BY DEF Told

(* Keys and the copy request change neither what is believed nor what was  *)
(* told.                                                                   *)
LEMMA KeysInv ==
  ASSUME Inv,
         \/ \E k \in Modifiers \union {"KeyC"}, m \in {{}, {"Control"}} : DispatchKeyDown(k, m)
         \/ \E k \in Modifiers \union {"KeyC"} : DispatchKeyUp(k)
         \/ DispatchCopy
  PROVE  Inv'
<1> USE InvParts
<1>1. /\ Dispatches /\ mods' \subseteq Modifiers
      /\ UNCHANGED <<held, click, scrolling, composing, points, drag>>
  BY DEF DispatchKeyDown, DispatchKeyUp, DispatchCopy, KeyToBlinkModifier, DispatchTypeOK,
     dispatchVars
<1>2. ArmCopyWindow \/ UNCHANGED clipVars
  BY DEF DispatchKeyDown, DispatchKeyUp, DispatchCopy
<1>3. ClipInv'
  BY <1>2, WindowInv, ClipUnchanged
<1>4. DispatchTypeOK'
  BY <1>1 DEF DispatchTypeOK
<1>5. TabTypeOK'
  BY <1>1 DEF Dispatches, TabTypeOK, tabVars
<1>6. AllAgree'
  BY <1>1, ToldKept DEF Dispatches, AllAgree, HasWidget, tabVars
<1> QED
  BY <1>3, <1>4, <1>5, <1>6

(* The relay's steps leave the rest alone. *)
LEMMA RelayInv == Inv /\ Relay => Inv'
<1> SUFFICES ASSUME Inv, Relay PROVE Inv'
  OBVIOUS
<1> USE InvParts
<1>1. ClipInv'
  BY HandleInboundJsonInv, PageCopiesInv, TextCapturedInv, TextReadInv, ApplyPasteInv, WindowInv DEF Relay
<1>2. DispatchTypeOK' /\ TabTypeOK'
  BY DEF Relay, DispatchTypeOK, TabTypeOK, dispatchVars, tabVars
<1>3. AllAgree'
  BY ToldKept DEF Relay, AllAgree, HasWidget, dispatchVars, tabVars
<1> QED
  BY <1>1, <1>2, <1>3

(* What is cut off in a tab is of that tab; what is not was not under way. *)
LEMMA CutOffTypes ==
  ASSUME NEW w \in Tabs
  PROVE  /\ CutOff(w) \subseteq Tabs \X Gestures
         /\ \A g \in Gestures : <<w, g>> \notin CutOff(w) => Told(w)[g] = Blank[g]
  BY DEF CutOff

(* A tab change in the middle of a gesture cuts it off in both tabs; of    *)
(* what is at rest, every page has been told nothing.                      *)
LEMMA SwitchTabInv ==
  ASSUME Inv, NEW w \in Tabs \union {None}, SwitchTab(w) PROVE Inv'
<1> USE InvParts DEF SwitchTab
<1>1. DispatchTypeOK' /\ UNCHANGED <<held, points, drag, composing, scrolling, focus>>
  BY DEF DispatchTypeOK, dispatchVars
<1>2. \A x : Told(x)' = Told(x)
  BY <1>1, ToldKept
<1>3. active \in Tabs \union {None}
  BY DEF TabTypeOK
<1>4. /\ strays' \subseteq Tabs \X Gestures
      /\ \A x \in {active, w} \ {None} : CutOff(x) \subseteq strays'
      /\ strays \subseteq strays'
  BY <1>3, CutOffTypes DEF TabTypeOK
<1>5. TabTypeOK'
  BY <1>4 DEF TabTypeOK
<1>6. ASSUME NEW x \in Tabs, NEW g \in Gestures, <<x, g>> \notin strays'
      PROVE  page'[x][g] = IF HasWidget' /\ x = active' THEN Told(x)[g]' ELSE Blank[g]
  <2>1. page[x][g] = IF HasWidget /\ x = active THEN Told(x)[g] ELSE Blank[g]
    BY <1>4, <1>6 DEF AllAgree
  <2>2. x \in {active, w} \ {None} => Told(x)[g] = Blank[g]
    BY <1>4, <1>6, CutOffTypes
  <2>3. page[x][g] = Blank[g]
    BY <2>1, <2>2 DEF HasWidget
  <2>4. HasWidget' /\ x = active' => Told(x)[g]' = Blank[g]
    BY <1>2, <2>2 DEF HasWidget
  <2> QED
    BY <2>3, <2>4
<1>7. AllAgree'
  BY <1>6 DEF AllAgree, Blank
<1> QED
  BY <1>1, <1>5, <1>7, ClipUnchanged

(* A page that is replaced knows nothing, which is right of what is at     *)
(* rest.                                                                   *)
LEMMA PageReplacedInv ==
  ASSUME Inv, NEW w \in Tabs, PageReplaced(w) PROVE Inv'
<1> USE InvParts DEF PageReplaced
<1>1. DispatchTypeOK' /\ UNCHANGED <<held, points, drag, composing, scrolling>>
  BY DEF DispatchTypeOK, dispatchVars
<1>2. /\ page' \in [Tabs -> Pages] /\ page'[w] = Blank
      /\ \A x \in Tabs \ {w} : page'[x] = page[x]
  BY ToldIsPage DEF TabTypeOK
<1>3. /\ focus' \in [Tabs -> Widgets] /\ \A x \in Tabs \ {w} : focus'[x] = focus[x]
  BY DEF TabTypeOK, Widgets
<1>4. strays' \subseteq Tabs \X Gestures
  BY CutOffTypes DEF TabTypeOK
<1>5. TabTypeOK'
  BY <1>2, <1>3, <1>4 DEF TabTypeOK
<1>6. ASSUME NEW x \in Tabs, NEW g \in Gestures, <<x, g>> \notin strays'
      PROVE  page'[x][g] = IF HasWidget' /\ x = active' THEN Told(x)[g]' ELSE Blank[g]
  <2>1. CASE x = w
    <3>1. ASSUME x = active PROVE Told(x)[g]' = Blank[g]
      <4>1. Told(x)[g] = Blank[g]
        BY <1>6, <2>1, <3>1, CutOffTypes
      <4>2. CASE g = "composing"
        <5>1. ~composing
          BY <4>1, <4>2, ToldFields DEF Blank
        <5> QED
          BY <1>1, <4>2, <5>1, ToldFieldsNext DEF Blank
      <4>3. CASE g # "composing"
        BY <1>1, <4>1, <4>3, ToldFields, ToldFieldsNext DEF Gestures
      <4> QED
        BY <4>2, <4>3
    <3> QED
      BY <1>2, <2>1, <3>1
  <2>2. CASE x # w
    <3>1. <<x, g>> \notin strays
      BY <1>6, <2>2
    <3>2. Told(x)[g]' = Told(x)[g]
      BY <1>1, <1>3, <2>2, ToldKept
    <3> QED
      BY <1>2, <2>2, <3>1, <3>2 DEF AllAgree, HasWidget
  <2> QED
    BY <2>1, <2>2
<1>7. AllAgree'
  BY <1>6 DEF AllAgree, Blank
<1> QED
  BY <1>1, <1>5, <1>7, ClipUnchanged

(* The focus moves: what is believed changes for a composition under way   *)
(* in front, and that one is cut off.                                      *)
LEMMA FocusMovesInv ==
  ASSUME Inv, NEW w \in Tabs, NEW y \in Widgets, FocusMoves(w, y) PROVE Inv'
<1> USE InvParts DEF FocusMoves
<1>1. DispatchTypeOK' /\ UNCHANGED <<held, points, drag, composing, scrolling>>
  BY DEF DispatchTypeOK, dispatchVars
<1>2. focus' \in [Tabs -> Widgets] /\ \A x \in Tabs \ {w} : focus'[x] = focus[x]
  BY DEF TabTypeOK
<1>3. TabTypeOK'
  BY <1>2 DEF TabTypeOK, Gestures
<1>4. ASSUME NEW x \in Tabs, NEW g \in Gestures, <<x, g>> \notin strays'
      PROVE  page'[x][g] = IF HasWidget' /\ x = active' THEN Told(x)[g]' ELSE Blank[g]
  <2>1. <<x, g>> \notin strays
    BY <1>4
  <2>2. ASSUME x = active PROVE Told(x)[g]' = Told(x)[g]
    <3>1. CASE g = "composing"
      <4>1. x # w \/ ~composing
        BY <1>4, <2>2, <3>1
      <4> QED
        BY <1>1, <1>2, <3>1, <4>1, ToldFields, ToldFieldsNext
    <3>2. CASE g # "composing"
      BY <1>1, <3>2, ToldFields, ToldFieldsNext DEF Gestures
    <3> QED
      BY <3>1, <3>2
  <2> QED
    BY <2>1, <2>2 DEF AllAgree, HasWidget
<1>5. AllAgree'
  BY <1>4 DEF AllAgree, Blank
<1> QED
  BY <1>1, <1>3, <1>5, ClipUnchanged

-----------------------------------------------------------------------------
(* The invariant holds at the start. *)
LEMMA InitInv == Init => Inv
<1> SUFFICES ASSUME Init PROVE Inv
  OBVIOUS
<1> USE InvParts DEF Init
<1>1. DispatchTypeOK
  <2>1. IsFiniteSet(points) /\ Cardinality(points) <= Cap
    BY FS_EmptySet
  <2>2. click \in [button : Buttons \union {None}, count : 0..MaxClick]
    OBVIOUS
  <2>3. scrolling \in BOOLEAN /\ composing \in BOOLEAN /\ drag = "idle"
    OBVIOUS
  <2> QED
    BY <2>1, <2>2, <2>3 DEF DispatchTypeOK
<1>2. \A w : Told(w) = Blank
  BY DEF Told, Blank
<1>3. TabTypeOK
  <2>1. focus \in [Tabs -> Widgets]
    BY DEF Widgets
  <2> QED
    BY <2>1, ToldIsPage DEF TabTypeOK
<1>4. AllAgree
  BY <1>2 DEF AllAgree
<1> QED
  BY <1>1, <1>3, <1>4, ClipInitInv

(* Every step preserves it. *)
LEMMA StepInv == Inv /\ [Next]_vars => Inv'
<1> SUFFICES ASSUME Inv, [Next]_vars PROVE Inv'
  OBVIOUS
<1>1. CASE OnInputEvent
  BY <1>1, MouseDownInv, MouseUpInv, DispatchMouseWheelInv, KeysInv,
     DispatchCompositionUpdateInv, DispatchCompositionEndInv, DispatchTouchStartInv,
     DispatchTouchEndInv, DispatchDragStartInv, DispatchDropInv, DispatchDragEndInv
  DEF OnInputEvent
<1>2. CASE Relay
  BY <1>2, RelayInv
<1>3. CASE \E w \in Tabs \union {None} : SwitchTab(w)
  BY <1>3, SwitchTabInv
<1>4. CASE \E w \in Tabs : PageReplaced(w)
  BY <1>4, PageReplacedInv
<1>6. CASE \E w \in Tabs, x \in Widgets : FocusMoves(w, x)
  BY <1>6, FocusMovesInv
<1>5. CASE UNCHANGED vars
  <2>1. DispatchTypeOK' /\ TabTypeOK' /\ ClipInv'
    BY <1>5, InvParts, ClipUnchanged DEF vars, DispatchTypeOK, TabTypeOK, dispatchVars, tabVars
  <2>2. AllAgree'
    BY <1>5, InvParts, ToldKept DEF vars, AllAgree, HasWidget, dispatchVars, tabVars
  <2> QED
    BY <2>1, <2>2, InvParts
<1> QED
  BY <1>1, <1>2, <1>3, <1>4, <1>5, <1>6 DEF Next

(* The invariant holds in every state of every behaviour. *)
THEOREM Invariance == Spec => []Inv
  BY InitInv, StepInv, PTL DEF Spec

(* TypeOK: among the rest, never more touch points than blink's cap are    *)
(* kept, for every cap.                                                    *)
THEOREM InputTyped == Spec => []TypeOK
  BY Invariance, PTL DEF Inv

(* PageAgrees: whatever the viewer sends, the page in front knows of each  *)
(* gesture exactly what the six dispatchers believe, a composition in the  *)
(* widget that has the focus, unless that very gesture was cut off in that *)
(* tab: by a tab change, a reload or, a composition, by a move of the      *)
(* focus.                                                                  *)
THEOREM InputPageAgrees == Spec => []PageAgrees
<1>1. Inv => PageAgrees
  BY DEF Inv, TypeOK, AllAgree, PageAgrees, HasWidget, Front
<1> QED
  BY <1>1, Invariance, PTL

(* NoEcho: the last paste of the viewer's never comes back to it as a      *)
(* copy, an earlier one only through a read that a later paste overtook.   *)
THEOREM InputNoEcho == Spec => []NoEcho
  BY Invariance, PTL DEF Inv, ClipInv

(* OnePerGesture: the viewer gets at most one text per copy gesture. *)
THEOREM InputOnePerGesture == Spec => []OnePerGesture
  BY Invariance, PTL DEF Inv, ClipInv

=============================================================================
