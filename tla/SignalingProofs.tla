-------------------------- MODULE SignalingProofs --------------------------
(***************************************************************************)
(* Proofs about the worker's signaling client: the receive path of the     *)
(* websocket client (WsInbound) and the redial wrapper (Reconnect).        *)
(*                                                                         *)
(* The invariant of the receive path says that the pipe, the queue and the *)
(* assembly of an open channel are one cut through the stream: what was    *)
(* dispatched, what is put aside, what is in the pipe and what is not yet  *)
(* written follow each other without a gap.  The invariant of the wrapper  *)
(* adds to the properties what ties the history of failures to the state   *)
(* of the inner client.                                                    *)
(***************************************************************************)
EXTENDS Reconnect, WsInbound, SequenceTheorems, TLAPS

\* Frames whose bytes have all been taken, and bytes taken from the pipe.
Finished == announced - Len(pending_frames)
Read == written - Len(readable)

WsTyped ==
    /\ wire \in Seq(Frames)
    /\ ws_state \in {"kOpen", "kClosing", "kClosed"}
    /\ announced \in Nat /\ announced <= Len(wire)
    /\ written \in Nat /\ written <= After(Len(wire)).at
    /\ readable \in Seq(Nat)
    /\ pending_frames \in Seq([len : Nat, fin : BOOLEAN])
    /\ inbound_message \in Seq(Nat)
    /\ receiving_message \in BOOLEAN
    /\ draining \in BOOLEAN
    /\ delivered \in Seq(Nat)
    /\ error \in {"none", "write", "sequence", "decode"}

\* Every frame is where the one before it ends, and messages do not overlap.
StreamInv ==
    /\ \A i \in 1..Len(wire) :
          /\ wire[i].at = After(i - 1).at
          /\ wire[i].msg = After(i - 1).msg
          /\ wire[i].from = After(i - 1).from
          /\ wire[i].from <= wire[i].at
    /\ \A i, j \in 1..Len(wire) :
          i < j => /\ End(wire[i]) <= wire[j].at
                   /\ wire[i].fin => End(wire[i]) <= wire[j].from

\* The pipe holds what was written and not yet taken.
PipeInv ==
    ws_state # "kClosed" => /\ Len(readable) <= written
                            /\ readable = Run(Read, written)

\* The queue holds the announced frames that are not finished; only the first
\* may have been shortened, to what is still missing of it.
QueueInv ==
    /\ Len(pending_frames) <= announced
    /\ \A i \in 1..Len(pending_frames) :
          /\ pending_frames[i].fin = wire[Finished + i].fin
          /\ i > 1 => pending_frames[i].len = wire[Finished + i].len
    /\ pending_frames # <<>> =>
          /\ Read + pending_frames[1].len = End(wire[Finished + 1])
          /\ pending_frames[1].len <= wire[Finished + 1].len
    /\ pending_frames = <<>> => Read = After(Finished).at

\* What was taken and not dispatched is the next message so far.
AssemblyInv ==
    /\ After(Finished).from <= Read
    /\ inbound_message = Run(After(Finished).from, Read)
    /\ After(Finished).msg = Len(delivered) + 1
    /\ receiving_message <=> announced > 0 /\ ~wire[announced].fin

OpenInv == ws_state = "kOpen" => QueueInv /\ AssemblyInv

\* Why the channel failed.
FailureInv ==
    /\ error # "none" => ws_state = "kClosed"
    /\ error = "sequence" => ~WellFormed
    /\ error = "decode" => Refuses(Len(delivered) + 1)

WsInv == WsTyped /\ StreamInv /\ PipeInv /\ OpenInv /\ Reassembled /\ FailureInv

-----------------------------------------------------------------------------
(***************************************************************************)
(* Runs of bytes.                                                          *)
(***************************************************************************)

IsRun(s, a, b) ==
    /\ s \in Seq(Nat) /\ Len(s) = b - a
    /\ \A i \in 1..(b - a) : s[i] = a + i

\* A run is a sequence of bytes.
LEMMA RunIs == \A a, b \in Nat : a <= b => IsRun(Run(a, b), a, b)
<1> SUFFICES ASSUME NEW a \in Nat, NEW b \in Nat, a <= b PROVE IsRun(Run(a, b), a, b)
  OBVIOUS
<1>1. b - a \in Nat
  OBVIOUS
<1>2. Run(a, b) \in [1..(b - a) -> Nat]
  BY DEF Run
<1>3. Run(a, b) \in Seq(Nat)
  BY <1>1, <1>2
<1>4. DOMAIN Run(a, b) = 1..(b - a)
  BY DEF Run
<1>5. Len(Run(a, b)) = b - a
  BY <1>1, <1>3, <1>4
<1>6. \A i \in 1..(b - a) : Run(a, b)[i] = a + i
  BY DEF Run
<1> QED
  BY <1>3, <1>5, <1>6 DEF IsRun

\* Sequences that agree everywhere are equal.
LEMMA SameBytes ==
    ASSUME NEW s \in Seq(Nat), NEW t \in Seq(Nat), Len(s) = Len(t),
           \A i \in 1..Len(s) : s[i] = t[i]
    PROVE  s = t
  OBVIOUS

\* The elements of a sequence.
LEMMA ElementIs == \A S : \A s \in Seq(S) : \A i \in 1..Len(s) : s[i] \in S
  OBVIOUS

\* A part of a sequence.
LEMMA PartIs ==
    ASSUME NEW s \in Seq(Nat), NEW m \in Nat, NEW n \in Nat, 1 <= m, m <= n + 1, n <= Len(s)
    PROVE  /\ SubSeq(s, m, n) \in Seq(Nat)
           /\ Len(SubSeq(s, m, n)) = n - m + 1
           /\ \A i \in 1..(n - m + 1) : SubSeq(s, m, n)[i] = s[m + i - 1]
<1>1. \A i \in m..n : s[i] \in Nat
  OBVIOUS
<1> QED
  BY <1>1, SubSeqProperties

\* There is one run from a to b.
LEMMA OneRun ==
    ASSUME NEW a \in Nat, NEW b \in Nat, a <= b, NEW s, IsRun(s, a, b)
    PROVE  s = Run(a, b)
<1>1. IsRun(Run(a, b), a, b)
  BY RunIs
<1> QED
  BY <1>1, SameBytes DEF IsRun

\* A run goes on with the run that follows it.
LEMMA RunJoin ==
    ASSUME NEW a \in Nat, NEW b \in Nat, NEW c \in Nat, a <= b, b <= c
    PROVE  Run(a, b) \o Run(b, c) = Run(a, c)
<1> DEFINE s == Run(a, b)
           t == Run(b, c)
<1>1. IsRun(s, a, b) /\ IsRun(t, b, c)
  BY RunIs
<1> HIDE DEF s, t
<1>2. /\ s \in Seq(Nat) /\ t \in Seq(Nat) /\ Len(s) = b - a /\ Len(t) = c - b
      /\ \A i \in 1..(b - a) : s[i] = a + i
      /\ \A i \in 1..(c - b) : t[i] = b + i
  BY <1>1 DEF IsRun
<1>3. /\ s \o t \in Seq(Nat) /\ Len(s \o t) = c - a
      /\ \A i \in 1..(c - a) : (s \o t)[i] = a + i
  <2>1. /\ s \o t \in Seq(Nat) /\ Len(s \o t) = Len(s) + Len(t)
        /\ \A i \in 1..(Len(s) + Len(t)) :
              (s \o t)[i] = IF i <= Len(s) THEN s[i] ELSE t[i - Len(s)]
    BY <1>2, ConcatProperties
  <2>2. ASSUME NEW i \in 1..(c - a) PROVE (s \o t)[i] = a + i
    <3>1. CASE i <= b - a
      BY <1>2, <2>1, <3>1
    <3>2. CASE ~(i <= b - a)
      <4> DEFINE j == i - (b - a)
      <4>1. j \in 1..(c - b) /\ b + j = a + i
        BY <3>2
      <4>2. i \in 1..(Len(s) + Len(t)) /\ ~(i <= Len(s))
        BY <1>2, <3>2
      <4>3. (s \o t)[i] = t[i - Len(s)]
        BY <2>1, <4>2
      <4>4. (s \o t)[i] = t[j]
        BY <1>2, <4>3
      <4> HIDE DEF j
      <4> QED
        BY <1>2, <4>1, <4>4
    <3> QED
      BY <3>1, <3>2
  <2> QED
    BY <1>2, <2>1, <2>2
<1>4. IsRun(s \o t, a, c)
  BY <1>3 DEF IsRun
<1>5. a <= c
  OBVIOUS
<1> QED
  BY <1>4, <1>5, OneRun DEF s, t

\* The first k bytes, and the ones after them.
First(s, k) == SubSeq(s, 1, k)
Rest(s, k) == SubSeq(s, k + 1, Len(s))

\* A run cut in two.
LEMMA RunCut ==
    ASSUME NEW a \in Nat, NEW b \in Nat, NEW k \in Nat, a + k <= b
    PROVE  First(Run(a, b), k) = Run(a, a + k) /\ Rest(Run(a, b), k) = Run(a + k, b)
<1> DEFINE s == Run(a, b)
<1>0. a <= b /\ a <= a + k /\ a + k \in Nat
  OBVIOUS
<1>1. IsRun(s, a, b)
  BY <1>0, RunIs
<1> HIDE DEF s
<1>2. /\ s \in Seq(Nat) /\ Len(s) = b - a /\ b - a \in Nat /\ k <= b - a
      /\ \A i \in 1..(b - a) : s[i] = a + i
  BY <1>0, <1>1 DEF IsRun
<1>3. IsRun(SubSeq(s, 1, k), a, a + k)
  <2>1. /\ SubSeq(s, 1, k) \in Seq(Nat) /\ Len(SubSeq(s, 1, k)) = k
        /\ \A i \in 1..k : SubSeq(s, 1, k)[i] = s[i]
    BY <1>2, PartIs
  <2> QED
    BY <1>2, <2>1 DEF IsRun
<1>4. IsRun(SubSeq(s, k + 1, Len(s)), a + k, b)
  <2> DEFINE t == SubSeq(s, k + 1, Len(s))
  <2>1. /\ t \in Seq(Nat) /\ Len(t) = (b - a) - k
        /\ \A i \in 1..((b - a) - k) : t[i] = s[k + i]
    <3>1. k + 1 \in Nat /\ 1 <= k + 1 /\ k + 1 <= Len(s) + 1 /\ Len(s) \in Nat
      BY <1>2
    <3>2. /\ t \in Seq(Nat) /\ Len(t) = Len(s) - (k + 1) + 1
          /\ \A i \in 1..(Len(s) - (k + 1) + 1) : t[i] = s[(k + 1) + i - 1]
      BY <1>2, <3>1, PartIs
    <3> HIDE DEF t
    <3> QED
      BY <1>2, <3>2
  <2> HIDE DEF t
  <2>2. IsRun(t, a + k, b)
    BY <1>2, <2>1 DEF IsRun
  <2> QED
    BY <2>2 DEF t
<1> QED
  BY <1>0, <1>3, <1>4, OneRun DEF s, First, Rest

\* A run that is not empty has one place.
LEMMA RunPlace ==
    ASSUME NEW a \in Nat, NEW b \in Nat, NEW c \in Nat, NEW d \in Nat, a < b, c <= d,
           Run(a, b) = Run(c, d)
    PROVE  a = c /\ b = d
<1> DEFINE s == Run(a, b)
<1>1. IsRun(s, a, b) /\ IsRun(s, c, d)
  BY RunIs
<1> HIDE DEF s
<1>2. b - a = d - c
  BY <1>1 DEF IsRun
<1>3. s[1] = a + 1 /\ s[1] = c + 1
  BY <1>1, <1>2 DEF IsRun
<1> QED
  BY <1>2, <1>3

-----------------------------------------------------------------------------
(***************************************************************************)
(* Frames.                                                                 *)
(***************************************************************************)

\* The fields of a frame.
LEMMA FrameIs ==
    ASSUME WsTyped, NEW i \in 1..Len(wire)
    PROVE  /\ wire[i].len \in Nat /\ wire[i].fin \in BOOLEAN /\ wire[i].at \in Nat
           /\ wire[i].msg \in Nat \ {0} /\ wire[i].from \in Nat
           /\ End(wire[i]) \in Nat /\ wire[i].at <= End(wire[i])
<1>1. wire[i] \in Frames
  BY DEF WsTyped
<1>2. /\ wire[i].len \in Nat /\ wire[i].fin \in BOOLEAN /\ wire[i].at \in Nat
      /\ wire[i].msg \in Nat \ {0} /\ wire[i].from \in Nat
  BY <1>1 DEF Frames
<1> QED
  BY <1>2 DEF End

\* The place after a frame.
LEMMA AfterFields ==
    /\ After(0).at = 0 /\ After(0).msg = 1 /\ After(0).from = 0
    /\ \A i : i # 0 => /\ After(i).at = End(wire[i])
                       /\ After(i).msg = IF wire[i].fin THEN wire[i].msg + 1 ELSE wire[i].msg
                       /\ After(i).from = IF wire[i].fin THEN End(wire[i]) ELSE wire[i].from
  BY DEF After

\* Its fields are numbers, and the message in it began before it.
LEMMA AfterIs ==
    ASSUME WsTyped, StreamInv, NEW i \in 0..Len(wire)
    PROVE  /\ After(i).at \in Nat /\ After(i).msg \in Nat \ {0} /\ After(i).from \in Nat
           /\ After(i).from <= After(i).at
<1>1. CASE i = 0
  BY <1>1, AfterFields
<1>2. CASE i # 0
  <2>1. i \in 1..Len(wire)
    BY <1>2 DEF WsTyped
  <2>2. /\ wire[i].msg \in Nat \ {0} /\ wire[i].from \in Nat /\ wire[i].at \in Nat
        /\ End(wire[i]) \in Nat /\ wire[i].at <= End(wire[i]) /\ wire[i].fin \in BOOLEAN
    BY <2>1, FrameIs
  <2>3. wire[i].from <= wire[i].at
    BY <2>1 DEF StreamInv
  <2>4. After(i).at = End(wire[i]) /\ After(i).from \in {End(wire[i]), wire[i].from}
    BY <1>2, AfterFields
  <2>5. After(i).msg = wire[i].msg + 1 \/ After(i).msg = wire[i].msg
    BY <1>2, AfterFields
  <2>6. After(i).msg \in Nat \ {0}
    BY <2>2, <2>5
  <2>7. wire[i].from <= End(wire[i]) /\ End(wire[i]) <= End(wire[i])
    BY <2>2, <2>3
  <2> QED
    BY <2>2, <2>4, <2>6, <2>7, Zenon
<1> QED
  BY <1>1, <1>2

\* A stream that grows keeps its frames, and the places after them.
LEMMA WireKept ==
    ASSUME WsTyped, NEW f, wire' = Append(wire, f)
    PROVE  /\ Len(wire') = Len(wire) + 1 /\ wire'[Len(wire) + 1] = f
           /\ \A i \in 1..Len(wire) : wire'[i] = wire[i]
           /\ \A i \in 0..Len(wire) : After(i)' = After(i)
<1>1. /\ Len(wire') = Len(wire) + 1 /\ wire'[Len(wire) + 1] = f
      /\ \A i \in 1..Len(wire) : wire'[i] = wire[i]
  BY DEF WsTyped
<1>2. ASSUME NEW i \in 0..Len(wire) PROVE After(i)' = After(i)
  <2>1. CASE i = 0
    BY <2>1 DEF After
  <2>2. CASE i # 0
    <3>1. wire'[i] = wire[i]
      BY <1>1, <2>2 DEF WsTyped
    <3> QED
      BY <2>2, <3>1 DEF After, End
  <2> QED
    BY <2>1, <2>2
<1> QED
  BY <1>1, <1>2

\* A stream that stays the same.
LEMMA WireSame ==
    ASSUME WsTyped, StreamInv, UNCHANGED wire
    PROVE  StreamInv' /\ \A i : After(i)' = After(i)
<1>1. \A i : After(i)' = After(i)
  BY DEF After, End
<1> QED
  BY <1>1 DEF StreamInv, End

\* Frames that end a message tell it apart by where it is.
LEMMA OneMessage ==
    ASSUME WsTyped, StreamInv, NEW i \in 1..Len(wire), NEW k \in 1..Len(wire),
           wire[i].fin, wire[k].fin, wire[k].from = wire[i].from,
           End(wire[k]) = End(wire[i]), wire[k].from # End(wire[k])
    PROVE  i = k
<1>1. /\ wire[i].from \in Nat /\ End(wire[i]) \in Nat /\ wire[i].at <= End(wire[i])
      /\ wire[k].from \in Nat /\ End(wire[k]) \in Nat /\ wire[k].at <= End(wire[k])
      /\ wire[i].at \in Nat /\ wire[k].at \in Nat
  BY FrameIs
<1>2. wire[i].from <= wire[i].at /\ wire[k].from <= wire[k].at
  BY DEF StreamInv
<1>3. ~(i < k) /\ ~(k < i)
  <2>1. i < k => End(wire[i]) <= wire[k].from
    BY DEF StreamInv
  <2>2. k < i => End(wire[k]) <= wire[i].from
    BY DEF StreamInv
  <2> QED
    BY <1>1, <1>2, <2>1, <2>2
<1> QED
  BY <1>3

-----------------------------------------------------------------------------
(***************************************************************************)
(* The network's steps.                                                    *)
(***************************************************************************)

\* The queue and the assembly do not see the stream grow.
LEMMA OpenKept ==
    ASSUME WsTyped, OpenInv, WsTyped',
           \A i \in 1..Len(wire) : wire'[i] = wire[i],
           \A i \in 0..Len(wire) : After(i)' = After(i),
           UNCHANGED <<ws_state, announced, pending_frames, inbound_message,
                       receiving_message, delivered>>,
           Read' = Read
    PROVE  OpenInv'
<1> SUFFICES ASSUME ws_state = "kOpen" PROVE QueueInv' /\ AssemblyInv'
  BY DEF OpenInv
<1>1. QueueInv /\ AssemblyInv
  BY DEF OpenInv
<1>2. /\ Finished' = Finished /\ Len(pending_frames) \in Nat /\ Len(wire) \in Nat
      /\ Len(pending_frames) <= announced /\ announced <= Len(wire) /\ announced \in Nat
  BY <1>1 DEF Finished, QueueInv, WsTyped
<1>3. /\ Finished \in 0..Len(wire)
      /\ \A i \in 1..Len(pending_frames) : Finished + i \in 1..Len(wire)
  BY <1>2 DEF Finished
<1>4. /\ After(Finished)' = After(Finished)
      /\ \A i \in 1..Len(pending_frames) : wire'[Finished + i] = wire[Finished + i]
  <2>1. \A i \in 0..Len(wire) : After(i)' = After(i)
    OBVIOUS
  <2>2. After(Finished)' = After(Finished)
    BY <1>2, <1>3, <2>1 DEF After, End
  <2> QED
    BY <1>3, <2>2
<1>5. QueueInv'
  <2>1. ASSUME NEW i \in 1..Len(pending_frames)
        PROVE  /\ pending_frames[i].fin = wire'[Finished + i].fin
               /\ i > 1 => pending_frames[i].len = wire'[Finished + i].len
    BY <1>1, <1>4 DEF QueueInv
  <2>2. pending_frames # <<>> =>
            /\ Read + pending_frames[1].len = End(wire'[Finished + 1])
            /\ pending_frames[1].len <= wire'[Finished + 1].len
    <3>1. pending_frames # <<>> => 1 \in 1..Len(pending_frames)
      BY <1>2 DEF WsTyped
    <3> QED
      BY <1>1, <1>4, <3>1 DEF QueueInv
  <2>3. pending_frames = <<>> => Read' = After(Finished)'.at
    BY <1>1, <1>4 DEF QueueInv
  <2> QED
    BY <1>2, <2>1, <2>2, <2>3 DEF QueueInv, End
<1>6. AssemblyInv'
  <2>1. announced > 0 => wire'[announced] = wire[announced]
    BY <1>2
  <2> QED
    BY <1>1, <1>2, <1>4, <2>1 DEF AssemblyInv, Run
<1> QED
  BY <1>5, <1>6

\* What was assembled stays a beginning of its message.
LEMMA ReassembledKept ==
    ASSUME WsTyped, Reassembled, Len(wire) <= Len(wire'), Len(wire') \in Nat,
           \A i \in 1..Len(wire) : wire'[i] = wire[i],
           UNCHANGED <<inbound_message, delivered>>
    PROVE  Reassembled'
<1>1. \A i \in 1..Len(delivered) : delivered[i] = i
  BY DEF Reassembled
<1>2. ASSUME inbound_message # <<>>
      PROVE  \E i \in 1..Len(wire') :
                /\ wire'[i].msg = Len(delivered) + 1
                /\ wire'[i].from + Len(inbound_message) <= End(wire'[i])
                /\ inbound_message
                     = Run(wire'[i].from, wire'[i].from + Len(inbound_message))
  <2>1. PICK i \in 1..Len(wire) :
                /\ wire[i].msg = Len(delivered) + 1
                /\ wire[i].from + Len(inbound_message) <= End(wire[i])
                /\ inbound_message = Run(wire[i].from, wire[i].from + Len(inbound_message))
    BY <1>2 DEF Reassembled
  <2>2. i \in 1..Len(wire') /\ wire'[i] = wire[i]
    BY DEF WsTyped
  <2> QED
    BY <2>1, <2>2
<1> QED
  BY <1>1, <1>2 DEF Reassembled, Run, End

\* The broker's next frame takes its place at the end of the stream.
LEMMA SendsInv ==
    ASSUME WsInv, NEW type \in FrameTypes, NEW len \in 0..MaxLen, NEW fin \in BOOLEAN,
           BrokerSends(type, len, fin)
    PROVE  WsInv'
<1> DEFINE N == Len(wire)
           next == After(N)
           f == [type |-> type, len |-> len, fin |-> fin,
                 at |-> next.at, msg |-> next.msg, from |-> next.from]
<1>0. WsTyped /\ StreamInv /\ PipeInv /\ OpenInv /\ Reassembled /\ FailureInv
  BY DEF WsInv
<1>1. N \in Nat /\ N \in 0..N /\ len \in Nat
  BY <1>0, StreamAssumption DEF WsTyped
<1>2. /\ next.at \in Nat /\ next.msg \in Nat \ {0} /\ next.from \in Nat /\ next.from <= next.at
  BY <1>0, <1>1, AfterIs
<1>3. wire' = Append(wire, f)
  BY DEF BrokerSends
<1>4. /\ Len(wire') = N + 1 /\ wire'[N + 1] = f
      /\ \A i \in 1..N : wire'[i] = wire[i]
      /\ \A i \in 0..N : After(i)' = After(i)
  BY <1>0, <1>3, WireKept
<1>5. UNCHANGED <<ws_state, announced, written, readable, pending_frames, inbound_message,
                  receiving_message, draining, delivered, error>>
  BY DEF BrokerSends
<1>6. /\ f \in Frames /\ f.at = next.at /\ f.msg = next.msg /\ f.from = next.from
      /\ f.len = len /\ f.fin = fin
  BY <1>1, <1>2 DEF Frames
<1> HIDE DEF f
<1>7. WsTyped'
  <2>1. wire' \in Seq(Frames)
    BY <1>0, <1>3, <1>6 DEF WsTyped
  <2>2. After(Len(wire))'.at = next.at + len
    <3>1. After(Len(wire))'.at = End(wire'[N + 1])
      BY <1>1, <1>4 DEF After, End
    <3> QED
      BY <1>4, <1>6, <3>1 DEF End
  <2>3. announced' <= Len(wire') /\ written' <= After(Len(wire))'.at
    <3>1. announced <= N /\ announced \in Nat /\ written <= next.at /\ written \in Nat
      BY <1>0 DEF WsTyped
    <3> QED
      BY <1>1, <1>2, <1>4, <1>5, <2>2, <3>1
  <2> QED
    BY <1>0, <1>5, <2>1, <2>3 DEF WsTyped
<1>8. StreamInv'
  <2>1. ASSUME NEW i \in 1..(N + 1)
        PROVE  /\ wire'[i].at = After(i - 1)'.at
               /\ wire'[i].msg = After(i - 1)'.msg
               /\ wire'[i].from = After(i - 1)'.from
               /\ wire'[i].from <= wire'[i].at
    <3>1. CASE i <= N
      <4>1. i \in 1..N /\ i - 1 \in 0..N
        BY <1>1, <3>1
      <4>2. wire'[i] = wire[i] /\ After(i - 1)' = After(i - 1)
        BY <1>4, <4>1
      <4> QED
        BY <1>0, <4>1, <4>2 DEF StreamInv
    <3>2. CASE i = N + 1
      <4>1. wire'[i] = f /\ After(i - 1)' = next
        BY <1>1, <1>4, <3>2
      <4> QED
        BY <1>2, <1>6, <4>1
    <3> QED
      BY <1>1, <3>1, <3>2
  <2>2. ASSUME NEW i \in 1..(N + 1), NEW j \in 1..(N + 1), i < j
        PROVE  /\ End(wire'[i]) <= wire'[j].at
               /\ wire'[i].fin => End(wire'[i]) <= wire'[j].from
    <3>1. i \in 1..N /\ wire'[i] = wire[i] /\ N \in 1..N
      BY <1>1, <1>4, <2>2
    <3>2. CASE j <= N
      BY <1>0, <1>1, <1>4, <2>2, <3>1, <3>2 DEF StreamInv
    <3>3. CASE j = N + 1
      <4>1. wire'[j].at = next.at /\ wire'[j].from = next.from
        BY <1>4, <1>6, <3>3
      <4>2. /\ next.at = End(wire[N])
            /\ next.from = IF wire[N].fin THEN End(wire[N]) ELSE wire[N].from
        BY <1>1, <3>1, AfterFields
      <4>3. /\ End(wire[N]) \in Nat /\ wire[N].at \in Nat /\ wire[N].at <= End(wire[N])
            /\ End(wire[i]) \in Nat /\ wire[N].from \in Nat
        BY <1>0, <3>1, FrameIs
      <4>4. CASE i = N
        BY <3>1, <4>1, <4>2, <4>3, <4>4
      <4>5. CASE i < N
        <5>1. End(wire[i]) <= wire[N].at /\ (wire[i].fin => End(wire[i]) <= wire[N].from)
          BY <1>0, <3>1, <4>5 DEF StreamInv
        <5> QED
          BY <3>1, <4>1, <4>2, <4>3, <5>1
      <4> QED
        BY <3>1, <4>4, <4>5
    <3> QED
      BY <1>1, <3>2, <3>3
  <2> QED
    BY <1>4, <2>1, <2>2 DEF StreamInv, End
<1>9. PipeInv' /\ OpenInv'
  <2>1. Read' = Read
    BY <1>5 DEF Read
  <2>2. OpenInv'
    BY <1>0, <1>4, <1>5, <1>7, <2>1, OpenKept
  <2> QED
    BY <1>0, <1>5, <2>1, <2>2 DEF PipeInv, Run
<1>10. Reassembled'
  BY <1>0, <1>1, <1>4, <1>5, ReassembledKept
<1>11. FailureInv'
  <2>1. error = "none"
    BY <1>0 DEF FailureInv, BrokerSends
  <2> QED
    BY <1>5, <2>1 DEF FailureInv
<1> QED
  BY <1>7, <1>8, <1>9, <1>10, <1>11 DEF WsInv

\* Bytes go to the end of the pipe.
LEMMA PipeWriteInv ==
    ASSUME WsInv, NEW n \in Nat, PipeWrite(n)
    PROVE  WsInv'
<1>0. WsTyped /\ StreamInv /\ PipeInv /\ OpenInv /\ Reassembled /\ FailureInv
  BY DEF WsInv
<1>1. /\ ws_state # "kClosed" /\ written' = written + n
      /\ written + n <= After(Len(wire)).at
      /\ readable' = readable \o Run(written, written + n)
      /\ UNCHANGED <<wire, ws_state, announced, pending_frames, inbound_message,
                     receiving_message, draining, delivered, error>>
  BY DEF PipeWrite
<1>2. written \in Nat /\ written + n \in Nat /\ Len(readable) \in Nat /\ readable \in Seq(Nat)
  BY <1>0 DEF WsTyped
<1>3. StreamInv' /\ \A i : After(i)' = After(i)
  BY <1>0, <1>1, WireSame
<1>4. /\ Len(readable) <= written /\ readable = Run(Read, written)
      /\ Read \in Nat /\ Read <= written /\ Read <= written + n
  BY <1>0, <1>1, <1>2 DEF PipeInv, Read
<1>5. readable' = Run(Read, written + n)
  <2>1. written <= written + n
    BY <1>2
  <2>2. Run(Read, written) \o Run(written, written + n) = Run(Read, written + n)
    BY <1>2, <1>4, <2>1, RunJoin
  <2> QED
    BY <1>1, <1>4, <2>2
<1>6. IsRun(readable', Read, written + n)
  BY <1>2, <1>4, <1>5, RunIs
<1>7. readable' \in Seq(Nat) /\ Len(readable') = (written + n) - Read
  BY <1>6 DEF IsRun
<1>8. Read' = Read
  BY <1>1, <1>2, <1>4, <1>7 DEF Read
<1>9. WsTyped'
  <2>1. After(Len(wire))' = After(Len(wire))
    BY <1>1 DEF After, End
  <2> QED
    BY <1>0, <1>1, <1>2, <1>7, <2>1 DEF WsTyped
<1>10. PipeInv'
  <2>1. Len(readable') <= written + n
    BY <1>2, <1>4, <1>7
  <2>2. readable' = Run(Read', written')
    BY <1>1, <1>5, <1>8
  <2> QED
    BY <1>1, <2>1, <2>2 DEF PipeInv, Run
<1>11. OpenInv'
  BY <1>0, <1>1, <1>3, <1>8, <1>9, OpenKept
<1>12. Reassembled' /\ FailureInv'
  <2>1. Reassembled'
    BY <1>0, <1>1, ReassembledKept DEF WsTyped
  <2>2. error = "none" /\ error' = "none"
    BY <1>0, <1>1 DEF FailureInv
  <2> QED
    BY <2>1, <2>2 DEF FailureInv
<1> QED
  BY <1>3, <1>9, <1>10, <1>11, <1>12 DEF WsInv

-----------------------------------------------------------------------------
(***************************************************************************)
(* The handlers of the UI thread.                                          *)
(***************************************************************************)

\* Steps that leave the queue, the pipe and the assembly alone.
LEMMA NothingTaken ==
    ASSUME WsInv,
           UNCHANGED <<wire, written, readable, pending_frames, inbound_message,
                       receiving_message, delivered, error>>,
           draining' \in BOOLEAN,
           \/ UNCHANGED <<ws_state, announced>>
           \/ /\ error = "none" /\ ws_state' = "kClosing" /\ ws_state # "kClosed"
              /\ announced' \in Nat /\ announced' <= Len(wire)
    PROVE  WsInv'
<1>0. WsTyped /\ StreamInv /\ PipeInv /\ OpenInv /\ Reassembled /\ FailureInv
  BY DEF WsInv
<1>1. StreamInv' /\ (\A i : After(i)' = After(i)) /\ Read' = Read
  BY <1>0, WireSame DEF Read
<1>2. WsTyped'
  <2>1. After(Len(wire))' = After(Len(wire))
    BY DEF After, End
  <2> QED
    BY <1>0, <2>1 DEF WsTyped
<1>3. OpenInv'
  <2>1. CASE UNCHANGED <<ws_state, announced>>
    BY <1>0, <1>1, <1>2, <2>1, OpenKept
  <2>2. CASE ws_state' = "kClosing"
    BY <2>2 DEF OpenInv
  <2> QED
    BY <2>1, <2>2
<1>4. PipeInv'
  BY <1>0, <1>1 DEF PipeInv, Run
<1>5. Reassembled'
  BY <1>0, ReassembledKept DEF WsTyped
<1>6. FailureInv'
  BY <1>0 DEF FailureInv, WellFormed, Refuses, End
<1> QED
  BY <1>1, <1>2, <1>3, <1>4, <1>5, <1>6 DEF WsInv

\* Whoever releases the channel leaves nothing half done.
LEMMA ReleaseInv ==
    ASSUME WsInv, Release, UNCHANGED <<wire, written>>,
           announced' \in Nat, announced' <= Len(wire), draining' \in BOOLEAN,
           delivered' \in Seq(Nat), \A i \in 1..Len(delivered') : delivered'[i] = i,
           error' \in {"none", "write", "sequence", "decode"},
           error' = "sequence" => ~WellFormed,
           error' = "decode" => UNCHANGED delivered /\ Refuses(Len(delivered) + 1)
    PROVE  WsInv'
<1>0. WsTyped /\ StreamInv
  BY DEF WsInv
<1>1. StreamInv'
  BY <1>0, WireSame
<1>2. WsTyped'
  <2>1. After(Len(wire))' = After(Len(wire))
    BY DEF After, End
  <2> QED
    <3>1. /\ readable' \in Seq(Nat) /\ inbound_message' \in Seq(Nat)
          /\ pending_frames' \in Seq([len : Nat, fin : BOOLEAN])
      BY DEF Release
    <3>2. ws_state' \in {"kOpen", "kClosing", "kClosed"} /\ receiving_message' \in BOOLEAN
      BY DEF Release
    <3>3. /\ wire' \in Seq(Frames) /\ announced' <= Len(wire')
          /\ written' \in Nat /\ written' <= After(Len(wire))'.at
      BY <1>0, <2>1 DEF WsTyped
    <3> QED
      BY <3>1, <3>2, <3>3 DEF WsTyped
<1>3. PipeInv' /\ OpenInv' /\ Reassembled'
  BY DEF PipeInv, OpenInv, Reassembled, Release
<1>4. FailureInv'
  <2>1. ws_state' = "kClosed"
    BY DEF Release
  <2>2. error' = "sequence" => ~WellFormed'
    BY DEF WellFormed
  <2>3. error' = "decode" => Refuses(Len(delivered) + 1)'
    BY DEF Refuses, End
  <2> QED
    BY <2>1, <2>2, <2>3 DEF FailureInv
<1> QED
  BY <1>1, <1>2, <1>3, <1>4 DEF WsInv

\* In an open channel a frame out of sequence shows that the stream is malformed.
LEMMA OutOfSequence ==
    ASSUME WsInv, ws_state = "kOpen", announced < Len(wire), ~InSequence(wire[announced + 1])
    PROVE  ~WellFormed
<1> SUFFICES ASSUME WellFormed PROVE FALSE
  OBVIOUS
<1>1. announced \in Nat /\ Len(wire) \in Nat /\ announced + 1 \in 1..Len(wire)
  BY DEF WsInv, WsTyped
<1>2. receiving_message <=> announced > 0 /\ ~wire[announced].fin
  BY DEF WsInv, OpenInv, AssemblyInv
<1>3. wire[announced + 1].type = IF announced + 1 = 1 \/ wire[(announced + 1) - 1].fin
                                 THEN "TEXT" ELSE "CONTINUATION"
  BY <1>1 DEF WellFormed
<1>4. (announced + 1) - 1 = announced /\ (announced + 1 = 1 <=> ~(announced > 0))
  BY <1>1
<1>5. wire[announced + 1].type = IF receiving_message THEN "CONTINUATION" ELSE "TEXT"
  BY <1>2, <1>3, <1>4
<1> QED
  BY <1>5 DEF InSequence

\* A frame in sequence joins the queue.
LEMMA EnqueueInv ==
    ASSUME WsInv, ws_state = "kOpen", announced < Len(wire), announced' = announced + 1,
           receiving_message' = ~wire[announced + 1].fin,
           pending_frames' = Append(pending_frames, [len |-> wire[announced + 1].len,
                                                     fin |-> wire[announced + 1].fin]),
           draining' = TRUE,
           UNCHANGED <<wire, ws_state, written, readable, inbound_message, delivered, error>>
    PROVE  WsInv'
<1> DEFINE k == announced + 1
           g == [len |-> wire[k].len, fin |-> wire[k].fin]
           L == Len(pending_frames)
<1>0. /\ WsTyped /\ StreamInv /\ PipeInv /\ OpenInv /\ Reassembled /\ FailureInv
      /\ QueueInv /\ AssemblyInv
  BY DEF WsInv, OpenInv
<1>1. /\ announced \in Nat /\ Len(wire) \in Nat /\ k \in 1..Len(wire) /\ L \in Nat
      /\ L <= announced /\ k - 1 = announced
  <2>1. announced \in Nat /\ Len(wire) \in Nat /\ L \in Nat /\ L <= announced
    BY <1>0 DEF WsTyped, QueueInv
  <2> HIDE DEF L
  <2>2. k \in 1..Len(wire) /\ k - 1 = announced
    BY <2>1
  <2> QED
    BY <2>1, <2>2
<1>2. /\ wire[k].len \in Nat /\ wire[k].fin \in BOOLEAN /\ wire[k].at \in Nat
      /\ End(wire[k]) = wire[k].at + wire[k].len
  BY <1>0, <1>1, FrameIs DEF End
<1>3. g \in [len : Nat, fin : BOOLEAN] /\ g.len = wire[k].len /\ g.fin = wire[k].fin
  BY <1>2
<1>4. pending_frames' = Append(pending_frames, g)
  OBVIOUS
<1> HIDE DEF g
<1>5. /\ pending_frames' \in Seq([len : Nat, fin : BOOLEAN]) /\ Len(pending_frames') = L + 1
      /\ pending_frames'[L + 1] = g /\ \A i \in 1..L : pending_frames'[i] = pending_frames[i]
  BY <1>0, <1>3, <1>4 DEF WsTyped
<1>6. StreamInv' /\ (\A i : After(i)' = After(i)) /\ Read' = Read
  BY <1>0, WireSame DEF Read
<1>7. Finished' = Finished /\ Finished \in Nat /\ Finished + (L + 1) = k
  BY <1>1, <1>5 DEF Finished
<1>8. WsTyped'
  <2>1. After(Len(wire))' = After(Len(wire))
    BY DEF After, End
  <2>2. announced' \in Nat /\ announced' <= Len(wire') /\ receiving_message' \in BOOLEAN
    BY <1>1, <1>2
  <2> QED
    BY <1>0, <1>5, <2>1, <2>2 DEF WsTyped
<1>9. After(Finished)' = After(Finished)
  BY <1>7 DEF After, End
<1>10. QueueInv'
  <2>1. ASSUME NEW i \in 1..(L + 1)
        PROVE  /\ pending_frames'[i].fin = wire[Finished + i].fin
               /\ i > 1 => pending_frames'[i].len = wire[Finished + i].len
    <3>1. CASE i \in 1..L
      BY <1>0, <1>5, <3>1 DEF QueueInv
    <3>2. CASE i = L + 1
      BY <1>3, <1>5, <1>7, <3>2
    <3> QED
      BY <1>1, <3>1, <3>2
  <2>2. /\ Read + pending_frames'[1].len = End(wire[Finished + 1])
        /\ pending_frames'[1].len <= wire[Finished + 1].len
    <3>1. CASE L = 0
      <4>1. pending_frames = <<>>
        BY <1>0, <3>1 DEF WsTyped
      <4>2. Finished = announced /\ Finished + 1 = k
        BY <1>1, <1>7, <3>1
      <4>3. Read = After(announced).at
        BY <1>0, <4>1, <4>2 DEF QueueInv
      <4>4. wire[k].at = After(announced).at
        BY <1>0, <1>1 DEF StreamInv
      <4>5. pending_frames'[1].len = wire[k].len
        BY <1>3, <1>5, <3>1
      <4> QED
        BY <1>2, <4>2, <4>3, <4>4, <4>5
    <3>2. CASE L # 0
      <4>1. 1 \in 1..L /\ pending_frames # <<>> /\ pending_frames'[1] = pending_frames[1]
        BY <1>0, <1>1, <1>5, <3>2 DEF WsTyped
      <4> QED
        BY <1>0, <4>1 DEF QueueInv
    <3> QED
      BY <3>1, <3>2
  <2>3. pending_frames' # <<>> /\ Len(pending_frames') <= announced'
    BY <1>1, <1>5
  <2> QED
    BY <1>5, <1>6, <1>7, <2>1, <2>2, <2>3 DEF QueueInv, End
<1>11. AssemblyInv'
  <2>1. receiving_message' <=> announced' > 0 /\ ~wire[announced'].fin
    <3>1. announced' > 0
      BY <1>1
    <3>2. receiving_message' <=> ~wire[announced'].fin
      BY Zenon
    <3> QED
      BY <3>1, <3>2
  <2> QED
    BY <1>0, <1>6, <1>9, <2>1 DEF AssemblyInv, Run
<1>12. PipeInv' /\ Reassembled' /\ FailureInv'
  <2>1. Reassembled'
    BY <1>0, ReassembledKept DEF WsTyped
  <2>2. error = "none" /\ error' = "none"
    BY <1>0 DEF FailureInv
  <2> QED
    BY <1>0, <1>6, <2>1, <2>2 DEF FailureInv, PipeInv, Run
<1> QED
  BY <1>6, <1>8, <1>10, <1>11, <1>12 DEF WsInv, OpenInv

\* OnDataFrame: dropped while closing, refused, or queued.
LEMMA DataFrameInv == ASSUME WsInv, OnDataFrame PROVE WsInv'
<1>0. WsTyped /\ Reassembled /\ FailureInv
  BY DEF WsInv
<1>1. /\ announced < Len(wire) /\ announced' = announced + 1 /\ draining \in BOOLEAN
      /\ announced' \in Nat /\ announced' <= Len(wire) /\ ws_state # "kClosed"
      /\ UNCHANGED <<wire, written, delivered>>
  BY <1>0 DEF OnDataFrame, WsTyped
<1>2. CASE /\ ws_state = "kClosing"
           /\ UNCHANGED <<ws_state, readable, pending_frames, inbound_message,
                          receiving_message, draining, error>>
  <2>1. error = "none"
    BY <1>0, <1>1 DEF FailureInv
  <2> QED
    BY <1>1, <1>2, <2>1, NothingTaken
<1>3. CASE /\ ws_state = "kOpen" /\ ~InSequence(wire[announced + 1])
           /\ FailWithError("sequence") /\ UNCHANGED draining
  <2>1. ~WellFormed
    BY <1>1, <1>3, OutOfSequence
  <2>2. delivered' \in Seq(Nat) /\ \A i \in 1..Len(delivered') : delivered'[i] = i
    BY <1>0, <1>1 DEF WsTyped, Reassembled
  <2> QED
    BY <1>1, <1>3, <2>1, <2>2, ReleaseInv DEF FailWithError
<1>4. CASE /\ ws_state = "kOpen"
           /\ receiving_message' = ~wire[announced + 1].fin
           /\ pending_frames' = Append(pending_frames, [len |-> wire[announced + 1].len,
                                                        fin |-> wire[announced + 1].fin])
           /\ draining' = TRUE
           /\ UNCHANGED <<ws_state, readable, inbound_message, error>>
  BY <1>1, <1>4, EnqueueInv
<1> QED
  BY <1>2, <1>3, <1>4 DEF OnDataFrame

-----------------------------------------------------------------------------
(***************************************************************************)
(* One turn of the loop.                                                   *)
(***************************************************************************)

\* An open channel with a frame at the front of its queue.
Turn ==
    /\ WsInv /\ ws_state = "kOpen" /\ pending_frames # <<>>
    /\ UNCHANGED <<wire, announced, written, draining>>

\* The frame at the front, and where it is in the stream.
LEMMA Front ==
    ASSUME Turn
    PROVE  /\ Len(pending_frames) \in Nat /\ Len(pending_frames) >= 1
           /\ announced \in Nat /\ Len(wire) \in Nat /\ announced <= Len(wire)
           /\ Finished \in Nat /\ Finished + Len(pending_frames) = announced
           /\ Finished + 1 \in 1..Len(wire)
           /\ Head(pending_frames) = pending_frames[1]
           /\ pending_frames[1].len \in Nat /\ pending_frames[1].fin \in BOOLEAN
           /\ Read \in Nat /\ written \in Nat /\ Len(readable) \in Nat
           /\ Read + Len(readable) = written
           /\ pending_frames[1].fin = wire[Finished + 1].fin
           /\ Read + pending_frames[1].len = End(wire[Finished + 1])
           /\ wire[Finished + 1].at = After(Finished).at
           /\ wire[Finished + 1].msg = After(Finished).msg
           /\ wire[Finished + 1].from = After(Finished).from
           /\ wire[Finished + 1].from \in Nat /\ wire[Finished + 1].from <= Read
           /\ End(wire[Finished + 1]) \in Nat
<1>0. WsTyped /\ StreamInv /\ PipeInv /\ QueueInv /\ AssemblyInv /\ ws_state = "kOpen"
  BY DEF Turn, WsInv, OpenInv
<1>1. /\ pending_frames \in Seq([len : Nat, fin : BOOLEAN]) /\ pending_frames # <<>>
      /\ announced \in Nat /\ Len(wire) \in Nat /\ announced <= Len(wire)
      /\ written \in Nat /\ Len(readable) \in Nat
  BY <1>0 DEF Turn, WsTyped
<1>2. /\ Len(pending_frames) \in Nat /\ Len(pending_frames) >= 1
      /\ Head(pending_frames) = pending_frames[1]
      /\ pending_frames[1] \in [len : Nat, fin : BOOLEAN]
  <2>1. \A S : \A s \in Seq(S) :
            s # <<>> => Len(s) \in Nat /\ Len(s) >= 1 /\ Head(s) = s[1] /\ s[1] \in S
    OBVIOUS
  <2> QED
    BY <1>1, <2>1
<1>3. pending_frames[1].len \in Nat /\ pending_frames[1].fin \in BOOLEAN
  BY <1>2
<1>4. Len(pending_frames) <= announced /\ Len(readable) <= written
  BY <1>0 DEF QueueInv, PipeInv
<1>5. /\ Finished \in Nat /\ Finished + Len(pending_frames) = announced
      /\ Finished + 1 \in 1..Len(wire) /\ Finished \in 0..Len(wire)
      /\ (Finished + 1) - 1 = Finished
      /\ Read \in Nat /\ Read + Len(readable) = written
  BY <1>1, <1>2, <1>4 DEF Finished, Read
<1>6. /\ wire[Finished + 1].at = After(Finished).at
      /\ wire[Finished + 1].msg = After(Finished).msg
      /\ wire[Finished + 1].from = After(Finished).from
  BY <1>0, <1>5 DEF StreamInv
<1>7. /\ wire[Finished + 1].from \in Nat /\ wire[Finished + 1].from <= Read
      /\ End(wire[Finished + 1]) \in Nat
  BY <1>0, <1>5, <1>6, FrameIs DEF AssemblyInv
<1>8. /\ pending_frames[1].fin = wire[Finished + 1].fin
      /\ Read + pending_frames[1].len = End(wire[Finished + 1])
  <2>1. 1 \in 1..Len(pending_frames)
    BY <1>2
  <2> QED
    BY <1>0, <1>1, <2>1 DEF QueueInv
<1> QED
  BY <1>1, <1>2, <1>3, <1>5, <1>6, <1>7, <1>8

\* Bytes taken from the pipe are the ones the message goes on with.
LEMMA Taken ==
    ASSUME Turn, NEW take \in Nat, take <= Len(readable)
    PROVE  /\ inbound_message \o SubSeq(readable, 1, take)
                = Run(wire[Finished + 1].from, Read + take)
           /\ SubSeq(readable, take + 1, Len(readable)) = Run(Read + take, written)
           /\ Read + take \in Nat /\ Read + take <= written
<1> DEFINE from == wire[Finished + 1].from
<1>1. /\ Read \in Nat /\ written \in Nat /\ Read + Len(readable) = written
      /\ Len(readable) \in Nat /\ from \in Nat /\ from <= Read /\ from = After(Finished).from
  BY Front
<1>2. readable = Run(Read, written) /\ inbound_message = Run(from, Read)
  BY <1>1 DEF Turn, WsInv, OpenInv, PipeInv, AssemblyInv
<1>3. Read + take \in Nat /\ Read + take <= written /\ Read <= Read + take
  BY <1>1
<1> HIDE DEF from
<1>4. /\ First(Run(Read, written), take) = Run(Read, Read + take)
      /\ Rest(Run(Read, written), take) = Run(Read + take, written)
  BY <1>1, <1>3, RunCut
<1>5. /\ SubSeq(readable, 1, take) = Run(Read, Read + take)
      /\ SubSeq(readable, take + 1, Len(readable)) = Run(Read + take, written)
  BY <1>2, <1>4, Zenon DEF First, Rest
<1>6. Run(from, Read) \o Run(Read, Read + take) = Run(from, Read + take)
  BY <1>1, <1>3, RunJoin
<1> QED
  BY <1>2, <1>3, <1>5, <1>6 DEF from

\* The pipe after a turn.
LEMMA PipeTaken ==
    ASSUME Turn, NEW take \in Nat, take <= Len(readable), readable' = Run(Read + take, written)
    PROVE  readable' \in Seq(Nat) /\ Read' = Read + take /\ PipeInv'
<1>1. /\ Read \in Nat /\ written \in Nat /\ Read + Len(readable) = written
      /\ Len(readable) \in Nat /\ written' = written
  BY Front DEF Turn
<1>2. Read + take \in Nat /\ Read + take <= written
  BY <1>1
<1>3. IsRun(readable', Read + take, written)
  BY <1>1, <1>2, RunIs
<1>4. readable' \in Seq(Nat) /\ Len(readable') = written - (Read + take)
  BY <1>3 DEF IsRun
<1>5. Read' = Read + take /\ Len(readable') <= written'
  BY <1>1, <1>2, <1>4 DEF Read
<1>6. readable' = Run(Read', written')
  BY <1>1, <1>5
<1> QED
  BY <1>4, <1>5, <1>6 DEF PipeInv, Run

\* What a turn leaves alone, and what follows for the invariant.
LEMMA TurnKeeps ==
    ASSUME Turn
    PROVE  /\ StreamInv' /\ (\A i : After(i)' = After(i))
           /\ error = "none" /\ (\A i \in 1..Len(delivered) : delivered[i] = i)
           /\ delivered \in Seq(Nat) /\ wire' \in Seq(Frames) /\ draining' \in BOOLEAN
           /\ announced' \in Nat /\ announced' <= Len(wire)
           /\ announced' <= Len(wire') /\ written' \in Nat /\ written' <= After(Len(wire))'.at
           /\ After(Finished).msg = Len(delivered) + 1
           /\ receiving_message \in BOOLEAN
           /\ receiving_message <=> announced > 0 /\ ~wire[announced].fin
<1>0. /\ WsTyped /\ StreamInv /\ Reassembled /\ FailureInv /\ AssemblyInv
      /\ UNCHANGED <<wire, announced, written, draining>> /\ ws_state = "kOpen"
  BY DEF Turn, WsInv, OpenInv
<1>1. StreamInv' /\ (\A i : After(i)' = After(i))
  BY <1>0, WireSame
<1>2. After(Len(wire))' = After(Len(wire))
  BY <1>0 DEF After, End
<1>3. error = "none" /\ (\A i \in 1..Len(delivered) : delivered[i] = i)
  BY <1>0 DEF FailureInv, Reassembled
<1>4. After(Finished).msg = Len(delivered) + 1
  BY <1>0 DEF AssemblyInv
<1>5. receiving_message <=> announced > 0 /\ ~wire[announced].fin
  BY <1>0 DEF AssemblyInv
<1> QED
  BY <1>0, <1>1, <1>2, <1>3, <1>4, <1>5 DEF WsTyped

\* An open channel whose queue and assembly are in order.
InOrder ==
    /\ WsTyped /\ StreamInv /\ QueueInv /\ AssemblyInv
    /\ Len(readable) <= written /\ \A i \in 1..Len(delivered) : delivered[i] = i

\* It has a beginning of the next message in hand.
LEMMA InHand == InOrder => Reassembled
<1> USE DEF InOrder
<1> SUFFICES ASSUME InOrder, inbound_message # <<>>
             PROVE  \E i \in 1..Len(wire) :
                       /\ wire[i].msg = Len(delivered) + 1
                       /\ wire[i].from + Len(inbound_message) <= End(wire[i])
                       /\ inbound_message
                            = Run(wire[i].from, wire[i].from + Len(inbound_message))
  BY DEF Reassembled
<1>1. /\ announced \in Nat /\ Len(wire) \in Nat /\ announced <= Len(wire)
      /\ Len(pending_frames) \in Nat /\ Len(pending_frames) <= announced
      /\ written \in Nat /\ Len(readable) \in Nat
  BY DEF WsTyped, QueueInv
<1>2. /\ Finished \in Nat /\ Finished \in 0..Len(wire) /\ Read \in Nat
      /\ Finished + Len(pending_frames) = announced
  BY <1>1 DEF Finished, Read
<1>3. /\ After(Finished).from \in Nat /\ After(Finished).from <= Read
      /\ inbound_message = Run(After(Finished).from, Read)
      /\ After(Finished).msg = Len(delivered) + 1
  BY <1>2, AfterIs DEF AssemblyInv
<1>4. IsRun(inbound_message, After(Finished).from, Read)
  BY <1>2, <1>3, RunIs
<1>5. Len(inbound_message) = Read - After(Finished).from /\ Len(inbound_message) # 0
  BY <1>4 DEF IsRun
<1>6. /\ After(Finished).from + Len(inbound_message) = Read
      /\ After(Finished).from # Read
  BY <1>2, <1>3, <1>5
<1>7. CASE pending_frames # <<>>
  <2>1. Len(pending_frames) >= 1
    BY <1>1, <1>7 DEF WsTyped
  <2>2. Finished + 1 \in 1..Len(wire) /\ (Finished + 1) - 1 = Finished
    BY <1>1, <1>2, <2>1
  <2>3. /\ wire[Finished + 1].msg = After(Finished).msg
        /\ wire[Finished + 1].from = After(Finished).from
    BY <2>2 DEF StreamInv
  <2>4. Read <= End(wire[Finished + 1])
    <3>1. pending_frames[1] \in [len : Nat, fin : BOOLEAN]
      <4>1. 1 \in 1..Len(pending_frames)
        BY <1>1, <2>1
      <4> QED
        BY <4>1, ElementIs DEF WsTyped
    <3>2. pending_frames[1].len \in Nat /\ Read + pending_frames[1].len = End(wire[Finished + 1])
      BY <1>7, <3>1 DEF QueueInv
    <3> QED
      BY <1>2, <3>2
  <2> QED
    BY <1>3, <1>6, <2>2, <2>3, <2>4
<1>8. CASE pending_frames = <<>>
  <2>1. Read = After(Finished).at
    BY <1>8 DEF QueueInv
  <2>2. Finished # 0
    BY <1>6, <2>1, AfterFields
  <2>3. ~wire[Finished].fin /\ After(Finished).at = End(wire[Finished])
    BY <1>6, <2>1, <2>2, AfterFields
  <2>4. wire[Finished].msg = After(Finished).msg /\ wire[Finished].from = After(Finished).from
    BY <2>2, <2>3, AfterFields
  <2>5. Finished \in 1..Len(wire)
    BY <1>2, <2>2
  <2> QED
    BY <1>2, <1>3, <1>6, <2>1, <2>3, <2>4, <2>5
<1> QED
  BY <1>7, <1>8

\* What is left of a frame of l bytes, n of them taken.
LEMMA LeftIs ==
    ASSUME NEW l \in Nat, NEW n \in Nat, NEW f \in Nat, NEW r \in Nat, n < l, f <= r
    PROVE  /\ l - n \in Nat /\ l - n <= l /\ \A w \in Nat : l <= w => l - n <= w
           /\ r + n \in Nat /\ f <= r + n /\ (r + n) + (l - n) = r + l
  OBVIOUS

\* The same for the front frame.
LEMMA FrontLeft ==
    ASSUME Turn, NEW n \in Nat, n < pending_frames[1].len
    PROVE  /\ pending_frames[1].len - n \in Nat
           /\ \A w \in Nat : pending_frames[1].len <= w => pending_frames[1].len - n <= w
           /\ Read + n \in Nat /\ wire[Finished + 1].from <= Read + n
           /\ (Read + n) + (pending_frames[1].len - n) = End(wire[Finished + 1])
<1>1. /\ pending_frames[1].len \in Nat /\ wire[Finished + 1].from \in Nat /\ Read \in Nat
      /\ wire[Finished + 1].from <= Read
      /\ Read + pending_frames[1].len = End(wire[Finished + 1])
  BY Front
<1> QED
  BY <1>1, LeftIs

\* Part of the front frame is taken.
LEMMA ShrinkInv ==
    ASSUME Turn, NEW n \in Nat, n <= Len(readable), n < pending_frames[1].len,
           pending_frames' = [pending_frames EXCEPT ![1].len = @ - n],
           inbound_message' = Run(wire[Finished + 1].from, Read + n),
           readable' = Run(Read + n, written),
           UNCHANGED <<ws_state, receiving_message, delivered, error>>
    PROVE  WsInv'
<1> DEFINE L == Len(pending_frames)
           left == pending_frames[1].len - n
<1>0. /\ WsTyped /\ StreamInv /\ QueueInv /\ AssemblyInv /\ ws_state = "kOpen"
      /\ UNCHANGED <<wire, announced, written, draining>>
  BY DEF Turn, WsInv, OpenInv
<1>1. /\ L \in Nat /\ L >= 1 /\ Finished \in Nat /\ Read \in Nat /\ written \in Nat
      /\ pending_frames[1].len \in Nat /\ Len(readable) \in Nat
      /\ Read + Len(readable) = written
      /\ Read + pending_frames[1].len = End(wire[Finished + 1])
      /\ wire[Finished + 1].from = After(Finished).from
      /\ wire[Finished + 1].from \in Nat /\ wire[Finished + 1].from <= Read
      /\ Finished + 1 \in 1..Len(wire)
  BY Front
<1>2. /\ pending_frames' \in Seq([len : Nat, fin : BOOLEAN]) /\ Len(pending_frames') = L
      /\ pending_frames'[1].len = left /\ pending_frames'[1].fin = pending_frames[1].fin
      /\ \A i \in 2..L : pending_frames'[i] = pending_frames[i]
  <2>1. left \in Nat
    BY FrontLeft
  <2>2. pending_frames \in Seq([len : Nat, fin : BOOLEAN]) /\ 1 \in 1..L
    BY <1>0, <1>1 DEF WsTyped
  <2>3. pending_frames[1] \in [len : Nat, fin : BOOLEAN]
    BY <2>2, ElementIs
  <2>4. [pending_frames[1] EXCEPT !.len = left] \in [len : Nat, fin : BOOLEAN]
    BY <2>1, <2>3
  <2>5. pending_frames' = [pending_frames EXCEPT ![1] = [pending_frames[1] EXCEPT !.len = left]]
    BY <2>2
  <2>6. /\ pending_frames' \in Seq([len : Nat, fin : BOOLEAN]) /\ Len(pending_frames') = L
        /\ pending_frames'[1] = [pending_frames[1] EXCEPT !.len = left]
        /\ \A i \in 2..L : pending_frames'[i] = pending_frames[i]
    BY <2>2, <2>4, <2>5
  <2> QED
    BY <2>3, <2>6
<1>3. readable' \in Seq(Nat) /\ Read' = Read + n /\ PipeInv'
  BY PipeTaken
<1>4. /\ Read + n \in Nat /\ wire[Finished + 1].from <= Read + n
      /\ (Read + n) + left = End(wire[Finished + 1])
      /\ \A w \in Nat : pending_frames[1].len <= w => left <= w
  BY FrontLeft
<1>5. inbound_message' \in Seq(Nat)
  BY <1>1, <1>4, RunIs DEF IsRun
<1>6. Finished' = Finished /\ After(Finished)' = After(Finished)
  <2>1. Finished' = Finished
    BY <1>0, <1>2 DEF Finished
  <2> QED
    BY <1>0, <2>1 DEF After, End
<1>7. WsTyped'
  BY <1>0, <1>2, <1>3, <1>5, TurnKeeps DEF WsTyped
<1>8. QueueInv'
  <2>1. ASSUME NEW i \in 1..L
        PROVE  /\ pending_frames'[i].fin = wire[Finished + i].fin
               /\ i > 1 => pending_frames'[i].len = wire[Finished + i].len
    <3>1. /\ pending_frames[i].fin = wire[Finished + i].fin
          /\ i > 1 => pending_frames[i].len = wire[Finished + i].len
      BY <1>0 DEF QueueInv
    <3>2. CASE i = 1
      BY <1>2, <3>1, <3>2
    <3>3. CASE i \in 2..L
      BY <1>2, <3>1, <3>3
    <3> QED
      BY <1>1, <3>2, <3>3
  <2>2. pending_frames' # <<>> /\ L <= announced
    BY <1>0, <1>1, <1>2 DEF QueueInv
  <2>3. /\ Read' + pending_frames'[1].len = End(wire[Finished + 1])
        /\ pending_frames'[1].len <= wire[Finished + 1].len
    <3>1. pending_frames[1].len <= wire[Finished + 1].len /\ wire[Finished + 1].len \in Nat
      <4>1. pending_frames # <<>>
        BY DEF Turn
      <4> QED
        BY <1>0, <1>1, <4>1, FrameIs DEF QueueInv
    <3>2. Read' + pending_frames'[1].len = (Read + n) + left
      BY <1>2, <1>3
    <3>3. left <= wire[Finished + 1].len /\ pending_frames'[1].len = left
      BY <1>2, <1>4, <3>1, Zenon
    <3> QED
      BY <1>4, <3>2, <3>3, Zenon
  <2> QED
    BY <1>0, <1>2, <1>6, <2>1, <2>2, <2>3 DEF QueueInv, End
<1>9. AssemblyInv'
  <2>1. /\ After(Finished)'.from <= Read'
        /\ inbound_message' = Run(After(Finished)'.from, Read')
        /\ After(Finished)'.msg = Len(delivered) + 1
    BY <1>1, <1>3, <1>4, <1>6, TurnKeeps
  <2>2. receiving_message' <=> announced' > 0 /\ ~wire'[announced'].fin
    BY <1>0, TurnKeeps
  <2> QED
    BY <2>1, <2>2 DEF AssemblyInv, Run
<1>10. Reassembled'
  <2>1. Len(readable') <= written'
    BY <1>0, <1>3 DEF PipeInv
  <2>2. InOrder'
    BY <1>7, <1>8, <1>9, <2>1, TurnKeeps DEF InOrder
  <2> QED
    BY <2>2, InHand, PTL
<1>11. FailureInv'
  BY TurnKeeps DEF FailureInv
<1> QED
  BY <1>0, <1>3, <1>7, <1>8, <1>9, <1>10, <1>11, TurnKeeps DEF WsInv, OpenInv

\* A queue of more than one frame has a second.
LEMMA SecondIs ==
    \A l, f, a, w \in Nat :
        l >= 1 /\ l - 1 # 0 /\ f + l = a /\ a <= w => 1 \in 1..(l - 1) /\ (f + 1) + 1 \in 1..w
  OBVIOUS

\* All of the front frame is taken, and the loop goes on with the next.
LEMMA PopInv ==
    ASSUME Turn, pending_frames[1].len <= Len(readable),
           pending_frames' = Tail(pending_frames),
           readable' = Run(End(wire[Finished + 1]), written),
           inbound_message' = Run(After(Finished + 1).from, End(wire[Finished + 1])),
           delivered' \in Seq(Nat), \A i \in 1..Len(delivered') : delivered'[i] = i,
           After(Finished + 1).msg = Len(delivered') + 1,
           ws_state' \in {"kOpen", "kClosing"},
           UNCHANGED <<receiving_message, error>>
    PROVE  WsInv'
<1> DEFINE L == Len(pending_frames)
           len == pending_frames[1].len
<1>0. /\ WsTyped /\ StreamInv /\ QueueInv /\ AssemblyInv /\ ws_state = "kOpen"
      /\ UNCHANGED <<wire, announced, written, draining>> /\ pending_frames # <<>>
  BY DEF Turn, WsInv, OpenInv
<1>1. /\ L \in Nat /\ L >= 1 /\ Finished \in Nat /\ Read \in Nat /\ written \in Nat
      /\ len \in Nat /\ Len(readable) \in Nat /\ Read + Len(readable) = written
      /\ Read + len = End(wire[Finished + 1]) /\ Len(wire) \in Nat
      /\ Finished + L = announced /\ announced \in Nat /\ announced <= Len(wire)
      /\ Finished + 1 \in 1..Len(wire)
  BY Front
<1>2. /\ pending_frames' \in Seq([len : Nat, fin : BOOLEAN]) /\ Len(pending_frames') = L - 1
      /\ \A i \in 1..(L - 1) : pending_frames'[i] = pending_frames[i + 1]
  <2>1. pending_frames \in Seq([len : Nat, fin : BOOLEAN])
    BY <1>0 DEF WsTyped
  <2>2. /\ Tail(pending_frames) \in Seq([len : Nat, fin : BOOLEAN])
        /\ Len(Tail(pending_frames)) = L - 1
        /\ \A i \in 1..Len(Tail(pending_frames)) : Tail(pending_frames)[i] = pending_frames[i + 1]
    BY <1>0, <2>1, HeadTailProperties
  <2> QED
    BY <2>2
<1>3. readable' \in Seq(Nat) /\ Read' = Read + len /\ PipeInv'
  BY <1>1, PipeTaken
<1>4. Read' = End(wire[Finished + 1]) /\ Read' \in Nat
  <2>1. End(wire[Finished + 1]) \in Nat
    BY Front
  <2> QED
    BY <1>1, <1>3, <2>1, Zenon
<1>5. Finished' = Finished + 1
  BY <1>0, <1>1, <1>2 DEF Finished
<1>6. After(Finished)' = After(Finished + 1)
  <2>1. \A i : After(i)' = After(i)
    BY TurnKeeps
  <2> QED
    BY <1>0, <1>5 DEF After, End
<1>7. /\ After(Finished + 1).at = End(wire[Finished + 1])
      /\ After(Finished + 1).from \in Nat /\ After(Finished + 1).from <= End(wire[Finished + 1])
  <2>1. Finished + 1 \in 0..Len(wire) /\ Finished + 1 # 0
    BY <1>1
  <2>2. After(Finished + 1).at = End(wire[Finished + 1])
    BY <2>1, AfterFields
  <2> QED
    BY <1>0, <2>1, <2>2, AfterIs
<1>8. WsTyped'
  <2>1. inbound_message' \in Seq(Nat)
    BY <1>4, <1>7, RunIs DEF IsRun
  <2>2. ws_state' \in {"kOpen", "kClosing", "kClosed"} /\ receiving_message' \in BOOLEAN
        /\ error' \in {"none", "write", "sequence", "decode"}
    BY TurnKeeps
  <2> QED
    BY <1>2, <1>3, <2>1, <2>2, TurnKeeps DEF WsTyped
<1>9. QueueInv'
  <2>1. ASSUME NEW i \in 1..(L - 1)
        PROVE  /\ pending_frames'[i].fin = wire[(Finished + 1) + i].fin
               /\ pending_frames'[i].len = wire[(Finished + 1) + i].len
    <3>1. i + 1 \in 1..L /\ i + 1 > 1 /\ Finished + (i + 1) = (Finished + 1) + i
      BY <1>1
    <3>2. /\ pending_frames[i + 1].fin = wire[Finished + (i + 1)].fin
          /\ pending_frames[i + 1].len = wire[Finished + (i + 1)].len
      BY <1>0, <3>1 DEF QueueInv
    <3> QED
      BY <1>2, <3>1, <3>2
  <2>2. ASSUME pending_frames' # <<>>
        PROVE  /\ Read' + pending_frames'[1].len = End(wire[(Finished + 1) + 1])
               /\ pending_frames'[1].len <= wire[(Finished + 1) + 1].len
    <3> DEFINE m == (Finished + 1) + 1
    <3>1. L - 1 # 0
      <4>1. \A S : \A s \in Seq(S) : s # <<>> => Len(s) # 0
        OBVIOUS
      <4> QED
        BY <1>2, <2>2, <4>1
    <3>2. 1 \in 1..(L - 1) /\ (Finished + 1) + 1 \in 1..Len(wire)
      BY <1>1, <3>1, SecondIs, Zenon
    <3>3. m \in 1..Len(wire) /\ m - 1 = Finished + 1
      BY <1>1, <3>2
    <3>4. pending_frames'[1].len = wire[m].len
      BY <2>1, <3>2
    <3>5. wire[m].at = End(wire[Finished + 1])
      BY <1>0, <1>7, <3>3 DEF StreamInv
    <3>6. wire[m].len \in Nat
      BY <1>0, <3>3, FrameIs
    <3>7. End(wire[m]) = wire[m].at + wire[m].len
      BY DEF End
    <3> HIDE DEF m
    <3>8. Read' = wire[m].at
      BY <1>4, <3>5, Zenon
    <3>9. Read' + pending_frames'[1].len = End(wire[m])
      BY <3>4, <3>7, <3>8, Zenon
    <3>10. wire[m].len <= wire[m].len
      BY <3>6
    <3> QED
      BY <3>4, <3>9, <3>10, Zenon DEF m
  <2>3. L - 1 <= announced
    BY <1>1
  <2> QED
    BY <1>0, <1>2, <1>4, <1>5, <1>6, <1>7, <2>1, <2>2, <2>3 DEF QueueInv, End
<1>10. AssemblyInv'
  <2>1. /\ After(Finished)'.from <= Read'
        /\ inbound_message' = Run(After(Finished)'.from, Read')
        /\ After(Finished)'.msg = Len(delivered') + 1
    BY <1>4, <1>6, <1>7
  <2>2. receiving_message' <=> announced' > 0 /\ ~wire'[announced'].fin
    BY <1>0, TurnKeeps
  <2> QED
    BY <2>1, <2>2 DEF AssemblyInv, Run
<1>11. Reassembled'
  <2>1. Len(readable') <= written'
    BY <1>3 DEF PipeInv
  <2>2. InOrder'
    BY <1>8, <1>9, <1>10, <2>1, TurnKeeps DEF InOrder
  <2> QED
    BY <2>2, InHand, PTL
<1>12. FailureInv'
  BY TurnKeeps DEF FailureInv
<1> QED
  BY <1>3, <1>8, <1>9, <1>10, <1>11, <1>12, TurnKeeps DEF WsInv, OpenInv

\* The next message, complete, is the one that its last frame ends.
LEMMA WholeMessage ==
    ASSUME Turn, wire[Finished + 1].fin, NEW i \in 1..Len(wire),
           Decodes(Run(wire[Finished + 1].from, End(wire[Finished + 1])), wire[i])
    PROVE  wire[i].msg = Len(delivered) + 1
<1> DEFINE k == Finished + 1
<1>0. WsTyped /\ StreamInv
  BY DEF Turn, WsInv
<1>1. k \in 1..Len(wire) /\ wire[k].msg = Len(delivered) + 1
  BY Front, TurnKeeps
<1>2. /\ wire[i].fin /\ Run(wire[k].from, End(wire[k])) # <<>>
      /\ Run(wire[k].from, End(wire[k])) = Run(wire[i].from, End(wire[i]))
  BY DEF Decodes
<1>3. /\ wire[k].from \in Nat /\ End(wire[k]) \in Nat /\ wire[k].from <= End(wire[k])
      /\ wire[i].from \in Nat /\ End(wire[i]) \in Nat /\ wire[i].from <= End(wire[i])
  <2>1. wire[i].from <= wire[i].at /\ wire[k].from <= wire[k].at
    BY <1>0, <1>1 DEF StreamInv
  <2>2. /\ wire[i].from \in Nat /\ wire[i].at \in Nat /\ End(wire[i]) \in Nat
        /\ wire[i].at <= End(wire[i])
    BY <1>0, FrameIs
  <2>3. /\ wire[k].from \in Nat /\ wire[k].at \in Nat /\ End(wire[k]) \in Nat
        /\ wire[k].at <= End(wire[k])
    BY <1>0, <1>1, FrameIs
  <2> QED
    BY <2>1, <2>2, <2>3
<1>4. wire[k].from # End(wire[k])
  <2> SUFFICES ASSUME wire[k].from = End(wire[k]) PROVE FALSE
    OBVIOUS
  <2>1. IsRun(Run(wire[k].from, End(wire[k])), wire[k].from, End(wire[k]))
    BY <1>3, RunIs
  <2>2. Run(wire[k].from, End(wire[k])) = <<>>
    BY <1>3, <2>1 DEF IsRun
  <2> QED
    BY <1>2, <2>2
<1>5. wire[k].from = wire[i].from /\ End(wire[k]) = End(wire[i])
  <2>1. wire[k].from < End(wire[k])
    BY <1>3, <1>4
  <2> HIDE DEF k
  <2> QED
    BY <1>2, <1>3, <2>1, RunPlace
<1>6. i = k
  BY <1>0, <1>1, <1>2, <1>4, <1>5, OneMessage
<1> QED
  BY <1>1, <1>6

\* A run that is empty.
LEMMA EmptyRun == \A a, b \in Nat : a <= b => (Run(a, b) = <<>> <=> a = b)
<1> SUFFICES ASSUME NEW a \in Nat, NEW b \in Nat, a <= b PROVE Run(a, b) = <<>> <=> a = b
  OBVIOUS
<1>1. Run(a, b) \in Seq(Nat) /\ Len(Run(a, b)) = b - a
  BY RunIs DEF IsRun
<1>2. \A s \in Seq(Nat) : s = <<>> <=> Len(s) = 0
  OBVIOUS
<1> QED
  BY <1>1, <1>2

\* A message begins no later than a frame of it ends.
LEMMA FromIs ==
    ASSUME WsTyped, StreamInv, NEW i \in 1..Len(wire)
    PROVE  wire[i].from \in Nat /\ End(wire[i]) \in Nat /\ wire[i].from <= End(wire[i])
<1>1. /\ wire[i].from \in Nat /\ wire[i].at \in Nat /\ End(wire[i]) \in Nat
      /\ wire[i].at <= End(wire[i])
  BY FrameIs
<1>2. wire[i].from <= wire[i].at
  BY DEF StreamInv
<1> QED
  BY <1>1, <1>2

\* One more message in order.
LEMMA NextDelivered ==
    ASSUME NEW s \in Seq(Nat), \A i \in 1..Len(s) : s[i] = i, NEW t, t = Append(s, Len(s) + 1)
    PROVE  t \in Seq(Nat) /\ Len(t) = Len(s) + 1 /\ \A i \in 1..Len(t) : t[i] = i
<1>1. t \in Seq(Nat) /\ Len(t) = Len(s) + 1 /\ Len(s) \in Nat
  OBVIOUS
<1>2. t[Len(s) + 1] = Len(s) + 1 /\ \A i \in 1..Len(s) : t[i] = s[i]
  OBVIOUS
<1>3. \A i \in 1..(Len(s) + 1) : i \in 1..Len(s) \/ i = Len(s) + 1
  BY <1>1
<1> QED
  BY <1>1, <1>2, <1>3

\* A whole message that does not decode is one that the codec refuses.
LEMMA NotDecoded ==
    ASSUME Turn, wire[Finished + 1].fin,
           \A i \in 1..Len(wire) :
              ~Decodes(Run(wire[Finished + 1].from, End(wire[Finished + 1])), wire[i])
    PROVE  Refuses(Len(delivered) + 1)
<1> DEFINE k == Finished + 1
<1>0. WsTyped /\ StreamInv
  BY DEF Turn, WsInv
<1>1. k \in 1..Len(wire) /\ wire[k].msg = Len(delivered) + 1 /\ wire[k].fin
  BY Front, TurnKeeps
<1>2. ~Decodes(Run(wire[k].from, End(wire[k])), wire[k])
  BY <1>1
<1> HIDE DEF k
<1>3. wire[k].msg \in Rejected \/ Run(wire[k].from, End(wire[k])) = <<>>
  BY <1>1, <1>2 DEF Decodes
<1>4. wire[k].msg \in Rejected \/ wire[k].from = End(wire[k])
  BY <1>0, <1>1, <1>3, FromIs, EmptyRun
<1> QED
  BY <1>1, <1>4 DEF Refuses

\* FinishFrame, for the front frame and the bytes that the loop took for it.
LEMMA FinishInv ==
    ASSUME Turn, NEW message, NEW rest, pending_frames[1].len <= Len(readable),
           message = Run(wire[Finished + 1].from, End(wire[Finished + 1])),
           rest = Run(End(wire[Finished + 1]), written),
           FinishFrame(wire[Finished + 1].fin, message, rest, Tail(pending_frames))
    PROVE  WsInv'
<1> DEFINE k == Finished + 1
<1>0. WsTyped /\ StreamInv /\ WsInv /\ ws_state = "kOpen"
  BY DEF Turn, WsInv
<1>1. /\ k \in 1..Len(wire) /\ k # 0 /\ wire[k].msg = Len(delivered) + 1
      /\ wire[k].fin \in BOOLEAN
  BY <1>0, Front, TurnKeeps, FrameIs
<1>2. /\ After(k).msg = IF wire[k].fin THEN wire[k].msg + 1 ELSE wire[k].msg
      /\ After(k).from = IF wire[k].fin THEN End(wire[k]) ELSE wire[k].from
  BY <1>1, AfterFields
<1>3. /\ delivered \in Seq(Nat) /\ (\A i \in 1..Len(delivered) : delivered[i] = i)
      /\ error = "none" /\ UNCHANGED <<wire, written, announced, draining>>
      /\ announced' \in Nat /\ announced' <= Len(wire) /\ draining' \in BOOLEAN
  BY TurnKeeps DEF Turn
<1>4. CASE /\ ~wire[k].fin
           /\ inbound_message' = message
           /\ readable' = rest /\ pending_frames' = Tail(pending_frames)
           /\ UNCHANGED <<ws_state, receiving_message, delivered, error>>
  <2>1. After(k).msg = Len(delivered') + 1 /\ After(k).from = wire[k].from
    BY <1>1, <1>2, <1>4
  <2>2. ws_state' \in {"kOpen", "kClosing"}
    BY <1>0, <1>4
  <2>3. /\ delivered' \in Seq(Nat) /\ (\A i \in 1..Len(delivered') : delivered'[i] = i)
        /\ UNCHANGED <<receiving_message, error>>
    BY <1>3, <1>4
  <2>4. inbound_message' = Run(After(k).from, End(wire[k]))
    BY <1>4, <2>1
  <2> QED
    BY <1>4, <2>1, <2>2, <2>3, <2>4, PopInv
<1>5. CASE /\ wire[k].fin
           /\ \A i \in 1..Len(wire) : ~Decodes(message, wire[i])
           /\ FailWithError("decode")
           /\ UNCHANGED delivered
  <2>1. Refuses(Len(delivered) + 1)
    BY <1>5, NotDecoded
  <2>2. Release /\ error' = "decode"
    BY <1>5 DEF FailWithError
  <2>3. delivered' \in Seq(Nat) /\ (\A i \in 1..Len(delivered') : delivered'[i] = i)
    BY <1>3, <1>5
  <2> QED
    BY <1>0, <1>3, <1>5, <2>1, <2>2, <2>3, ReleaseInv
<1>6. CASE wire[k].fin /\ Dispatched(message, rest, Tail(pending_frames))
  <2>1. PICK i \in 1..Len(wire) : /\ Decodes(message, wire[i])
                                  /\ delivered' = Append(delivered, wire[i].msg)
    BY <1>6 DEF Dispatched
  <2>2. wire[i].msg = Len(delivered) + 1
    BY <1>6, <2>1, WholeMessage
  <2>3. delivered' = Append(delivered, Len(delivered) + 1)
    BY <2>1, <2>2
  <2>4. /\ delivered' \in Seq(Nat) /\ Len(delivered') = Len(delivered) + 1
        /\ \A j \in 1..Len(delivered') : delivered'[j] = j
    BY <1>3, <2>3, NextDelivered
  <2>5. CASE /\ inbound_message' = <<>>
             /\ readable' = rest /\ pending_frames' = Tail(pending_frames)
             /\ ws_state' \in {"kOpen", "kClosing"}
             /\ UNCHANGED <<receiving_message, error>>
    <3>1. After(k).msg = Len(delivered') + 1 /\ After(k).from = End(wire[k])
      BY <1>1, <1>2, <1>6, <2>4
    <3>2. End(wire[k]) \in Nat
      BY <1>0, <1>1, FrameIs
    <3>3. Run(End(wire[k]), End(wire[k])) = <<>>
      BY <3>2, EmptyRun
    <3>4. inbound_message' = Run(After(k).from, End(wire[k]))
      BY <2>5, <3>1, <3>3
    <3> QED
      BY <2>4, <2>5, <3>1, <3>4, PopInv
  <2>6. CASE FailWithError("write")
    BY <1>0, <1>3, <2>4, <2>6, ReleaseInv DEF FailWithError
  <2> QED
    BY <1>6, <2>5, <2>6 DEF Dispatched
<1> QED
  BY <1>4, <1>5, <1>6 DEF FinishFrame

\* A turn for the front frame.
LEMMA FrameTurnInv ==
    ASSUME Turn, NEW n \in 0..Len(readable), ConsumeFrame(n)
    PROVE  WsInv'
<1> DEFINE len == pending_frames[1].len
           take == IF n >= len THEN len ELSE n
           message == inbound_message \o SubSeq(readable, 1, take)
           rest == SubSeq(readable, take + 1, Len(readable))
<1>1. /\ Head(pending_frames) = pending_frames[1] /\ len \in Nat /\ Len(readable) \in Nat
      /\ pending_frames[1].fin = wire[Finished + 1].fin
      /\ Read + len = End(wire[Finished + 1])
  BY Front
<1>2. n \in Nat /\ n <= Len(readable) /\ take \in Nat /\ take <= Len(readable)
  BY <1>1
<1>3. /\ message = Run(wire[Finished + 1].from, Read + take)
      /\ rest = Run(Read + take, written)
  BY <1>2, Taken
<1>4. CASE n >= len /\ FinishFrame(pending_frames[1].fin, message, rest, Tail(pending_frames))
  <2>1. take = len /\ Read + take = End(wire[Finished + 1]) /\ len <= Len(readable)
    BY <1>1, <1>2, <1>4
  <2> HIDE DEF take, message, rest
  <2>2. /\ message = Run(wire[Finished + 1].from, End(wire[Finished + 1]))
        /\ rest = Run(End(wire[Finished + 1]), written)
        /\ FinishFrame(wire[Finished + 1].fin, message, rest, Tail(pending_frames))
    BY <1>1, <1>3, <1>4, <2>1
  <2> QED
    BY <2>1, <2>2, FinishInv
<1>5. CASE /\ n < len
           /\ pending_frames' = [pending_frames EXCEPT ![1].len = @ - n]
           /\ inbound_message' = message
           /\ readable' = rest
           /\ UNCHANGED <<ws_state, receiving_message, delivered, error>>
  <2>1. take = n /\ n \in Nat /\ n <= Len(readable)
    <3>1. ~(n >= len)
      BY <1>1, <1>2, <1>5
    <3> QED
      BY <1>2, <3>1, Zenon
  <2> HIDE DEF take
  <2>2. /\ inbound_message' = Run(wire[Finished + 1].from, Read + n)
        /\ readable' = Run(Read + n, written)
    BY <1>3, <1>5, <2>1
  <2> QED
    BY <1>5, <2>1, <2>2, ShrinkInv
<1> QED
  BY <1>1, <1>4, <1>5 DEF ConsumeFrame

\* ConsumePendingFrames: a turn, or the end of the loop.
LEMMA ConsumeInv == ASSUME WsInv, ConsumePendingFrames PROVE WsInv'
<1>1. UNCHANGED <<wire, announced, written>>
  BY DEF ConsumePendingFrames, netVars
<1>2. CASE /\ draining' = FALSE
           /\ UNCHANGED <<ws_state, readable, pending_frames, inbound_message,
                          receiving_message, delivered, error>>
  BY <1>1, <1>2, NothingTaken
<1>3. CASE /\ pending_frames # <<>> /\ ws_state = "kOpen"
           /\ \/ Head(pending_frames).len = 0 /\ ConsumeFrame(0)
              \/ /\ Head(pending_frames).len # 0
                 /\ \E n \in 1..Len(readable) : ConsumeFrame(n)
           /\ UNCHANGED draining
  <2>1. Turn
    BY <1>1, <1>3 DEF Turn
  <2>2. Len(readable) \in Nat
    BY <2>1, Front
  <2>3. \E n \in 0..Len(readable) : ConsumeFrame(n)
    <3>1. 0 \in 0..Len(readable) /\ \A n \in 1..Len(readable) : n \in 0..Len(readable)
      BY <2>2
    <3> QED
      BY <1>3, <3>1
  <2> QED
    BY <2>1, <2>3, FrameTurnInv
<1> QED
  BY <1>2, <1>3 DEF ConsumePendingFrames

-----------------------------------------------------------------------------
(***************************************************************************)
(* The receive path.                                                       *)
(***************************************************************************)

\* OnConnectionEstablished finds nothing sent, announced or taken.
LEMMA WsInitInv == WsInit => WsInv
<1> SUFFICES ASSUME WsInit PROVE WsInv
  OBVIOUS
<1>1. /\ Len(wire) = 0 /\ Len(pending_frames) = 0 /\ Len(readable) = 0 /\ Len(delivered) = 0
      /\ announced = 0 /\ written = 0 /\ ws_state = "kOpen" /\ error = "none"
      /\ pending_frames = <<>> /\ readable = <<>> /\ inbound_message = <<>>
      /\ receiving_message = FALSE /\ draining = FALSE
  BY DEF WsInit
<1>2. Finished = 0 /\ Read = 0
  BY <1>1 DEF Finished, Read
<1>3. Run(0, 0) = <<>>
  BY EmptyRun
<1>4. WsTyped
  <2>1. After(Len(wire)).at = 0
    BY <1>1, AfterFields
  <2>2. \A S : <<>> \in Seq(S)
    OBVIOUS
  <2>3. /\ wire \in Seq(Frames) /\ readable \in Seq(Nat) /\ inbound_message \in Seq(Nat)
        /\ pending_frames \in Seq([len : Nat, fin : BOOLEAN]) /\ delivered \in Seq(Nat)
    BY <2>2, Zenon DEF WsInit
  <2>4. /\ announced \in Nat /\ announced <= Len(wire)
        /\ written \in Nat /\ written <= After(Len(wire)).at
    BY <1>1, <2>1
  <2> QED
    BY <1>1, <2>3, <2>4 DEF WsTyped
<1>5. StreamInv /\ Reassembled /\ FailureInv
  BY <1>1 DEF StreamInv, Reassembled, FailureInv
<1>6. PipeInv
  BY <1>1, <1>2, <1>3 DEF PipeInv
<1>7. OpenInv
  BY <1>1, <1>2, <1>3, AfterFields DEF OpenInv, QueueInv, AssemblyInv
<1> QED
  BY <1>4, <1>5, <1>6, <1>7 DEF WsInv

\* Every step of the channel keeps the invariant.
LEMMA WsStepInv == WsInv /\ [WsNext]_wsVars => WsInv'
<1> SUFFICES ASSUME WsInv, [WsNext]_wsVars PROVE WsInv'
  OBVIOUS
<1>0. WsTyped /\ Reassembled /\ FailureInv
  BY DEF WsInv
<1>1. ASSUME NEW type \in FrameTypes, NEW len \in 0..MaxLen, NEW fin \in BOOLEAN,
             BrokerSends(type, len, fin)
      PROVE  WsInv'
  BY <1>1, SendsInv, StreamAssumption
<1>2. ASSUME NEW n \in 1..(After(Len(wire)).at - written), PipeWrite(n)
      PROVE  WsInv'
  BY <1>2, PipeWriteInv
<1>3. CASE OnDataFrame
  BY <1>3, DataFrameInv
<1>4. CASE ConsumePendingFrames
  BY <1>4, ConsumeInv
<1>5. CASE StartClosing
  <2>1. error = "none" /\ announced \in Nat /\ announced <= Len(wire) /\ draining \in BOOLEAN
    BY <1>0, <1>5 DEF StartClosing, FailureInv, WsTyped
  <2> QED
    BY <1>5, <2>1, NothingTaken DEF StartClosing, netVars
<1>6. CASE WriteFails \/ WsOnDropChannel
  <2>1. /\ Release /\ UNCHANGED <<wire, announced, written, draining, delivered>>
        /\ error' \in {error, "write"} /\ ws_state # "kClosed"
    BY <1>6 DEF WriteFails, WsOnDropChannel, FailWithError, netVars
  <2>2. error' \in {"none", "write"}
    BY <1>0, <2>1 DEF FailureInv
  <2>3. /\ announced' \in Nat /\ announced' <= Len(wire) /\ draining' \in BOOLEAN
        /\ delivered' \in Seq(Nat) /\ \A i \in 1..Len(delivered') : delivered'[i] = i
    BY <1>0, <2>1 DEF WsTyped, Reassembled
  <2> QED
    BY <2>1, <2>2, <2>3, ReleaseInv
<1>7. CASE UNCHANGED wsVars
  BY <1>0, <1>7, NothingTaken DEF wsVars, WsTyped
<1> QED
  BY <1>1, <1>2, <1>3, <1>4, <1>5, <1>6, <1>7 DEF WsNext, Network, ChannelOver

\* The strengthened invariant: the pipe, the queue and the assembly of an open
\* channel are one cut through the stream (ConsumePendingFrames, OnDataFrame).
THEOREM WsInvariance == WsSpec => []WsInv
  BY WsInitInv, WsStepInv, PTL DEF WsSpec

\* The observer's OnEnvelope gets every message once and in order, and what
\* ConsumePendingFrames has put aside is a beginning of the next, for streams of
\* any length however their announcements and their bytes interleave.
THEOREM WsReassembled == WsSpec => []Reassembled
<1>1. WsInv => Reassembled
  BY DEF WsInv
<1> QED
  BY <1>1, WsInvariance, PTL

\* OnDataFrame and FinishFrame call FailWithError on a well-formed stream only for
\* the next message, and only when the codec's Decode refuses it.
THEOREM WsFailsOnlyOnRejection == WsSpec => []FailsOnlyOnRejection
<1>1. WsInv => FailsOnlyOnRejection
  <2> SUFFICES ASSUME WsInv, WellFormed, error \notin {"none", "write"}
               PROVE  error = "decode" /\ Refuses(Len(delivered) + 1)
    BY DEF FailsOnlyOnRejection
  <2>1. error \in {"sequence", "decode"}
    BY DEF WsInv, WsTyped
  <2> QED
    BY <2>1 DEF WsInv, FailureInv
<1> QED
  BY <1>1, WsInvariance, PTL

-----------------------------------------------------------------------------
(***************************************************************************)
(* The redial wrapper.                                                     *)
(***************************************************************************)

USE BackoffAssumption, AttemptsAssumption

\* An established channel has no failure behind it; nothing is under way in a
\* wrapper that has not started, has given up or is gone.
Settled ==
    /\ inner \in {"kOpen", "kClosing"} =>
          state = "kOpen" /\ failures = 0 /\ attempts_made = 0
    /\ state \in {"kIdle", "kGaveUp", "gone"} => inner = "none"
    /\ state = "kIdle" => failures = 0
    /\ state = "kBackingOff" => attempts_made < MaxAttempts

IInv ==
    /\ TypeOK /\ OneChannel /\ NeverStranded /\ GivesUpExactly /\ ClosedByConsumer
    /\ Settled

\* A backoff that is advanced stays between one tick and the cap.
LEMMA BackoffBounded ==
    ASSUME NEW b \in 1..MaxBackoff
    PROVE  /\ Lesser(b * Multiplier, MaxBackoff) \in 1..MaxBackoff
           /\ NextBackoff(b) \in 1..MaxBackoff
<1>1. b * Multiplier \in Nat /\ b * Multiplier >= 1
  OBVIOUS
<1> QED
  BY <1>1 DEF Lesser, NextBackoff

\* The wrapper is built with all of this true.
LEMMA InitIInv == Init => IInv
<1> SUFFICES ASSUME Init PROVE IInv
  OBVIOUS
<1>1. TypeOK
  <2>1. /\ state \in States /\ attempts_made \in 0..MaxAttempts
       /\ current_backoff \in 1..MaxBackoff /\ backoff_timer \in 0..MaxBackoff
       /\ inner \in {"none", "kConnecting", "kOpen", "kClosing"} /\ failures \in Nat
    BY DEF Init, TypeOK, States
  <2>2. /\ idle_timeout \in BOOLEAN /\ disconnect_requested \in BOOLEAN
       /\ idle_timer \in BOOLEAN
    BY DEF Init, TypeOK
  <2> QED
    BY <2>1, <2>2 DEF TypeOK
<1>2. OneChannel
  BY DEF Init, TypeOK, OneChannel
<1>3. NeverStranded
  BY DEF Init, TypeOK, OneChannel, NeverStranded
<1>4. GivesUpExactly
  BY DEF Init, TypeOK, GivesUpExactly, NeverStranded, Settled
<1>5. ClosedByConsumer
  BY DEF Init, ClosedByConsumer
<1>6. Settled
  BY DEF Init, TypeOK, NeverStranded, GivesUpExactly, Settled
<1> QED
  BY <1>1, <1>2, <1>3, <1>4, <1>5, <1>6 DEF IInv

\* A death of the channel, however it is noticed, is either the last one or
\* leads to exactly one pending redial.
LEMMA DeathIInv ==
    ASSUME IInv, inner # "none", HandleChannelDead, idle_timer' = FALSE,
           UNCHANGED <<idle_timeout, disconnect_requested, attempts_made>>
    PROVE  IInv'
<1> USE DEF IInv
<1>0. failures = attempts_made
  BY DEF TypeOK, GivesUpExactly, Settled
<1>1. CASE Exhausted(attempts_made)
  <2>1. /\ inner' = "none" /\ state' = "kGaveUp" /\ failures' = failures + 1
        /\ UNCHANGED <<backoff_timer, current_backoff>>
    BY <1>1 DEF HandleChannelDead
  <2>2. attempts_made = MaxAttempts
    BY <1>1 DEF Exhausted, TypeOK
  <2>3. backoff_timer = 0
    BY DEF OneChannel, TypeOK
  <2>4. TypeOK'
    <3>1. /\ state' \in States /\ attempts_made' \in 0..MaxAttempts
         /\ current_backoff' \in 1..MaxBackoff /\ backoff_timer' \in 0..MaxBackoff
         /\ inner' \in {"none", "kConnecting", "kOpen", "kClosing"} /\ failures' \in Nat
      BY <1>0, <2>1 DEF TypeOK, States
    <3>2. /\ idle_timeout' \in BOOLEAN /\ disconnect_requested' \in BOOLEAN
         /\ idle_timer' \in BOOLEAN
      BY <1>0, <2>1 DEF TypeOK
    <3> QED
      BY <3>1, <3>2 DEF TypeOK
  <2>5. OneChannel'
    BY <1>0, <2>1, <2>2, <2>3 DEF TypeOK, OneChannel
  <2>6. NeverStranded'
    BY <1>0, <2>1, <2>2, <2>3 DEF TypeOK, OneChannel, NeverStranded
  <2>7. GivesUpExactly'
    BY <1>0, <2>1, <2>2, <2>3 DEF TypeOK, GivesUpExactly, NeverStranded, Settled
  <2>8. ClosedByConsumer'
    BY <1>0, <2>1, <2>2, <2>3 DEF ClosedByConsumer
  <2>9. Settled'
    BY <1>0, <2>1, <2>2, <2>3 DEF TypeOK, NeverStranded, GivesUpExactly, Settled
  <2> QED
    BY <2>4, <2>5, <2>6, <2>7, <2>8, <2>9
<1>2. CASE ~Exhausted(attempts_made)
  <2>1. /\ inner' = "none" /\ state' = "kBackingOff" /\ failures' = failures + 1
        /\ backoff_timer' \in 1..MaxBackoff /\ current_backoff' \in 1..MaxBackoff
    BY <1>2, BackoffBounded DEF HandleChannelDead, TypeOK
  <2>2. attempts_made < MaxAttempts
    BY <1>2 DEF Exhausted, TypeOK
  <2>3. TypeOK'
    <3>1. /\ state' \in States /\ attempts_made' \in 0..MaxAttempts
         /\ current_backoff' \in 1..MaxBackoff /\ backoff_timer' \in 0..MaxBackoff
         /\ inner' \in {"none", "kConnecting", "kOpen", "kClosing"} /\ failures' \in Nat
      BY <1>0, <2>1 DEF TypeOK, States
    <3>2. /\ idle_timeout' \in BOOLEAN /\ disconnect_requested' \in BOOLEAN
         /\ idle_timer' \in BOOLEAN
      BY <1>0, <2>1 DEF TypeOK
    <3> QED
      BY <3>1, <3>2 DEF TypeOK
  <2>4. OneChannel'
    BY <1>0, <2>1, <2>2 DEF TypeOK, OneChannel
  <2>5. NeverStranded'
    BY <1>0, <2>1, <2>2 DEF TypeOK, OneChannel, NeverStranded
  <2>6. GivesUpExactly'
    BY <1>0, <2>1, <2>2 DEF TypeOK, GivesUpExactly, NeverStranded, Settled
  <2>7. ClosedByConsumer'
    BY <1>0, <2>1, <2>2 DEF ClosedByConsumer
  <2>8. Settled'
    BY <1>0, <2>1, <2>2 DEF TypeOK, NeverStranded, GivesUpExactly, Settled
  <2> QED
    BY <2>3, <2>4, <2>5, <2>6, <2>7, <2>8
<1> QED
  BY <1>1, <1>2

\* The consumer's calls preserve the invariant.
LEMMA ConsumerIInv == IInv /\ (Connect \/ Disconnect \/ SendFails \/ TearDown) => IInv'
<1> SUFFICES ASSUME IInv, Connect \/ Disconnect \/ SendFails \/ TearDown PROVE IInv'
  OBVIOUS
<1> USE DEF IInv
<1>1. CASE Connect
  BY <1>1 DEF Connect, StartInnerDial, TypeOK, States, OneChannel, NeverStranded,
     GivesUpExactly, ClosedByConsumer, Settled
<1>2. CASE Disconnect
  <2>1. TypeOK'
    <3>1. /\ state' \in States /\ attempts_made' \in 0..MaxAttempts
         /\ current_backoff' \in 1..MaxBackoff /\ backoff_timer' \in 0..MaxBackoff
         /\ inner' \in {"none", "kConnecting", "kOpen", "kClosing"} /\ failures' \in Nat
      BY <1>2 DEF Disconnect, TypeOK, States
    <3>2. /\ idle_timeout' \in BOOLEAN /\ disconnect_requested' \in BOOLEAN
         /\ idle_timer' \in BOOLEAN
      BY <1>2 DEF Disconnect, TypeOK
    <3> QED
      BY <3>1, <3>2 DEF TypeOK
  <2>2. OneChannel'
    BY <1>2 DEF Disconnect, TypeOK, OneChannel
  <2>3. NeverStranded'
    BY <1>2 DEF Disconnect, TypeOK, OneChannel, NeverStranded
  <2>4. GivesUpExactly'
    BY <1>2 DEF Disconnect, TypeOK, GivesUpExactly, NeverStranded, Settled
  <2>5. ClosedByConsumer'
    BY <1>2 DEF Disconnect, ClosedByConsumer
  <2>6. Settled'
    BY <1>2 DEF Disconnect, TypeOK, NeverStranded, GivesUpExactly, Settled
  <2> QED
    BY <2>1, <2>2, <2>3, <2>4, <2>5, <2>6
<1>3. CASE SendFails
  BY <1>3, DeathIInv DEF SendFails, OnError
<1>4. CASE TearDown
  <2>1. TypeOK'
    <3>1. /\ state' \in States /\ attempts_made' \in 0..MaxAttempts
         /\ current_backoff' \in 1..MaxBackoff /\ backoff_timer' \in 0..MaxBackoff
         /\ inner' \in {"none", "kConnecting", "kOpen", "kClosing"} /\ failures' \in Nat
      BY <1>4 DEF TearDown, TypeOK, States
    <3>2. /\ idle_timeout' \in BOOLEAN /\ disconnect_requested' \in BOOLEAN
         /\ idle_timer' \in BOOLEAN
      BY <1>4 DEF TearDown, TypeOK
    <3> QED
      BY <3>1, <3>2 DEF TypeOK
  <2>2. OneChannel'
    BY <1>4 DEF TearDown, TypeOK, OneChannel
  <2>3. NeverStranded'
    BY <1>4 DEF TearDown, TypeOK, OneChannel, NeverStranded
  <2>4. GivesUpExactly'
    BY <1>4 DEF TearDown, TypeOK, GivesUpExactly, NeverStranded, Settled
  <2>5. ClosedByConsumer'
    BY <1>4 DEF TearDown, ClosedByConsumer
  <2>6. Settled'
    BY <1>4 DEF TearDown, TypeOK, NeverStranded, GivesUpExactly, Settled
  <2> QED
    BY <2>1, <2>2, <2>3, <2>4, <2>5, <2>6
<1> QED
  BY <1>1, <1>2, <1>3, <1>4

\* So do the callbacks of the network service.
LEMMA NetworkIInv ==
    IInv /\ (\/ OnConnectionEstablished \/ OnFailure \/ OnEnvelope \/ InboundError
             \/ OnClosingHandshake \/ \E clean \in BOOLEAN : OnDropChannel(clean))
        => IInv'
<1> SUFFICES ASSUME IInv,
                    \/ OnConnectionEstablished \/ OnFailure \/ OnEnvelope \/ InboundError
                    \/ OnClosingHandshake \/ \E clean \in BOOLEAN : OnDropChannel(clean)
             PROVE  IInv'
  OBVIOUS
<1> USE DEF IInv
<1>1. CASE OnConnectionEstablished
  BY <1>1 DEF OnConnectionEstablished, TypeOK, States, OneChannel, NeverStranded,
     GivesUpExactly, ClosedByConsumer, Settled
<1>2. CASE OnFailure
  BY <1>2, DeathIInv DEF OnFailure, OnError
<1>3. CASE OnEnvelope
  <2>1. TypeOK'
    BY <1>3 DEF OnEnvelope, TypeOK, States
  <2>2. OneChannel'
    BY <1>3 DEF OnEnvelope, TypeOK, OneChannel, Settled
  <2>3. NeverStranded'
    BY <1>3 DEF OnEnvelope, TypeOK, OneChannel, NeverStranded
  <2>4. GivesUpExactly'
    BY <1>3 DEF OnEnvelope, TypeOK, GivesUpExactly, NeverStranded, Settled
  <2>5. ClosedByConsumer'
    BY <1>3 DEF OnEnvelope, ClosedByConsumer
  <2>6. Settled'
    BY <1>3 DEF OnEnvelope, TypeOK, NeverStranded, GivesUpExactly, Settled
  <2> QED
    BY <2>1, <2>2, <2>3, <2>4, <2>5, <2>6
<1>4. CASE InboundError
  BY <1>4, DeathIInv DEF InboundError, OnError
<1>5. CASE OnClosingHandshake
  BY <1>5 DEF OnClosingHandshake, TypeOK, States, OneChannel, NeverStranded,
     GivesUpExactly, ClosedByConsumer, Settled
<1>6. ASSUME NEW clean \in BOOLEAN, OnDropChannel(clean) PROVE IInv'
  <2> DEFINE closed == clean \/ inner = "kClosing"
  <2>1. CASE closed /\ (state = "kClosed" \/ disconnect_requested)
    <3>1. /\ idle_timer' = FALSE /\ inner' = "none" /\ state' = "kClosed"
          /\ UNCHANGED <<idle_timeout, disconnect_requested, attempts_made,
                         current_backoff, backoff_timer, failures>>
      BY <1>6, <2>1 DEF OnDropChannel
    <3>2. backoff_timer = 0 /\ disconnect_requested
      BY <1>6, <2>1 DEF OnDropChannel, OneChannel, TypeOK, ClosedByConsumer
    <3>3. TypeOK'
      BY <3>1, <3>2 DEF TypeOK, States
    <3>4. OneChannel'
      BY <3>1, <3>2 DEF TypeOK, OneChannel
    <3>5. NeverStranded'
      BY <3>1, <3>2 DEF TypeOK, OneChannel, NeverStranded
    <3>6. GivesUpExactly'
      BY <3>1, <3>2 DEF TypeOK, GivesUpExactly, NeverStranded, Settled
    <3>7. ClosedByConsumer'
      BY <3>1, <3>2 DEF ClosedByConsumer
    <3>8. Settled'
      BY <3>1, <3>2 DEF TypeOK, NeverStranded, GivesUpExactly, Settled
    <3> QED
      BY <3>3, <3>4, <3>5, <3>6, <3>7, <3>8
  <2>2. CASE ~(closed /\ (state = "kClosed" \/ disconnect_requested))
    BY <1>6, <2>2, DeathIInv DEF OnDropChannel, OnError
  <2> QED
    BY <2>1, <2>2
<1> QED
  BY <1>1, <1>2, <1>3, <1>4, <1>5, <1>6

\* And so do the timers.
LEMMA TimersIInv == IInv /\ (OnBackoffFired \/ OnIdleFired) => IInv'
<1> SUFFICES ASSUME IInv, OnBackoffFired \/ OnIdleFired PROVE IInv'
  OBVIOUS
<1> USE DEF IInv
<1>1. CASE OnBackoffFired
  BY <1>1 DEF OnBackoffFired, StartInnerDial, TypeOK, States, OneChannel, NeverStranded,
     GivesUpExactly, ClosedByConsumer, Settled
<1>2. CASE OnIdleFired
  <2>1. inner # "none"
    BY <1>2 DEF OnIdleFired, OneChannel
  <2> QED
    BY <1>2, <2>1, DeathIInv DEF OnIdleFired
<1> QED
  BY <1>1, <1>2

\* A step that changes nothing preserves the invariant.
LEMMA StutterIInv == IInv /\ UNCHANGED vars => IInv'
  BY DEF vars, IInv, TypeOK, OneChannel, NeverStranded, GivesUpExactly, ClosedByConsumer,
     Settled

\* The invariant holds in every state of every behaviour.
THEOREM Invariance == Spec => []IInv
<1>1. Init => IInv
  BY InitIInv
<1>2. IInv /\ [Next]_vars => IInv'
  BY ConsumerIInv, NetworkIInv, TimersIInv, StutterIInv DEF Next, Over
<1> QED
  BY <1>1, <1>2, PTL DEF Spec

\* TypeOK: whatever the schedule's constants are, the attempts never exceed
\* max_attempts and no delay exceeds max_backoff.
THEOREM ReconnectTyped == Spec => []TypeOK
  BY Invariance, PTL DEF IInv

\* OneChannel: a redial is never pending next to a live inner client, and the
\* idle timer never outlives the channel it watches.
THEOREM ReconnectOneChannel == Spec => []OneChannel
  BY Invariance, PTL DEF IInv

\* NeverStranded: a wrapper that is neither closed nor given up always has a
\* dial, a timer or an open channel that will bring its next callback.
THEOREM ReconnectNeverStranded == Spec => []NeverStranded
  BY Invariance, PTL DEF IInv

\* GivesUpExactly: OnGaveUp fires after exactly max_attempts failed redials in
\* a row.
THEOREM ReconnectGivesUpExactly == Spec => []GivesUpExactly
  BY Invariance, PTL DEF IInv

\* ClosedByConsumer: no close of the broker's parks the worker in kClosed.
THEOREM ReconnectClosedByConsumer == Spec => []ClosedByConsumer
  BY Invariance, PTL DEF IInv

=============================================================================
