----------------------------- MODULE WsInbound -----------------------------
(***************************************************************************)
(* The receive path of the worker's websocket client                       *)
(* (capture/signaling/cb_signaling_ws_client.cc), from the end of the      *)
(* handshake to the end of the channel.                                    *)
(*                                                                         *)
(* The network service announces a frame with OnDataFrame and puts its     *)
(* bytes into a data pipe; the two travel separately, so either may be     *)
(* seen first.  The client runs on the UI thread, one handler at a time;   *)
(* the loop of ConsumePendingFrames is one step per turn, because the      *)
(* network service may fill the pipe between two of them.                  *)
(*                                                                         *)
(* A byte is its place in the stream, so that no two bytes are alike.      *)
(***************************************************************************)
EXTENDS Naturals, Sequences

CONSTANTS
    MaxFrames, MaxLen,  \* bounds: frames of a stream, bytes of a frame
    Rejected            \* messages that the codec's Decode refuses

ASSUME StreamAssumption == MaxFrames \in Nat /\ MaxLen \in Nat

FrameTypes == {"TEXT", "CONTINUATION", "BINARY"}

VARIABLES
    wire,               \* the frames that the broker has sent
    ws_state,           \* state_
    announced,          \* frames announced so far
    written,            \* bytes put into the pipe so far
    readable,           \* the data pipe
    pending_frames,
    inbound_message,
    receiving_message,
    draining,           \* is the UI thread in ConsumePendingFrames?
    delivered,          \* history: messages given to OnEnvelope
    error               \* history: what FailWithError was called with

wsVars == <<wire, ws_state, announced, written, readable, pending_frames, inbound_message,
            receiving_message, draining, delivered, error>>

netVars == <<wire, announced, written>>

-----------------------------------------------------------------------------
(***************************************************************************)
(* The stream.  A frame also says where it is: the bytes before it (at),   *)
(* its message and the bytes before that (msg, from).                      *)
(***************************************************************************)

Frames ==
    [type : FrameTypes, len : Nat, fin : BOOLEAN, at : Nat, msg : Nat \ {0}, from : Nat]

End(f) == f.at + f.len

\* Where the frame after the first i ones is.
After(i) ==
    IF i = 0 THEN [at |-> 0, msg |-> 1, from |-> 0]
    ELSE [at |-> End(wire[i]),
          msg |-> IF wire[i].fin THEN wire[i].msg + 1 ELSE wire[i].msg,
          from |-> IF wire[i].fin THEN End(wire[i]) ELSE wire[i].from]

\* The bytes of the stream after the first a and up to the b-th.
Run(a, b) == [i \in 1..(b - a) |-> a + i]

\* What an RFC 6455 endpoint that speaks text only sends: a TEXT frame opens a
\* message and CONTINUATION frames extend it.
WellFormed ==
    \A i \in 1..Len(wire) :
        wire[i].type = IF i = 1 \/ wire[i-1].fin THEN "TEXT" ELSE "CONTINUATION"

\* Decode accepts the bytes of one whole message that the codec knows.
Decodes(bytes, f) ==
    f.fin /\ f.msg \notin Rejected /\ bytes # <<>> /\ bytes = Run(f.from, End(f))

\* Message m has been sent, and the codec refuses it.
Refuses(m) ==
    \E i \in 1..Len(wire) : /\ wire[i].fin /\ wire[i].msg = m
                            /\ m \in Rejected \/ wire[i].from = End(wire[i])

-----------------------------------------------------------------------------

\* OnConnectionEstablished.
WsInit ==
    /\ wire = <<>>
    /\ ws_state = "kOpen"
    /\ announced = 0
    /\ written = 0
    /\ readable = <<>>
    /\ pending_frames = <<>>
    /\ inbound_message = <<>>
    /\ receiving_message = FALSE
    /\ draining = FALSE
    /\ delivered = <<>>
    /\ error = "none"

\* The broker sends a frame.  Only the last frame of a message may be empty.
BrokerSends(type, len, fin) ==
    /\ ws_state # "kClosed"
    /\ Len(wire) < MaxFrames
    /\ len > 0 \/ fin
    /\ LET next == After(Len(wire))
       IN  wire' = Append(wire, [type |-> type, len |-> len, fin |-> fin,
                                 at |-> next.at, msg |-> next.msg, from |-> next.from])
    /\ UNCHANGED <<ws_state, announced, written, readable, pending_frames, inbound_message,
                   receiving_message, draining, delivered, error>>

\* The network service copies the next n bytes into the pipe.
PipeWrite(n) ==
    /\ ws_state # "kClosed"
    /\ written + n <= After(Len(wire)).at
    /\ written' = written + n
    /\ readable' = readable \o Run(written, written + n)
    /\ UNCHANGED <<wire, ws_state, announced, pending_frames, inbound_message,
                   receiving_message, draining, delivered, error>>

\* FailWithError and OnDropChannel release the pipe and the assembly state.
Release ==
    /\ ws_state' = "kClosed"
    /\ readable' = <<>>
    /\ pending_frames' = <<>>
    /\ inbound_message' = <<>>
    /\ receiving_message' = FALSE

FailWithError(reason) == Release /\ error' = reason

-----------------------------------------------------------------------------
(***************************************************************************)
(* ConsumePendingFrames.                                                   *)
(***************************************************************************)

\* Seeded fault: the assembled message is kept.
DispatchedKeepsBuffer(message, rest, frames) ==
    /\ \E i \in 1..Len(wire) : /\ Decodes(message, wire[i])
                               /\ delivered' = Append(delivered, wire[i].msg)
    /\ inbound_message' = message
    /\ readable' = rest /\ pending_frames' = frames
    /\ UNCHANGED <<ws_state, receiving_message, error>>

\* Seeded fault: the message-open flag is cleared when a message is decoded.
DispatchedResets(message, rest, frames) ==
    /\ \E i \in 1..Len(wire) : /\ Decodes(message, wire[i])
                               /\ delivered' = Append(delivered, wire[i].msg)
    /\ inbound_message' = <<>>
    /\ readable' = rest /\ pending_frames' = frames
    /\ receiving_message' = FALSE
    /\ UNCHANGED <<ws_state, error>>

\* A message that decodes goes to the observer's OnEnvelope, which may return,
\* Disconnect(), or Send an answer that fails.  The message-open flag is left to
\* OnDataFrame.
Dispatched(message, rest, frames) ==
    /\ \E i \in 1..Len(wire) : /\ Decodes(message, wire[i])
                               /\ delivered' = Append(delivered, wire[i].msg)
    /\ \/ /\ inbound_message' = <<>>
          /\ readable' = rest /\ pending_frames' = frames
          /\ ws_state' \in {"kOpen", "kClosing"}
          /\ UNCHANGED <<receiving_message, error>>
       \/ FailWithError("write")

\* FinishFrame, with the pipe and the queue as the loop leaves them: a fragment
\* is kept; a whole message is decoded and dispatched, or costs the channel.
FinishFrame(fin, message, rest, frames) ==
    \/ /\ ~fin
       /\ inbound_message' = message
       /\ readable' = rest /\ pending_frames' = frames
       /\ UNCHANGED <<ws_state, receiving_message, delivered, error>>
    \/ /\ fin
       /\ \A i \in 1..Len(wire) : ~Decodes(message, wire[i])
       /\ FailWithError("decode")
       /\ UNCHANGED delivered
    \/ fin /\ Dispatched(message, rest, frames)

\* One turn for the frame at the front, of which BeginReadData shows n bytes:
\* take exactly its length and finish it, or take what there is and shrink it.
ConsumeFrame(n) ==
    LET frame == Head(pending_frames)
        take == IF n >= frame.len THEN frame.len ELSE n
        message == inbound_message \o SubSeq(readable, 1, take)
        rest == SubSeq(readable, take + 1, Len(readable))
    IN  \/ /\ n >= frame.len
           /\ FinishFrame(frame.fin, message, rest, Tail(pending_frames))
        \/ /\ n < frame.len
           /\ pending_frames' = [pending_frames EXCEPT ![1].len = @ - n]
           /\ inbound_message' = message
           /\ readable' = rest
           /\ UNCHANGED <<ws_state, receiving_message, delivered, error>>

\* One turn of the loop.  BeginReadData shows a beginning of the pipe; with
\* nothing to show (SHOULD_WAIT, FAILED_PRECONDITION) the loop is left.
ConsumePendingFrames ==
    /\ draining
    /\ \/ /\ pending_frames # <<>> /\ ws_state = "kOpen" =>
                Head(pending_frames).len # 0 /\ readable = <<>>
          /\ draining' = FALSE
          /\ UNCHANGED <<ws_state, readable, pending_frames, inbound_message,
                         receiving_message, delivered, error>>
       \/ /\ pending_frames # <<>> /\ ws_state = "kOpen"
          /\ \/ Head(pending_frames).len = 0 /\ ConsumeFrame(0)
             \/ /\ Head(pending_frames).len # 0
                /\ \E n \in 1..Len(readable) : ConsumeFrame(n)
          /\ UNCHANGED draining
    /\ UNCHANGED netVars

-----------------------------------------------------------------------------
(***************************************************************************)
(* The other handlers of the UI thread.                                    *)
(***************************************************************************)

\* OnDataFrame's guards: signaling is text only, a TEXT frame must not arrive
\* inside a message nor a CONTINUATION outside of one.
InSequence(f) ==
    \/ f.type = "TEXT" /\ ~receiving_message
    \/ f.type = "CONTINUATION" /\ receiving_message

\* OnDataFrame for the next frame; it ends with the drain.
OnDataFrame ==
    /\ ~draining
    /\ ws_state \in {"kOpen", "kClosing"}
    /\ announced < Len(wire)
    /\ announced' = announced + 1
    /\ LET f == wire[announced + 1]
       IN  \/ /\ ws_state = "kClosing"
              /\ UNCHANGED <<ws_state, readable, pending_frames, inbound_message,
                             receiving_message, draining, error>>
           \/ /\ ws_state = "kOpen" /\ ~InSequence(f)
              /\ FailWithError("sequence")
              /\ UNCHANGED draining
           \/ /\ ws_state = "kOpen" /\ InSequence(f)
              /\ receiving_message' = ~f.fin
              /\ pending_frames' = Append(pending_frames, [len |-> f.len, fin |-> f.fin])
              /\ draining' = TRUE
              /\ UNCHANGED <<ws_state, readable, inbound_message, error>>
    /\ UNCHANGED <<wire, written, delivered>>

\* The consumer's Disconnect(), or OnClosingHandshake of the broker.
StartClosing ==
    /\ ~draining /\ ws_state = "kOpen"
    /\ ws_state' = "kClosing"
    /\ UNCHANGED <<netVars, readable, pending_frames, inbound_message,
                   receiving_message, draining, delivered, error>>

\* The consumer's Send() finds the writable pipe full or broken.
WriteFails ==
    /\ ~draining /\ ws_state = "kOpen"
    /\ FailWithError("write")
    /\ UNCHANGED <<netVars, draining, delivered>>

WsOnDropChannel ==
    /\ ~draining /\ ws_state # "kClosed"
    /\ Release
    /\ UNCHANGED <<netVars, draining, delivered, error>>

\* The end of the channel.
ChannelOver == ws_state = "kClosed" /\ ~draining /\ UNCHANGED wsVars

Network ==
    \/ \E type \in FrameTypes, len \in 0..MaxLen, fin \in BOOLEAN : BrokerSends(type, len, fin)
    \/ \E n \in 1..(After(Len(wire)).at - written) : PipeWrite(n)

WsNext ==
    \/ Network \/ OnDataFrame \/ ConsumePendingFrames
    \/ StartClosing \/ WriteFails \/ WsOnDropChannel \/ ChannelOver

WsSpec == WsInit /\ [][WsNext]_wsVars

\* The network service delivers what it has received and the UI thread goes on;
\* nothing makes the broker send or the channel close.
WsFairSpec ==
    /\ WsSpec
    /\ WF_wsVars(\E n \in 1..(After(Len(wire)).at - written) : PipeWrite(n))
    /\ WF_wsVars(OnDataFrame) /\ WF_wsVars(ConsumePendingFrames)

-----------------------------------------------------------------------------

\* Reassembly: however announcements and bytes interleave, OnEnvelope gets the
\* messages in order, none lost or doubled, and what is being assembled is a
\* beginning of the next one (ConsumePendingFrames, FinishFrame).
Reassembled ==
    /\ \A i \in 1..Len(delivered) : delivered[i] = i
    /\ inbound_message # <<>> =>
         \E i \in 1..Len(wire) :
            LET last == wire[i].from + Len(inbound_message)
            IN  /\ wire[i].msg = Len(delivered) + 1
                /\ last <= End(wire[i])
                /\ inbound_message = Run(wire[i].from, last)

\* A well-formed stream never costs the channel: on the receive path
\* FailWithError is called only for a message that the codec itself refuses
\* (OnDataFrame's guards, FinishFrame).
FailsOnlyOnRejection ==
    WellFormed /\ error \notin {"none", "write"} =>
        error = "decode" /\ Refuses(Len(delivered) + 1)

-----------------------------------------------------------------------------
(***************************************************************************)
(* What the source says and the model refutes (no run; see the README).    *)
(***************************************************************************)

\* cb_signaling_ws_client.cc, on a frame whose bytes are missing: "the watcher
\* re-fires OnReadable when more arrive".  So a message that has been announced
\* and written is dispatched, unless the channel ends.
ArrivedIsDispatched ==
    \A i \in 1..MaxFrames :
        (announced >= i /\ wire[i].fin /\ written >= End(wire[i]))
            ~> (ws_state # "kOpen" \/ (announced >= i /\ Len(delivered) >= wire[i].msg))

=============================================================================
