------------------------------- MODULE Cursor -------------------------------
(***************************************************************************)
(* The way of a cursor change to the viewer: CbCursorClient (aura asks for *)
(* a cursor), CbCursorXyJoin (adds the last pointer snapshot), EmitPolicy  *)
(* (drops duplicates, numbers envelopes), CbCursorDcEmitter (parks, sends, *)
(* records) and EnvelopeAssembler, over the "cursor" data channel.  Sends  *)
(* are asynchronous: the policy learns of one only when its completion has *)
(* come back to the UI thread.                                             *)
(*                                                                         *)
(* Abstraction: five cursor types stand for the enumeration; positions are *)
(* one coordinate in half pixels, so that rounding and truncation stay     *)
(* apart; the button bits, which only the duplicate test reads, are one    *)
(* bit; timestamps and custom images (never extracted in production) are   *)
(* left out.  The debounce gap is zero in production and its branch is not *)
(* modelled.                                                               *)
(***************************************************************************)
EXTENDS Integers, Sequences

CONSTANTS
  Types,       \* cursor types the renderer asks for
  Points,      \* pointer positions, in half pixels
  MaxEdges,    \* bound: cursor edges
  MaxSessions, \* bound: sessions armed
  NoCursor

VARIABLES
  cursor,    \* current_cursor_ and visible_ of the cursor client
  pointer,   \* the mouse dispatcher's last pointer snapshot: place, buttons
  chan,      \* the data channel: "connecting", "open" or "closed"
  dcOpen,    \* cursor_dc_open_
  everOpen,  \* cursor_dc_ever_opened_
  parked,    \* pending_while_closed_
  last,      \* last_ of the policy, also its one replay slot
  nextSeq,   \* next_seq_
  sends,     \* sends posted to the signaling thread
  ui,        \* tasks posted to the UI thread
  viewer,    \* the envelope the viewer received last
  edge,      \* the last joined edge of this session (history)
  hidden,    \* it was dropped as a duplicate of a state about to be replaced
  edges, session

emitterVars == <<dcOpen, everOpen, parked, last, nextSeq, sends>>
cursorVars == <<cursor, pointer, chan, emitterVars, ui, viewer, edge, hidden,
                edges, session>>

Pointers == [at : Points, buttons : BOOLEAN]
Joined == [type : Types, visible : BOOLEAN, at : Points, buttons : BOOLEAN]
Recorded == [type : Types, visible : BOOLEAN, at : Int, buttons : BOOLEAN, seq : Int]
Shapes == {"default", "pointer", "none", "custom"}
Envelopes ==
  [view : [visible : BOOLEAN, shape : Shapes], x : Int, seq : Nat]

ASSUME CursorBoundsAssumption == MaxEdges \in Nat /\ MaxSessions \in Nat \ {0}
ASSUME PointsAssumption == Points \subseteq Nat
ASSUME TypesAssumption == Types \subseteq {"kPointer", "kNull", "kHand", "kNone", "kCustom"}
ASSUME NoCursorAssumption == NoCursor \notin Joined \union Recorded \union Envelopes

(* EmitPolicy::RoundPosition, lround of a half-pixel coordinate. *)
RoundPosition(p) == (p + 1) \div 2

CursorTypeOK ==
  /\ cursor \in [type : Types, visible : BOOLEAN] /\ pointer \in Pointers
  /\ chan \in {"connecting", "open", "closed"}
  /\ dcOpen \in BOOLEAN /\ everOpen \in BOOLEAN /\ hidden \in BOOLEAN
  /\ parked \in Joined \union {NoCursor} /\ edge \in Joined \union {NoCursor}
  /\ last \in Recorded \union {NoCursor} /\ (last # NoCursor => last.seq < nextSeq)
  /\ nextSeq \in Nat /\ edges \in 0..MaxEdges /\ session \in 1..MaxSessions
  /\ sends \in Seq([joined : Joined, seq : Nat, record : BOOLEAN])
  /\ ui \in Seq([task : {"state"}, open : BOOLEAN]
                  \union [task : {"sent"}, joined : Joined, record : BOOLEAN, ok : BOOLEAN])
  /\ viewer \in Envelopes \union {NoCursor} /\ (viewer # NoCursor => viewer.seq < nextSeq)

CursorInit ==
  /\ cursor \in [type : Types, visible : {TRUE}] /\ pointer \in Pointers
  /\ chan = "connecting"
  /\ dcOpen = FALSE /\ everOpen = FALSE /\ parked = NoCursor
  /\ last = NoCursor /\ nextSeq = 0
  /\ sends = <<>> /\ ui = <<>>
  /\ viewer = NoCursor /\ edge = NoCursor /\ hidden = FALSE
  /\ edges = 0 /\ session = 1

-----------------------------------------------------------------------------
(* EnvelopeAssembler.  The names are swapped between chromium and CSS.     *)

CssKeywordForType ==
  [kPointer |-> "default", kNull |-> "default", kHand |-> "pointer",
   kNone |-> "none", kCustom |-> "custom"]

(* A hidden cursor has the shape "none" whatever its type. *)
Assemble(j) ==
  [visible |-> j.visible,
   shape |-> IF j.visible THEN CssKeywordForType[j.type] ELSE "none"]

(* The policy's number, and the position cut (not rounded) to a pixel. *)
EncodeWithSeq(j, seq) == [view |-> Assemble(j), x |-> j.at \div 2, seq |-> seq]

-----------------------------------------------------------------------------
(* EmitPolicy.                                                             *)

IsDuplicate(j) ==
  /\ last # NoCursor
  /\ last.type = j.type /\ last.visible = j.visible
  /\ last.buttons = j.buttons
  /\ last.at = RoundPosition(j.at)

(* The number of the next envelope; next_seq_ moves on with every one. *)
AllocSeqOfLast == IF last = NoCursor THEN 0 ELSE last.seq + 1
AllocSeq == nextSeq

(* The snapshot takes the last number given out, whoever it was given to. *)
OnEmitted(j) ==
  last' = [type |-> j.type, visible |-> j.visible, at |-> RoundPosition(j.at),
           buttons |-> j.buttons, seq |-> nextSeq - 1]

-----------------------------------------------------------------------------
(* CbCursorDcEmitter.                                                      *)

InFlight == sends # <<>> \/ \E i \in DOMAIN ui : ui[i].task = "sent"

(* What OnJoined sends for a state while the channel is open. *)
Emits(j) ==
  IF IsDuplicate(j) THEN <<>>
  ELSE <<[joined |-> j, seq |-> AllocSeq, record |-> TRUE]>>

(* A duplicate is dropped first; then a closed channel parks the state,    *)
(* over the one parked before.                                             *)
OnJoined(j) ==
  /\ parked' = IF ~IsDuplicate(j) /\ ~dcOpen THEN j ELSE parked
  /\ LET out == IF dcOpen THEN Emits(j) ELSE <<>>
     IN sends' = sends \o out /\ nextSeq' = nextSeq + Len(out)

(* The recorded state again, under its number and not recorded anew. *)
ReplayOnOpen ==
  IF last = NoCursor THEN <<>>
  ELSE <<[joined |-> [type |-> last.type, visible |-> last.visible,
                      at |-> 2 * last.at, buttons |-> last.buttons],
          seq |-> last.seq, record |-> FALSE]>>

(* kOpen drains what was parked, then replays if it was open before (which *)
(* no libwebrtc channel is: a closed one stays closed).                    *)
OnChannelOpenKeepsParked ==
  /\ dcOpen' = TRUE /\ everOpen' = TRUE
  /\ UNCHANGED <<parked, sends, nextSeq>>
OnChannelOpen ==
  LET drained == IF parked = NoCursor THEN <<>> ELSE Emits(parked)
      replayed == IF everOpen /\ ~dcOpen THEN ReplayOnOpen ELSE <<>>
  IN /\ dcOpen' = TRUE /\ everOpen' = TRUE /\ parked' = NoCursor
     /\ sends' = sends \o drained \o replayed
     /\ nextSeq' = nextSeq + Len(drained)

OnChannelStateChanged_Ui ==
  /\ ui # <<>> /\ Head(ui).task = "state" /\ ui' = Tail(ui)
  /\ \/ Head(ui).open /\ OnChannelOpen
     \/ ~Head(ui).open /\ dcOpen' = FALSE
        /\ UNCHANGED <<everOpen, parked, sends, nextSeq>>
  /\ UNCHANGED <<cursor, pointer, chan, last, viewer, edge, hidden, edges,
                 session>>

OnSendComplete ==
  /\ ui # <<>> /\ Head(ui).task = "sent" /\ ui' = Tail(ui)
  /\ IF Head(ui).ok /\ Head(ui).record
     THEN OnEmitted(Head(ui).joined) ELSE UNCHANGED last
  /\ UNCHANGED <<cursor, pointer, chan, dcOpen, everOpen, parked, nextSeq,
                 sends, viewer, edge, hidden, edges, session>>

(* RearmSession and RebuildNativeDataChannels: Stop cuts the callbacks and *)
(* drops the posted tasks; join, policy and emitter are made anew, and a   *)
(* viewer connects that has seen nothing.                                  *)
Rebuild ==
  /\ session < MaxSessions /\ session' = session + 1
  /\ chan' = "connecting"
  /\ dcOpen' = FALSE /\ everOpen' = FALSE /\ parked' = NoCursor
  /\ last' = NoCursor /\ nextSeq' = 0
  /\ sends' = <<>> /\ ui' = <<>>
  /\ viewer' = NoCursor /\ edge' = NoCursor /\ hidden' = FALSE
  /\ UNCHANGED <<cursor, pointer, edges>>

-----------------------------------------------------------------------------
(* The data channel, on the signaling thread.                              *)

(* Bound observers post what IsOpen says; BindAndStart may find it open    *)
(* and post a second time.                                                 *)
ChannelOpens ==
  /\ chan = "connecting" /\ chan' = "open"
  /\ \E n \in 1..2 : ui' = ui \o [i \in 1..n |-> [task |-> "state", open |-> TRUE]]
  /\ UNCHANGED <<cursor, pointer, emitterVars, viewer, edge, hidden, edges,
                 session>>

ChannelCloses ==
  /\ chan = "open" /\ chan' = "closed"
  /\ ui' = Append(ui, [task |-> "state", open |-> FALSE])
  /\ UNCHANGED <<cursor, pointer, emitterVars, viewer, edge, hidden, edges,
                 session>>

(* CbDataChannelHost::SendAsync: queued on an open channel, reliable and   *)
(* ordered, or refused; the result is posted back either way.              *)
SendAsync ==
  /\ sends # <<>> /\ sends' = Tail(sends)
  /\ LET m == Head(sends)
     IN /\ ui' = Append(ui, [task |-> "sent", joined |-> m.joined,
                             record |-> m.record, ok |-> chan = "open"])
        /\ viewer' = IF chan = "open" THEN EncodeWithSeq(m.joined, m.seq)
                     ELSE viewer
  /\ UNCHANGED <<cursor, pointer, chan, dcOpen, everOpen, parked, last,
                 nextSeq, edge, hidden, edges, session>>

-----------------------------------------------------------------------------
(* CbCursorClient and CbCursorXyJoin.                                      *)

(* The join adds the pointer's last snapshot and hands the state on.       *)
OnCursorChange(c) ==
  LET j == [type |-> c.type, visible |-> c.visible, at |-> pointer.at,
             buttons |-> pointer.buttons]
  IN /\ OnJoined(j)
     /\ edge' = j
     /\ hidden' = (IsDuplicate(j) /\ InFlight)

Edge(c) ==
  /\ edges < MaxEdges /\ edges' = edges + 1
  /\ cursor' = c
  /\ OnCursorChange(c)
  /\ UNCHANGED <<pointer, chan, dcOpen, everOpen, last, ui, viewer, session>>

(* The renderer may ask for the cursor it has; a visibility call that      *)
(* changes nothing says nothing.                                           *)
HandleCursorSet(t) == Edge([cursor EXCEPT !.type = t])
ShowCursor == ~cursor.visible /\ Edge([cursor EXCEPT !.visible = TRUE])
HideCursor == cursor.visible /\ Edge([cursor EXCEPT !.visible = FALSE])

(* A mouse event was forwarded: only the snapshot moves. *)
UpdatePointer(p) ==
  /\ p # pointer /\ pointer' = p
  /\ UNCHANGED <<cursor, chan, emitterVars, ui, viewer, edge, hidden, edges,
                 session>>

CursorNext ==
  \/ ChannelOpens \/ ChannelCloses \/ SendAsync
  \/ OnChannelStateChanged_Ui \/ OnSendComplete \/ Rebuild
  \/ \E t \in Types : HandleCursorSet(t)
  \/ ShowCursor \/ HideCursor
  \/ \E p \in Pointers : UpdatePointer(p)

CursorSpec == CursorInit /\ [][CursorNext]_cursorVars

-----------------------------------------------------------------------------
Quiet == chan = "open" /\ ui = <<>> /\ sends = <<>>
Near(a, b) == a - b \in {-1, 0, 1}

(* Once everything posted has run, the viewer shows the cursor of the last *)
(* edge of its session, within a pixel of where the pointer was.  The one  *)
(* exception is an edge dropped as a duplicate of the recorded state while *)
(* a send that replaces it was still on its way: last_ lags the wire by    *)
(* the completion's trip (cb_cursor_dc_emitter.cc, OnJoined).              *)
CursorArrives ==
  Quiet /\ edge # NoCursor /\ ~hidden =>
    /\ viewer # NoCursor
    /\ viewer.view = Assemble(edge)
    /\ Near(viewer.x, edge.at \div 2)

(* Envelopes of a session reach the viewer under strictly increasing       *)
(* numbers although several are in flight while numbers are given out      *)
(* (cursor-channel.md: "strictly increasing within a channel").            *)
SeqIncreases ==
  [][viewer' # viewer /\ viewer # NoCursor /\ viewer' # NoCursor =>
       viewer'.seq > viewer.seq]_cursorVars

=============================================================================
