------------------------------ MODULE Clipboard ------------------------------
(***************************************************************************)
(* CbClipboardRelay: a viewer's paste is written to the guest clipboard    *)
(* and Ctrl+V is typed; a change of the guest clipboard goes to the viewer *)
(* only inside a window that a copy gesture of the viewer's opened.        *)
(*                                                                         *)
(* Abstraction: texts are model values; frames the relay refuses (binary,  *)
(* oversized, malformed, wrong direction or source) change nothing and are *)
(* not sent; time is left out, so an armed window may end at any moment.   *)
(* A read of the clipboard is asynchronous: it is asked for, finds a text  *)
(* at some later moment, and is answered after that, in the order of the   *)
(* reads; all of it may also happen at once.                               *)
(***************************************************************************)
EXTENDS Integers, Sequences

CONSTANTS
  Texts,      \* clipboard texts
  TooLong,    \* those over the size cap: never sent, in either direction
  MaxPastes,  \* bound: pastes of the viewer
  MaxCopies,  \* bound: writes of the page
  None        \* no text (an image, or an empty clipboard)

VARIABLES
  clip,      \* the guest clipboard: its text and the paste that wrote it
  armed,     \* copy_armed_until_ is set and not over
  written,   \* last_written_text_
  reads,     \* reads of the clipboard that have found no text yet
  captured,  \* what the reads not yet answered have found
  inbox,     \* pastes posted to the UI thread
  pasted,    \* pastes the viewer made so far
  copied,    \* writes of the page so far
  gestures,  \* copy gestures of the viewer (history)
  applied,   \* pastes written to the clipboard (history)
  sent       \* texts sent to the viewer, the paste each is from, and the
             \* pastes applied when it was sent (history)

clipVars == <<clip, armed, written, reads, captured, inbox, pasted, copied,
              gestures, applied, sent>>

ASSUME TooLongAssumption == TooLong \subseteq Texts
ASSUME ClipBoundsAssumption == MaxPastes \in Nat /\ MaxCopies \in Nat

(* A text and the paste it comes from: 0 is a text of the page's. *)
Clips == [text : Texts \union {None}, paste : Nat]

ClipTypeOK ==
  /\ clip \in Clips /\ captured \in Seq(Clips)
  /\ armed \in BOOLEAN /\ written \in Texts \union {None}
  /\ reads \in 0..(MaxPastes + MaxCopies)
  /\ inbox \in Seq(Texts \ TooLong)
  /\ pasted \in 0..MaxPastes /\ copied \in 0..MaxCopies /\ gestures \in Nat
  /\ applied \in 0..MaxPastes
  /\ sent \in Seq([text : Texts, paste : Nat, after : Nat])

ClipInit ==
  /\ clip = [text |-> None, paste |-> 0]
  /\ armed = FALSE /\ written = None /\ reads = 0 /\ captured = <<>>
  /\ inbox = <<>> /\ pasted = 0 /\ copied = 0 /\ gestures = 0 /\ applied = 0
  /\ sent = <<>>

(* The texts that the answer c of a read hands to SendCopy, where w was    *)
(* written last, for paste n: not a non-text copy, not that paste, not too *)
(* much.                                                                   *)
OnClipboardTextRead(c, w, n) ==
  IF c.text = None \/ c.text = w \/ c.text \in TooLong THEN <<>>
  ELSE <<[text |-> c.text, paste |-> c.paste, after |-> n]>>

(* The clipboard has become c.  Outside the window this is the page's      *)
(* business; inside, it uses the window up and the text is read, at once   *)
(* or later.                                                               *)
OnClipboardDataChangedStaysArmed(c, w, n) ==
  /\ IF armed THEN sent' = sent \o OnClipboardTextRead(c, w, n)
     ELSE UNCHANGED sent
  /\ UNCHANGED <<armed, reads>>
OnClipboardDataChanged(c, w, n) ==
  IF ~armed THEN UNCHANGED <<armed, reads, sent>>
  ELSE /\ armed' = FALSE
       /\ \/ /\ captured = <<>> /\ reads = 0
             /\ sent' = sent \o OnClipboardTextRead(c, w, n)
             /\ UNCHANGED reads
          \/ /\ reads' = reads + 1
             /\ UNCHANGED sent

(* ui::Clipboard looks at the clipboard for a read, ... *)
TextCaptured ==
  /\ reads > 0 /\ reads' = reads - 1
  /\ captured' = Append(captured, clip)
  /\ UNCHANGED <<clip, armed, written, inbox, pasted, copied, gestures, applied,
                 sent>>

(* ... and answers it later: what it found is compared with the paste that *)
(* is the last one by then.                                                *)
TextRead ==
  /\ captured # <<>> /\ captured' = Tail(captured)
  /\ sent' = sent \o OnClipboardTextRead(Head(captured), written, applied)
  /\ UNCHANGED <<clip, armed, written, reads, inbox, pasted, copied, gestures,
                 applied>>

(* The viewer pastes; an accepted offer is posted to the UI thread. *)
HandleInboundJson(t) ==
  /\ pasted < MaxPastes /\ pasted' = pasted + 1
  /\ inbox' = IF t \in TooLong THEN inbox ELSE Append(inbox, t)
  /\ UNCHANGED <<clip, armed, written, reads, captured, copied, gestures, applied,
                 sent>>

(* The text is remembered before it is written, so that the change the     *)
(* write raises is known for an echo; then Ctrl+V, wherever it goes.       *)
ApplyPasteLate ==
  /\ inbox # <<>> /\ inbox' = Tail(inbox)
  /\ applied' = applied + 1
  /\ clip' = [text |-> Head(inbox), paste |-> applied']
  /\ OnClipboardDataChanged(clip', written, applied')
  /\ written' = Head(inbox)
  /\ UNCHANGED <<captured, pasted, copied, gestures>>
ApplyPaste ==
  /\ inbox # <<>> /\ inbox' = Tail(inbox)
  /\ written' = Head(inbox) /\ applied' = applied + 1
  /\ clip' = [text |-> Head(inbox), paste |-> applied']
  /\ OnClipboardDataChanged(clip', written', applied')
  /\ UNCHANGED <<captured, pasted, copied, gestures>>

ArmCopyWindow ==
  /\ armed' = TRUE /\ gestures' = gestures + 1
  /\ UNCHANGED <<clip, written, reads, captured, inbox, pasted, copied, applied,
                 sent>>

(* kClipboardArmWindow is over. *)
WindowEnds ==
  /\ armed /\ armed' = FALSE
  /\ UNCHANGED <<clip, written, reads, captured, inbox, pasted, copied, gestures,
                 applied, sent>>

(* The page, asked to copy or on its own, writes the clipboard. *)
PageCopies(t) ==
  /\ copied < MaxCopies /\ copied' = copied + 1
  /\ clip' = [text |-> t, paste |-> 0]
  /\ OnClipboardDataChanged(clip', written, applied)
  /\ UNCHANGED <<written, captured, inbox, pasted, gestures, applied>>

-----------------------------------------------------------------------------
(* What the viewer pasted comes back to it as a copy of the page's only if *)
(* a later paste overtook the read that found it: the last paste is never  *)
(* echoed, however pastes, gestures, page writes and reads interleave      *)
(* (cb_clipboard_relay.h: the receiver does not echo).  One remembered     *)
(* text cannot know the paste before it for an echo.                       *)
NoEcho ==
  \A i \in DOMAIN sent : sent[i].paste # 0 => sent[i].paste < sent[i].after

(* A copy gesture is good for one text: the viewer never gets more texts   *)
(* than it asked for, also when the page keeps writing the clipboard and   *)
(* reads complete late.                                                    *)
OnePerGesture ==
  Len(sent) + Len(captured) + reads + (IF armed THEN 1 ELSE 0) <= gestures

=============================================================================
