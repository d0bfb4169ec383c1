-------------------------------- MODULE Page --------------------------------
(***************************************************************************)
(* A page's questions and the two channels that answer them: CbControl-    *)
(* Channel (requests, deadlines, responses) with its clients - the dialog  *)
(* manager, the permission manager, the login delegate, the file chooser   *)
(* of CbWebContentsDelegate - composed with the upload receiver of module  *)
(* Uploads, over the data channels of CbDataChannelHost, across the        *)
(* sessions the worker re-arms.                                            *)
(*                                                                         *)
(* Abstraction: time is left out, so a deadline may fire whenever it is    *)
(* armed; a question makes at most one request, so it is also the request  *)
(* id; malformed and oversized frames, which are dropped, are not sent.    *)
(***************************************************************************)
EXTENDS Uploads

CONSTANTS
  MaxSessions  \* bound: sessions armed

Kinds == {"dialog", "login", "chooser"}

VARIABLES
  phase,    \* the session: "up", "draining" (being torn down) or "none"
  session,  \* how many sessions were armed
  chan,     \* the state of the "control" data channel
  kind,     \* per question, its kind once it was put
  pending,  \* pending_: questions with a request in flight
  sends,    \* requests posted to the signaling thread
  failed,   \* failed sends posted back
  shown,    \* requests that reached the viewer
  inbound,  \* responses posted to the UI sequence
  posted,   \* login cancels posted to the UI sequence
  said      \* answers this session's viewer has given (history)

controlVars == <<phase, session, chan, kind, pending, sends, failed, shown,
                 inbound, posted, said>>
vars == <<receiverVars, page, controlVars>>

Outcomes == {"default", "yes", "no", "file", "withdrawn"}

TypeOK ==
  /\ UploadsTypeOK
  /\ page \in [Asks -> {"idle", "blocked"} \union Outcomes]
  /\ phase \in {"up", "draining", "none"} /\ session \in 0..MaxSessions
  /\ chan \in {"none", "connecting", "open", "closed"}
  /\ kind \in [Asks -> Kinds \union {None}]
  /\ \A s \in {pending, sends, failed, shown, posted} : s \subseteq Asks
  /\ inbound \subseteq Asks \X {"yes", "no"}
  /\ said \subseteq Asks \X {"yes", "no"}

Init ==
  /\ UploadsInit
  /\ page = [a \in Asks |-> "idle"]
  /\ phase = "none" /\ session = 0
  /\ chan = "none"
  /\ kind = [a \in Asks |-> None]
  /\ pending = {} /\ sends = {} /\ failed = {} /\ shown = {}
  /\ inbound = {} /\ posted = {} /\ said = {}

-----------------------------------------------------------------------------
(* CbDataChannelHost.                                                      *)

IsOpen == chan = "open"

(* libwebrtc: a channel that was created opens, and closes. *)
ChannelOpens ==
  /\ chan = "connecting" /\ chan' = "open"
  /\ UNCHANGED <<receiverVars, page, phase, session, kind, pending, sends,
                 failed, shown, inbound, posted, said>>
ChannelCloses ==
  /\ chan = "open" /\ chan' = "closed"
  /\ UNCHANGED <<receiverVars, page, phase, session, kind, pending, sends,
                 failed, shown, inbound, posted, said>>

(* The signaling thread runs a posted send: onto the wire, or back with an *)
(* error when the channel closed meanwhile.                                *)
Send(a) ==
  /\ a \in sends /\ sends' = sends \ {a}
  /\ IF IsOpen
     THEN shown' = shown \union {a} /\ UNCHANGED failed
     ELSE failed' = failed \union {a} /\ UNCHANGED shown
  /\ UNCHANGED <<receiverVars, page, phase, session, chan, kind, pending,
                 inbound, posted, said>>

-----------------------------------------------------------------------------
(* CbControlChannel.                                                       *)

(* The callback a request carries.  A chooser's does nothing on a yes (the *)
(* upload is coming) and otherwise cancels the chooser that is parked now. *)
RunCallbacks(S, v) ==
  LET cancels == v # "yes" /\ \E a \in S : kind[a] = "chooser"
  IN /\ page' = [a \in Asks |->
          IF a \in S /\ kind[a] # "chooser" THEN Give(page[a], v)
          ELSE IF a = parked /\ cancels THEN Give(page[a], "default")
          ELSE page[a]]
     /\ IF cancels THEN parked' = None /\ deadline' = FALSE
        ELSE UNCHANGED <<parked, deadline>>

(* Unknown ids are dropped: the losing side of response, deadline, failed  *)
(* send and cancellation.                                                  *)
ResolvePending(a, v) ==
  IF a \in pending
  THEN pending' = pending \ {a} /\ RunCallbacks({a}, v)
  ELSE UNCHANGED <<pending, parked, deadline, page>>

RequestDeadline(a) ==
  /\ a \in pending
  /\ ResolvePending(a, "default")
  /\ UNCHANGED <<uploadVars, phase, session, chan, kind, sends, failed, shown,
                 inbound, posted, said>>

SendFailed(a) ==
  /\ a \in failed /\ failed' = failed \ {a}
  /\ ResolvePending(a, "default")
  /\ UNCHANGED <<uploadVars, phase, session, chan, kind, sends, shown, inbound,
                 posted, said>>

(* The viewer answers what it was shown, perhaps twice. *)
OnMessage(a, v) ==
  /\ a \in shown /\ IsOpen
  /\ \A w \in {"yes", "no"} \ {v} : <<a, w>> \notin said
  /\ inbound' = inbound \union {<<a, v>>}
  /\ said' = said \union {<<a, v>>}
  /\ UNCHANGED <<receiverVars, page, phase, session, chan, kind, pending,
                 sends, failed, shown, posted>>

Response(a, v) ==
  /\ <<a, v>> \in inbound /\ inbound' = inbound \ {<<a, v>>}
  /\ ResolvePending(a, v)
  /\ UNCHANGED <<uploadVars, phase, session, chan, kind, sends, failed, shown,
                 posted, said>>

CancelAllPending == pending' = {} /\ RunCallbacks(pending, "default")

(* CancelDialogs of any tab that navigates or goes: every tab's requests. *)
CancelDialogs ==
  /\ phase = "up" /\ pending # {}
  /\ CancelAllPending
  /\ UNCHANGED <<uploadVars, phase, session, chan, kind, sends, failed, shown,
                 inbound, posted, said>>

-----------------------------------------------------------------------------
(* The questions.  While the session drains, only a callback that re-      *)
(* enters can put one, and the channel is unpublished by then.             *)

Published == phase = "up"

SendRequest(a) ==
  IF IsOpen
  THEN /\ pending' = pending \union {a} /\ sends' = sends \union {a}
       /\ page' = [page EXCEPT ![a] = "blocked"]
  ELSE page' = [page EXCEPT ![a] = "default"] /\ UNCHANGED <<pending, sends>>

(* AskOrDefault, RunBeforeUnloadDialog, AskViewer: the default at once     *)
(* when no channel is published.                                           *)
AskOrDefault(a) ==
  IF Published THEN SendRequest(a)
  ELSE page' = [page EXCEPT ![a] = "default"] /\ UNCHANGED <<pending, sends>>

RunDialog(a) ==
  /\ page[a] = "idle" /\ kind' = [kind EXCEPT ![a] = "dialog"]
  /\ AskOrDefault(a)
  /\ UNCHANGED <<receiverVars, phase, session, chan, failed, shown, inbound,
                 posted, said>>

RunJavaScriptDialog(a) == RunDialog(a)
RunBeforeUnloadDialog(a) == RunDialog(a)
AskViewer(a) == RunDialog(a)

(* A login may not be answered while it is being put: with no channel      *)
(* published its cancellation is posted, and its page is blocked until     *)
(* then.  A published channel that is closed does answer at once, inside   *)
(* the delegate's constructor (SendRequest).                               *)
LoginRequired(a) ==
  /\ page[a] = "idle" /\ kind' = [kind EXCEPT ![a] = "login"]
  /\ IF Published THEN SendRequest(a) /\ UNCHANGED posted
     ELSE /\ page' = [page EXCEPT ![a] = "blocked"]
          /\ posted' = posted \union {a}
          /\ UNCHANGED <<pending, sends>>
  /\ UNCHANGED <<receiverVars, phase, session, chan, failed, shown, inbound,
                 said>>

LoginPosted(a) ==
  /\ a \in posted /\ phase # "draining"
  /\ posted' = posted \ {a}
  /\ page' = [page EXCEPT ![a] = Give(@, "default")]
  /\ UNCHANGED <<receiverVars, phase, session, chan, kind, pending, sends,
                 failed, shown, inbound, said>>

(* The request behind a login goes: the delegate is destroyed with it, and *)
(* what is still in flight for it finds a dead WeakPtr.                    *)
LoginDestroyed(a) ==
  /\ kind[a] = "login" /\ page[a] = "blocked"
  /\ page' = [page EXCEPT ![a] = "withdrawn"]
  /\ UNCHANGED <<receiverVars, controlVars>>

(* A page opens a file chooser: it is parked with the receiver, and the    *)
(* viewer is asked on the control channel.                                 *)
RunFileChooser(a, supported) ==
  /\ page[a] = "idle" /\ kind' = [kind EXCEPT ![a] = "chooser"]
  /\ IF phase = "none" \/ ~supported
     THEN /\ page' = [page EXCEPT ![a] = "default"]
          /\ UNCHANGED <<parked, deadline, pending, sends>>
     ELSE IF Published /\ IsOpen
     THEN /\ BeginChooser(a)
          /\ pending' = pending \union {a} /\ sends' = sends \union {a}
     ELSE /\ parked' = None /\ deadline' = FALSE
          /\ page' = [b \in Asks |-> IF b \in {a, parked} THEN "default"
                                     ELSE page[b]]
          /\ UNCHANGED <<pending, sends>>
  /\ UNCHANGED <<uploadVars, phase, session, chan, failed, shown, inbound,
                 posted, said>>

-----------------------------------------------------------------------------
(* The session: RebuildNativeDataChannels, RearmSession.                   *)

(* A channel that could not be created stays closed for the session. *)
RebuildNativeDataChannels ==
  /\ phase = "none" /\ session < MaxSessions
  /\ phase' = "up" /\ session' = session + 1
  /\ chan' \in {"none", "connecting"}
  /\ UNCHANGED <<receiverVars, page, kind, pending, sends, failed, shown,
                 inbound, posted, said>>

RearmDrainsNothing ==
  /\ phase = "up" /\ phase' = "draining"
  /\ UNCHANGED <<receiverVars, page, session, chan, kind, pending, sends,
                 failed, shown, inbound, posted, said>>

(* Unpublish the channel, then resolve what is in flight: a callback may   *)
(* put the next question, which must not find the channel any more.        *)
RearmDrains ==
  /\ phase = "up" /\ phase' = "draining"
  /\ CancelAllPending
  /\ UNCHANGED <<uploadVars, session, chan, kind, sends, failed, shown,
                 inbound, posted, said>>

(* Destroy the channel (its destructor resolves nothing), the receiver and *)
(* the host, whose Shutdown waits for the sends posted before it.          *)
RearmDestroys ==
  /\ phase = "draining" /\ phase' = "none"
  /\ pending' = {} /\ sends' = {} /\ failed' = {} /\ shown' = {}
  /\ inbound' = {} /\ said' = {}
  /\ CancelChooser /\ ResetForNewSession
  /\ chan' = "none"
  /\ UNCHANGED <<session, kind, posted>>

-----------------------------------------------------------------------------
Ask ==
  \E a \in Asks :
    \/ RunJavaScriptDialog(a)
    \/ RunBeforeUnloadDialog(a)
    \/ AskViewer(a)
    \/ LoginRequired(a)
    \/ \E supported \in BOOLEAN : RunFileChooser(a, supported)

(* The viewer's frames on the files channel; while that channel is not open *)
(* there are none.                                                          *)
ViewerUploads ==
  /\ phase = "up"
  /\ \E u \in Ids :
       \/ \E n \in Sizes, declares \in IF Faults THEN BOOLEAN ELSE {TRUE} :
            HandleStart(u, n, declares)
       \/ \E seq \in 0..MaxUploadBytes, ok \in BOOLEAN :
            /\ Faults \/ (ok /\ u \in Open \ ended /\ seq = uploads[u].nextSeq)
            /\ HandleChunk(u, seq, ok)
       \/ (Faults \/ u \notin ended) /\ HandleEnd(u)
       \/ HandleCancel(u)
  /\ UNCHANGED controlVars

RunPool ==
  /\ \E t \in pool : PoolTask(t, phase # "none")
  /\ UNCHANGED controlVars

PoolReplies ==
  /\ phase = "up"
  /\ \E r \in replies : \/ OnChunkWritten(r)
                         \/ \E same \in IF Faults THEN BOOLEAN ELSE {TRUE} :
                              OnFinalised(r, same)
  /\ UNCHANGED controlVars

ReceiverDeadline == phase = "up" /\ ChooserDeadline /\ UNCHANGED controlVars

Next ==
  \/ Ask
  \/ \E a \in Asks :
       \/ Send(a)
       \/ phase = "up" /\ (RequestDeadline(a) \/ SendFailed(a))
       \/ \E v \in {"yes", "no"} : \/ OnMessage(a, v)
                                   \/ phase = "up" /\ Response(a, v)
       \/ LoginPosted(a)
       \/ LoginDestroyed(a)
  \/ CancelDialogs
  \/ ChannelOpens \/ ChannelCloses
  \/ ViewerUploads \/ RunPool \/ PoolReplies \/ ReceiverDeadline
  \/ RebuildNativeDataChannels \/ RearmDrains \/ RearmDestroys

(* Timers fire, posted tasks run, the pool makes progress, and RearmSession *)
(* runs to its end; no page, viewer or network is assumed to do anything.   *)
Fairness ==
  /\ \A a \in Asks : WF_vars(RequestDeadline(a) /\ phase = "up")
  /\ \A a \in Asks : WF_vars(LoginPosted(a))
  /\ WF_vars(ReceiverDeadline)
  /\ WF_vars(RunPool)
  /\ WF_vars(PoolReplies)
  /\ WF_vars(RearmDestroys)

Spec == Init /\ [][Next]_vars /\ Fairness

-----------------------------------------------------------------------------
(* Who still holds the callback of a blocked page and will run it. *)
Held(a) ==
  \/ a \in pending /\ kind[a] # "chooser"
  \/ a = parked
  \/ a \in posted

(* This session's viewer has sent a file, or part of one. *)
Offered ==
  \E u \in Ids : u \in Open \union ended \/ (u \notin fresh /\ told[u] # "nothing")

(* The refinement mapping: a blocked page is an open question only while   *)
(* somebody holds it; an offered file is an answer to any question.        *)
QuestionState ==
  [a \in Asks |-> IF page[a] # "blocked" THEN page[a]
                  ELSE IF Held(a) THEN "open" ELSE "lost"]
Heard == said \union (IF Offered THEN Asks \X {"file"} ELSE {})

Promise == INSTANCE Asks WITH state <- QuestionState, said <- Heard

(* Every dialog, permission prompt, login and file chooser is answered     *)
(* exactly once, with the default or with what this session's viewer said, *)
(* and is answered in the end, whatever races: response against deadline,  *)
(* failed send, another tab's CancelDialogs, the viewer leaving, an upload *)
(* finishing (cb_control_channel.cc, cb_file_upload_receiver.cc).          *)
KeepsPromise == Promise!Spec

(* A file whose hash the viewer declared and that was reported complete,   *)
(* and given to the page, is that file and stays it, whatever order the    *)
(* unsequenced writes, reads and deletes ran in and whatever frames came   *)
(* after the end; unless the wipe of an earlier session came late.  Of a   *)
(* file declared without a hash only the size is checked.                  *)
CompleteIsIntact ==
  \A u \in complete \intersect hashed :
    overtaken \/ \E n \in Sizes : disk[u] = File(n)

(* The viewer that ended an upload hears whether it was taken, unless the  *)
(* session is over first: the end may arrive before the last write has     *)
(* run, and then the write's reply must finish it.                         *)
UploadAnswered ==
  \A u \in Ids : (u \in ended) ~> (u \notin ended \/ told[u] \in {"complete", "error"})

-----------------------------------------------------------------------------
(***************************************************************************)
(* What the source says and the model refutes (no run; see the README).    *)
(***************************************************************************)

(* cb_file_upload_receiver.cc says the unsequenced writes are safe because *)
(* two chunks of one upload cannot be in flight at once.                   *)
OneWriteInFlight == \A u \in Open : uploads[u].writes <= 1
=============================================================================
