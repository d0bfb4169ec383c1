------------------------------- MODULE Worker -------------------------------
(***************************************************************************)
(* The native worker's session: CbOffererDriver (capture/signaling/        *)
(* cb_offerer_driver.cc), CbAudioLifecycle (capture/audio/                 *)
(* cb_audio_lifecycle.cc) and the session half of                          *)
(* CloudBrowserBrowserMainParts (capture/build-integration/                *)
(* cloud_browser_browser_main_parts.cc), which closes a viewer's session,  *)
(* re-arms the driver on a fresh PeerConnection and otherwise recycles the *)
(* process.                                                                *)
(*                                                                         *)
(* Two threads.  The UI thread runs the FIFO `tasks`: envelopes from the   *)
(* websocket, hops from libwebrtc, tasks the worker posts to itself.       *)
(* libwebrtc's signaling thread runs the FIFO `sig`: the calls the driver  *)
(* marshals, and what the PeerConnection observes.  The channel is         *)
(* Reconnect seen from its observer: it opens, drops and gives up.         *)
(*                                                                         *)
(* A PeerConnection is its number, which is also the epoch of the driver's *)
(* weak pointers: Rearm() invalidates them when it drops the connection.   *)
(***************************************************************************)
EXTENDS Naturals, Sequences, FiniteSets

CONSTANTS
    MaxEvents,      \* bound: inputs from the network
    MaxTasks,       \* bound: an input arrives while fewer tasks are queued
    VideoMayFail    \* may CreateVideoTrack / AddTransceiver(video) fail?

ASSUME BoundsAssumption == MaxEvents \in Nat /\ MaxTasks \in Nat
ASSUME VideoAssumption == VideoMayFail \in BOOLEAN

VARIABLES
    \* CbOffererDriver
    state, pc, ws_connected, pending_local_offer, pending_early_answer,
    initial_renegotiation_consumed, pending_renegotiation,
    teardown_emitted, current_offer_answered,
    \* its trickled ICE: the candidates held back, each as the connection it
    \* arrived under, and the latch of the first answer that was applied
    pending_remote_ice, was_in_ice_flight_once,
    \* CbAudioLifecycle
    audio,
    \* main_parts; life stands for the quit closure, tearing_down_ and
    \* permanent_death_signaled_
    rearming, signaling_connected_once, last_ice_state, grace, life,
    \* the channel (does Send succeed?) and the two threads
    open, tasks, sig,
    \* history: offers sent, the connection of the last one, the offer whose
    \* answer was handed to SetRemoteDescription last, inputs so far
    offers, offerPc, answered, events

iceVars == <<pending_remote_ice, was_in_ice_flight_once>>
driverVars == <<iceVars, state, pc, ws_connected, pending_local_offer, pending_early_answer,
                initial_renegotiation_consumed, pending_renegotiation,
                teardown_emitted, current_offer_answered>>
mainVars == <<rearming, signaling_connected_once, last_ice_state, grace, life>>
historyVars == <<offers, offerPc, answered>>
vars == <<driverVars, audio, mainVars, open, tasks, sig, historyVars, events>>

States == {"kIdle", "kCreatingPc", "kCreatingOffer", "kSettingLocal",
           "kAwaitingAnswer", "kSettingRemote", "kIceInFlight", "kClosed", "kFailed"}
Terminal == {"kClosed", "kFailed"}

Envelopes == {"answer", "bye", "request_renegotiate", "offer", "ice"}
Completions == {"offerCreated", "createFailed", "localSet", "localFailed",
                "remoteSet", "remoteFailed"}
IceStates == {"connected", "disconnected", "failed", "closed"}
Observed == {"negotiationNeeded", "candidate"} \cup IceStates
Posted == {"rearmBye", "rearmQuiet", "clear"}
Calls == {"createOffer", "setLocal", "setRemote", "addIce"}

Task(what, e, k) == [what |-> what, e |-> e, k |-> k]

\* The entries of a queue whose kind is in whats, in their order: the n-th is at
\* the place with n such places up to it.  (SelectSeq, by places and not by
\* recursion.)
Places(q, whats) == {i \in 1..Len(q) : q[i].what \in whats}
Nth(S, n) == CHOOSE i \in S : Cardinality({j \in S : j <= i}) = n
Keep(q, whats) ==
    LET S == Places(q, whats) IN [n \in 1..Cardinality(S) |-> q[Nth(S, n)]]

TypeOK ==
    /\ state \in States
    /\ pc \in Nat
    /\ ws_connected \in BOOLEAN
    /\ pending_local_offer \in 0..pc
    /\ pending_early_answer \in 0..offers
    /\ initial_renegotiation_consumed \in BOOLEAN
    /\ pending_renegotiation \in BOOLEAN
    /\ teardown_emitted \in BOOLEAN
    /\ current_offer_answered \in BOOLEAN
    /\ pending_remote_ice \in Seq(1..pc)
    /\ was_in_ice_flight_once \in BOOLEAN
    /\ audio \in {"kIdle", "kArmed", "kActive", "kStopped"}
    /\ rearming \in BOOLEAN
    /\ signaling_connected_once \in BOOLEAN
    /\ last_ice_state \in IceStates \cup {"new"}
    /\ grace \in BOOLEAN
    /\ life \in {"running", "dying", "quitting", "exited"}
    /\ open \in BOOLEAN
    /\ tasks \in Seq([what : Envelopes \cup Completions \cup Observed \cup Posted,
                      e : 0..pc, k : 0..offers])
    /\ sig \in Seq([what : Calls \cup Observed, e : 0..pc, k : 0..offers])
    /\ offers \in Nat /\ offerPc \in 0..pc /\ answered \in 0..offers
    /\ events \in 0..MaxEvents

Init ==
    /\ state = "kIdle" /\ pc = 0
    /\ ws_connected = FALSE
    /\ pending_local_offer = 0 /\ pending_early_answer = 0
    /\ initial_renegotiation_consumed = FALSE /\ pending_renegotiation = FALSE
    /\ teardown_emitted = FALSE /\ current_offer_answered = FALSE
    /\ pending_remote_ice = <<>> /\ was_in_ice_flight_once = FALSE
    /\ audio = "kIdle"
    /\ rearming = FALSE /\ signaling_connected_once = FALSE
    /\ last_ice_state = "new" /\ grace = FALSE /\ life = "running"
    /\ open = FALSE /\ tasks = <<>> /\ sig = <<>>
    /\ offers = 0 /\ offerPc = 0 /\ answered = 0 /\ events = 0

-----------------------------------------------------------------------------

(***************************************************************************)
(* What the handlers share.  `rest` is the task queue they leave.          *)
(***************************************************************************)

Call(what, k) == sig' = Append(sig, Task(what, pc, k))

\* ClosePcOnSignalingThread: pc->Close() shows as the state change it causes.
ClosePc == Call("closed", 0)

\* FailWithReason, with the OnFailed it fires: the audio lifecycle stops, and
\* a worker not yet tearing down recycles itself (OnGpuPermanentDeath, whose
\* CloseInternal finds kFailed and only latches teardown_emitted_).
Fail(rest) ==
    /\ state' = "kFailed"
    /\ teardown_emitted' = TRUE
    /\ ClosePc
    /\ audio' = "kStopped"
    /\ life' = IF life = "running" THEN "dying" ELSE life
    /\ pending_remote_ice' = <<>>
    /\ tasks' = rest
    /\ UNCHANGED <<pc, ws_connected, pending_local_offer, pending_early_answer,
                   pending_renegotiation, current_offer_answered, was_in_ice_flight_once,
                   rearming, signaling_connected_once, last_ice_state, grace, historyVars>>

\* A handler that returns early.
Drop(rest) ==
    /\ tasks' = rest
    /\ UNCHANGED <<driverVars, audio, mainVars, sig, historyVars>>

\* Seeded fault: the close does not post the re-arm.
OnClosedQuiet(rest) == rest

\* main_parts' OnClosed, called from inside CloseInternal, posts the re-arm.
OnClosed(rest) ==
    IF life = "running" THEN Append(rest, Task("rearmBye", 0, 0)) ELSE rest

\* CloseInternal of a session that is neither closed nor failed.  (Its bye to
\* the broker is best effort and changes nothing here.)
Close(rest) ==
    /\ state' = "kClosed"
    /\ teardown_emitted' = TRUE
    /\ ClosePc
    /\ pending_remote_ice' = <<>>
    /\ audio' = "kStopped"
    /\ tasks' = OnClosed(rest)
    /\ UNCHANGED <<was_in_ice_flight_once, pc, ws_connected, pending_local_offer, pending_early_answer,
                   initial_renegotiation_consumed, pending_renegotiation,
                   current_offer_answered, mainVars, historyVars>>

\* EmitOfferAndSetLocal on an open channel: the envelope goes out first.
EmitOffer(e) ==
    /\ state' = "kSettingLocal"
    /\ offers' = offers + 1 /\ offerPc' = e
    /\ Call("setLocal", 0)

\* BeginRenegotiation from kIceInFlight, and the first offer of a session.
CreateOffer ==
    /\ state' = "kCreatingOffer"
    /\ current_offer_answered' = FALSE
    /\ Call("createOffer", 0)

\* BeginRenegotiation: at once, later, or not at all.
BeginRenegotiation ==
    \/ /\ state = "kIceInFlight"
       /\ CreateOffer
       /\ UNCHANGED pending_renegotiation
    \/ /\ state \in {"kCreatingOffer", "kSettingLocal", "kAwaitingAnswer", "kSettingRemote"}
       /\ pending_renegotiation' = TRUE
       /\ UNCHANGED <<state, current_offer_answered, sig>>
    \/ /\ state \in {"kCreatingPc"} \cup Terminal
       /\ UNCHANGED <<state, current_offer_answered, pending_renegotiation, sig>>

\* SetRemoteDescription with the answer to offer k; an SDP that does not parse
\* fails the driver.
ApplyAnswer(k, rest) ==
    \/ /\ state' = "kSettingRemote"
       /\ answered' = k
       /\ pending_early_answer' = 0
       /\ Call("setRemote", k)
       /\ tasks' = rest
       /\ UNCHANGED <<iceVars, pc, ws_connected, pending_local_offer,
                      initial_renegotiation_consumed, pending_renegotiation, teardown_emitted, current_offer_answered,
                      audio, mainVars, offers, offerPc>>
    \/ Fail(rest) /\ UNCHANGED initial_renegotiation_consumed

(***************************************************************************)
(* The UI thread's tasks.                                                  *)
(***************************************************************************)

\* Seeded fault: a hop outlives the connection it comes from.
LiveAlways(h) == TRUE

\* A hop runs only while the driver's weak pointer it holds is valid.
Live(h) == h.e = pc

TaskIs(what) ==
    /\ life \in {"running", "dying"}
    /\ tasks # <<>>
    /\ Head(tasks).what = what
    /\ UNCHANGED <<open, events>>

Received(what) == TaskIs(what) /\ state \notin Terminal
Landed(what) == TaskIs(what) /\ Live(Head(tasks))

\* OnEnvelope after the session ended, and a hop whose weak pointer is dead.
Discarded ==
    /\ \/ \E what \in Envelopes : TaskIs(what) /\ state \in Terminal
       \/ \E what \in Completions \cup Observed : TaskIs(what) /\ ~Live(Head(tasks))
    /\ Drop(Tail(tasks))

\* HandleOfferEnvelope: the worker is the only offerer.
HandleOffer ==
    /\ Received("offer")
    /\ Fail(Tail(tasks))
    /\ UNCHANGED initial_renegotiation_consumed

\* An answer that comes before the local description is set is kept, unless it
\* has no SDP.
HandleAnswer ==
    /\ Received("answer")
    /\ LET k == Head(tasks).k
           rest == Tail(tasks) IN
       \/ /\ state \in {"kSettingRemote", "kIceInFlight"}
          /\ Drop(rest)
       \/ /\ state \in {"kCreatingOffer", "kSettingLocal"}
          /\ pending_early_answer' = k
          /\ tasks' = rest
          /\ UNCHANGED <<iceVars, state, pc, ws_connected, pending_local_offer,
                         initial_renegotiation_consumed, pending_renegotiation,
                         teardown_emitted, current_offer_answered, audio, mainVars,
                         sig, historyVars>>
       \/ /\ state = "kAwaitingAnswer"
          /\ ApplyAnswer(k, rest)
       \/ /\ state \in {"kIdle", "kCreatingPc", "kCreatingOffer", "kSettingLocal"}
          /\ Fail(rest) /\ UNCHANGED initial_renegotiation_consumed

\* A bye before the first offer of a session is the previous viewer's.
HandleBye ==
    /\ Received("bye")
    /\ \/ state \in {"kIdle", "kCreatingPc"} /\ Drop(Tail(tasks))
       \/ state \notin {"kIdle", "kCreatingPc"} /\ Close(Tail(tasks))

\* Seeded fault: a request that finds an unanswered offer is coalesced.
UnansweredNever == FALSE

\* A request that finds an offer nobody answered comes from another viewer.
Unanswered ==
    \/ state = "kAwaitingAnswer"
    \/ state = "kIceInFlight" /\ ~current_offer_answered

HandleRequestRenegotiate ==
    /\ Received("request_renegotiate")
    /\ LET rest == Tail(tasks) IN
       \/ /\ Unanswered                             \* OnNewViewerNeedsOffer
          /\ tasks' = Append(rest, Task("rearmQuiet", 0, 0))
          /\ UNCHANGED <<driverVars, sig>>
       \/ /\ ~Unanswered /\ state = "kIceInFlight"
          /\ BeginRenegotiation
          /\ tasks' = rest
          /\ UNCHANGED <<iceVars, pc, ws_connected, pending_local_offer,
                         pending_early_answer, initial_renegotiation_consumed,
                         teardown_emitted>>
       \/ /\ ~Unanswered /\ state \notin {"kIceInFlight", "kIdle"}
          /\ pending_renegotiation' = TRUE
          /\ tasks' = rest
          /\ UNCHANGED <<iceVars, state, pc, ws_connected, pending_local_offer,
                         pending_early_answer, initial_renegotiation_consumed,
                         teardown_emitted, current_offer_answered, sig>>
    /\ UNCHANGED <<audio, mainVars, historyVars>>

\* A candidate that comes in the middle of a negotiation is held back; in the first
\* one of the process only once the local description is set.
CanQueueMidDance ==
    \/ state \in {"kAwaitingAnswer", "kSettingRemote"}
    \/ was_in_ice_flight_once /\ state \in {"kCreatingOffer", "kSettingLocal"}

\* AddRemoteIcePayload, n times: AddIceCandidate on the signaling thread.
FlushPendingRemoteIce(n) == [i \in 1..n |-> Task("addIce", pc, 0)]

\* HandleIceEnvelope: added, held back, or dropped.  (A candidate that does not
\* parse is dropped too.  The failure of an envelope without a candidate cannot
\* be reached: Decode, cb_wire_envelope.cc 278-334 and 421-446, gives
\* every `ice` envelope one, or no envelope at all.)
HandleIce ==
    /\ Received("ice")
    /\ \/ /\ state = "kIceInFlight"
          /\ sig' = sig \o FlushPendingRemoteIce(1)
          /\ UNCHANGED pending_remote_ice
       \/ /\ CanQueueMidDance
          /\ pending_remote_ice' = Append(pending_remote_ice, pc)
          /\ UNCHANGED sig
       \/ /\ ~CanQueueMidDance
          /\ UNCHANGED <<pending_remote_ice, sig>>
    /\ tasks' = Tail(tasks)
    /\ UNCHANGED <<was_in_ice_flight_once, state, pc, ws_connected, pending_local_offer,
                   pending_early_answer, initial_renegotiation_consumed,
                   pending_renegotiation, teardown_emitted, current_offer_answered,
                   audio, mainVars, historyVars>>

\* HopHandleIceCandidate, HopHandleIceGatheringChange: sent or dropped, and a send
\* that fails is dropped: nothing of the worker's own state depends on it.
HopHandleIceCandidate ==
    /\ Landed("candidate")
    /\ Drop(Tail(tasks))

\* HopHandleRenegotiationNeeded: the first one of a session makes its offer.
HopHandleRenegotiationNeeded ==
    /\ Landed("negotiationNeeded")
    /\ initial_renegotiation_consumed' = TRUE
    /\ LET rest == Tail(tasks) IN
       \/ /\ ~initial_renegotiation_consumed /\ state # "kCreatingPc"
          /\ Fail(rest)
       \/ /\ \/ ~initial_renegotiation_consumed /\ state = "kCreatingPc"
                /\ CreateOffer /\ UNCHANGED pending_renegotiation
             \/ initial_renegotiation_consumed /\ BeginRenegotiation
          /\ tasks' = rest
          /\ UNCHANGED <<iceVars, pc, ws_connected, pending_local_offer,
                         pending_early_answer, teardown_emitted, audio, mainVars,
                         historyVars>>

\* HopHandleCreateOfferSuccess: stash the offer until the first OnConnected;
\* after that a Send() that fails is the end of the driver.
HopHandleCreateOfferSuccess ==
    /\ Landed("offerCreated")
    /\ LET e == Head(tasks).e
           rest == Tail(tasks) IN
       \/ /\ state = "kCreatingOffer" /\ ~ws_connected
          /\ pending_local_offer' = e
          /\ tasks' = rest
          /\ UNCHANGED <<state, sig, teardown_emitted, pending_remote_ice, audio, life,
                         historyVars>>
       \/ /\ state = "kCreatingOffer" /\ ws_connected /\ open
          /\ EmitOffer(e)
          /\ tasks' = rest
          /\ UNCHANGED <<pending_local_offer, teardown_emitted, pending_remote_ice, audio,
                         life, answered>>
       \/ /\ state # "kCreatingOffer" \/ (ws_connected /\ ~open)
          /\ Fail(rest)
    /\ UNCHANGED <<was_in_ice_flight_once, pc, ws_connected, pending_early_answer,
                   initial_renegotiation_consumed, pending_renegotiation,
                   current_offer_answered, rearming, signaling_connected_once, last_ice_state, grace>>

\* HopHandleSetLocalDescriptionComplete, with the replay of an early answer.
HopHandleSetLocalDescriptionComplete ==
    /\ Landed("localSet")
    /\ LET rest == Tail(tasks) IN
       \/ /\ state = "kSettingLocal" /\ pending_early_answer = 0
          /\ state' = "kAwaitingAnswer"
          /\ tasks' = rest
          /\ UNCHANGED <<iceVars, pc, ws_connected, pending_local_offer,
                         pending_early_answer, initial_renegotiation_consumed,
                         pending_renegotiation, teardown_emitted, current_offer_answered,
                         audio, mainVars, sig, historyVars>>
       \/ /\ state = "kSettingLocal" /\ pending_early_answer # 0
          /\ ApplyAnswer(pending_early_answer, rest)
       \/ /\ state # "kSettingLocal"
          /\ Fail(rest) /\ UNCHANGED initial_renegotiation_consumed

\* HopHandleSetRemoteDescriptionComplete: the candidates held back are added (the
\* ones that do not parse are dropped), then a coalesced renegotiation starts.
HopHandleSetRemoteDescriptionComplete ==
    /\ Landed("remoteSet")
    /\ LET rest == Tail(tasks) IN
       \/ /\ state = "kSettingRemote"
          /\ was_in_ice_flight_once' = TRUE
          /\ pending_remote_ice' = <<>>
          /\ \E n \in 0..Len(pending_remote_ice) :
                sig' = sig \o FlushPendingRemoteIce(n) \o
                         IF pending_renegotiation THEN <<Task("createOffer", pc, 0)>> ELSE <<>>
          /\ state' = IF pending_renegotiation THEN "kCreatingOffer" ELSE "kIceInFlight"
          /\ current_offer_answered' = ~pending_renegotiation
          /\ pending_renegotiation' = FALSE
          /\ tasks' = rest
          /\ UNCHANGED <<pc, ws_connected, pending_local_offer, pending_early_answer,
                         initial_renegotiation_consumed, teardown_emitted, audio,
                         mainVars, historyVars>>
       \/ /\ state # "kSettingRemote"
          /\ Fail(rest) /\ UNCHANGED initial_renegotiation_consumed

\* A call that failed, and an offer that does not parse.
HopHandleFailure ==
    /\ \E what \in {"createFailed", "localFailed", "remoteFailed"} : Landed(what)
    /\ Fail(Tail(tasks))
    /\ UNCHANGED initial_renegotiation_consumed

\* HopHandleIceConnectionChange, through the audio lifecycle to main_parts:
\* failed arms the grace timer, connected disarms it.
HopHandleIceConnectionChange ==
    /\ \E ice \in IceStates :
          /\ Landed(ice)
          /\ last_ice_state' = ice
          /\ audio' = IF ice = "connected" /\ audio = "kArmed" THEN "kActive" ELSE audio
          /\ grace' = CASE ice = "failed" -> grace \/ life = "running"
                        [] ice = "connected" -> FALSE
                        [] OTHER -> grace
    /\ tasks' = Tail(tasks)
    /\ UNCHANGED <<driverVars, rearming, signaling_connected_once, life, sig, historyVars>>

(***************************************************************************)
(* Re-arming: RearmOrShutdown, RearmSession, CbOffererDriver::Rearm and    *)
(* ::Start.                                                                *)
(***************************************************************************)

\* CbAudioLifecycle's PrepareForTeardown, Rearm, OnClosed and AdoptBindings.
PrepareForTeardown(a) == "kStopped"
AudioRearm(a) == IF a = "kStopped" THEN "kIdle" ELSE a
AudioOnClosed(a) == "kStopped"
AdoptBindings(a, bound) == IF a = "kIdle" /\ bound THEN "kArmed" ELSE a

\* The audio lifecycle across a re-arm, which closes the driver first unless
\* it is closed already.  AddSendOnlyAudioTransceiver may give no bindings.
AudioAcrossRearm(bound) ==
    LET idle == AudioRearm(PrepareForTeardown(audio))
    IN  AdoptBindings(IF state = "kClosed" THEN idle ELSE AudioOnClosed(idle), bound)

\* Seeded fault: the flag is cleared before the driver's own OnClosed.
PostedByRearmEarly(rest) ==
    LET cleared == Append(rest, Task("clear", 0, 0))
    IN  IF state = "kClosed" THEN cleared ELSE OnClosed(cleared)

\* What the re-arm posts: the OnClosed of a driver it had to close, then the
\* task that clears rearming_.
PostedByRearm(rest) ==
    LET closed == IF state = "kClosed" THEN rest ELSE OnClosed(rest)
    IN  Append(closed, Task("clear", 0, 0))

\* Making the next connection calls into the signaling thread and waits, so all
\* it had queued has run by then.  The old connection's SDP completions hold dead
\* weak pointers; what the old connection observed (its close too) takes a
\* fresh one.
LeftOver(s) ==
    LET seen == Keep(s, Observed)
    IN  [i \in 1..Len(seen) |-> Task(seen[i].what, pc + 1, 0)]

\* Rearm() drops its connection and invalidates its weak pointers; Start() makes
\* the next one.
FreshPc == pc' = pc + 1

\* Rearm()'s session-scoped state; ws_connected_ is kept.
ResetSession ==
    /\ teardown_emitted' = FALSE
    /\ initial_renegotiation_consumed' = FALSE
    /\ pending_renegotiation' = FALSE
    /\ pending_local_offer' = 0
    /\ current_offer_answered' = FALSE
    /\ pending_early_answer' = 0
    /\ pending_remote_ice' = <<>>

\* Start() and the media of the fresh connection, whose video transceiver makes
\* libwebrtc ask for a negotiation.
Start ==
    /\ state' = "kCreatingPc"
    /\ \E added \in IF VideoMayFail THEN BOOLEAN ELSE {TRUE} :
          sig' = IF added THEN <<Task("negotiationNeeded", pc + 1, 0)>> ELSE <<>>

RearmSession(rest) ==
    /\ FreshPc
    /\ rearming' = TRUE
    /\ last_ice_state' = "new"
    /\ grace' = FALSE
    /\ tasks' = PostedByRearm(rest)
                  \o LeftOver(IF state = "kClosed" THEN sig
                              ELSE Append(sig, Task("closed", pc, 0)))
    /\ \/ /\ Start
          /\ ResetSession
          /\ \E bound \in BOOLEAN : audio' = AudioAcrossRearm(bound)
          /\ UNCHANGED life
       \/ /\ state' = "kFailed"                 \* no PeerConnection: FailWithReason
          /\ teardown_emitted' = TRUE
          /\ initial_renegotiation_consumed' = FALSE /\ pending_renegotiation' = FALSE
          /\ pending_local_offer' = 0 /\ pending_early_answer' = 0
          /\ pending_remote_ice' = <<>>
          /\ current_offer_answered' = FALSE
          /\ audio' = "kStopped"
          /\ life' = "dying"
          /\ sig' = <<>>
    /\ UNCHANGED <<was_in_ice_flight_once, ws_connected, signaling_connected_once, open,
                   historyVars>>

\* The driver would refuse from kIdle and kFailed; NeverMute shows a running
\* worker never asks it to.
RearmOrShutdown(rest) ==
    \/ /\ life = "running" /\ ~rearming
       /\ RearmSession(rest)
    \/ /\ life # "running" \/ rearming
       /\ tasks' = rest
       /\ UNCHANGED <<driverVars, audio, rearming, signaling_connected_once,
                      last_ice_state, grace, life, sig, historyVars>>

RearmTask ==
    /\ TaskIs("rearmBye") \/ TaskIs("rearmQuiet")
    /\ RearmOrShutdown(Tail(tasks))

ClearTask ==
    /\ TaskIs("clear")
    /\ rearming' = FALSE
    /\ tasks' = Tail(tasks)
    /\ UNCHANGED <<driverVars, audio, signaling_connected_once, last_ice_state, grace,
                   life, sig, historyVars>>

\* OnIceFailedGraceElapsed.
GraceElapsed ==
    /\ life \in {"running", "dying"} /\ grace
    /\ \/ /\ life = "running" /\ ~rearming
          /\ RearmSession(tasks)
       \/ /\ life = "dying" \/ rearming
          /\ grace' = FALSE
          /\ UNCHANGED <<driverVars, audio, rearming, signaling_connected_once,
                         last_ice_state, life, sig, tasks, historyVars>>
    /\ UNCHANGED <<open, events>>

(***************************************************************************)
(* The rest of main_parts: bring-up, the channel, the ends of the process. *)
(***************************************************************************)

StartNativeSession ==
    /\ life = "running" /\ pc = 0
    /\ pc' = 1
    /\ \/ Start /\ \E bound \in BOOLEAN : audio' = AdoptBindings(audio, bound)
          /\ UNCHANGED <<teardown_emitted, life>>
       \/ /\ state' = "kFailed" /\ teardown_emitted' = TRUE /\ audio' = "kStopped"
          /\ life' = "dying"
          /\ UNCHANGED sig
    /\ UNCHANGED <<iceVars, ws_connected, pending_local_offer, pending_early_answer,
                   initial_renegotiation_consumed, pending_renegotiation,
                   current_offer_answered, rearming, signaling_connected_once,
                   last_ice_state, grace, open, tasks, historyVars, events>>

\* Is a viewer still attached, so that a redial changes nothing?
MediaLive == state = "kIceInFlight" /\ last_ice_state = "connected"

\* OnConnected: the driver drains a stashed offer; on a redial with nobody
\* attached main_parts posts a re-arm without a bye.
OnConnected ==
    /\ life \in {"running", "dying"} /\ pc # 0 /\ ~open
    /\ open' = TRUE
    /\ ws_connected' = TRUE
    /\ pending_local_offer' = 0
    /\ \/ /\ pending_local_offer # 0 /\ state = "kCreatingOffer"
          /\ EmitOffer(pending_local_offer)
       \/ /\ ~(pending_local_offer # 0 /\ state = "kCreatingOffer")
          /\ UNCHANGED <<state, sig, offers, offerPc>>
    /\ signaling_connected_once' = TRUE
    /\ tasks' = IF signaling_connected_once /\ ~MediaLive /\ life = "running" /\ ~rearming
                THEN Append(tasks, Task("rearmQuiet", 0, 0)) ELSE tasks
    /\ UNCHANGED <<iceVars, pc, pending_early_answer, initial_renegotiation_consumed,
                   pending_renegotiation, teardown_emitted, current_offer_answered,
                   audio, rearming, last_ice_state, grace, life, answered, events>>

\* The channel drops; the wrapper redials and says nothing.  Frames the dead
\* client had not read are lost.
ChannelDrops ==
    /\ open /\ life \in {"running", "dying"}
    /\ events < MaxEvents /\ events' = events + 1
    /\ open' = FALSE
    /\ tasks' = Keep(tasks, Completions \cup Observed \cup Posted)
    /\ UNCHANGED <<driverVars, audio, mainVars, sig, historyVars>>

\* OnGaveUp, and the Cb.shutdown command: run the quit closure, unless the
\* closure is spent.
Shutdown ==
    /\ life = "running"
    /\ life' = "quitting"
    /\ UNCHANGED <<driverVars, audio, rearming, signaling_connected_once,
                   last_ice_state, grace, open, tasks, sig, historyVars, events>>

\* OnGpuPermanentDeath, from the BeginFrame driver.
OnGpuPermanentDeath ==
    /\ life = "running" /\ pc # 0
    /\ life' = "dying"
    /\ audio' = "kStopped"
    /\ \/ teardown_emitted /\ UNCHANGED <<state, teardown_emitted, pending_remote_ice, sig>>
       \/ /\ ~teardown_emitted /\ state' = "kClosed" /\ teardown_emitted' = TRUE
          /\ pending_remote_ice' = <<>> /\ ClosePc
    /\ UNCHANGED <<was_in_ice_flight_once, pc, ws_connected, pending_local_offer, pending_early_answer,
                   initial_renegotiation_consumed, pending_renegotiation,
                   current_offer_answered, rearming, signaling_connected_once,
                   last_ice_state, grace, open, tasks, historyVars, events>>

\* PostMainMessageLoopRun: everything is closed and destroyed.
PostMainMessageLoopRun ==
    /\ life \in {"dying", "quitting"}
    /\ life' = "exited"
    /\ state' = IF state = "kFailed" THEN state ELSE "kClosed"
    /\ teardown_emitted' = TRUE
    /\ audio' = "kStopped"
    /\ open' = FALSE /\ tasks' = <<>> /\ sig' = <<>> /\ grace' = FALSE
    /\ pending_remote_ice' = <<>>
    /\ UNCHANGED <<was_in_ice_flight_once, pc, ws_connected, pending_local_offer, pending_early_answer,
                   initial_renegotiation_consumed, pending_renegotiation,
                   current_offer_answered, rearming, signaling_connected_once,
                   last_ice_state, historyVars, events>>

Exited == life = "exited" /\ UNCHANGED vars

(***************************************************************************)
(* The environment: the broker's envelopes and libwebrtc.                  *)
(***************************************************************************)

Input == events < MaxEvents /\ Len(tasks) < MaxTasks /\ events' = events + 1

\* An answer may be a duplicate, or late: it answers some offer already sent.
EnvelopeArrives ==
    /\ open /\ life \in {"running", "dying"} /\ Input
    /\ \/ \E what \in Envelopes \ {"answer"} : tasks' = Append(tasks, Task(what, 0, 0))
       \/ \E k \in 1..offers : tasks' = Append(tasks, Task("answer", 0, k))
    /\ UNCHANGED <<driverVars, audio, mainVars, open, sig, historyVars>>

\* The connection gathers candidates once it has a local description; its ICE
\* changes state once a remote description is set; libwebrtc may ask for another
\* negotiation.
PcObserves ==
    /\ life \in {"running", "dying"} /\ state \notin Terminal /\ Input
    /\ \/ /\ state = "kIceInFlight" \/ last_ice_state \in IceStates \ {"closed"}
          /\ \E ice \in IceStates \ {"closed"} : Call(ice, 0)
       \/ /\ state \in {"kAwaitingAnswer", "kSettingRemote", "kIceInFlight"}
          /\ Call("candidate", 0)
       \/ /\ initial_renegotiation_consumed
          /\ Call("negotiationNeeded", 0)
    /\ UNCHANGED <<driverVars, audio, mainVars, open, tasks, historyVars>>

\* The hop that ends a call on the signaling thread; AddIceCandidate has none.
\* An SDP observer holds the weak pointer taken with the call; an observer
\* callback takes one now.
Outcomes(op) ==
    CASE op.what = "createOffer" -> {Task("offerCreated", op.e, 0), Task("createFailed", op.e, 0)}
      [] op.what = "setLocal" -> {Task("localSet", op.e, 0), Task("localFailed", op.e, 0)}
      [] op.what = "setRemote" -> {Task("remoteSet", op.e, op.k), Task("remoteFailed", op.e, op.k)}
      [] OTHER -> {Task(op.what, pc, 0)}

SignalingThread ==
    /\ life \in {"running", "dying"} /\ sig # <<>>
    /\ \/ Head(sig).what = "addIce" /\ UNCHANGED tasks
       \/ /\ Head(sig).what # "addIce"
          /\ \E hop \in Outcomes(Head(sig)) : tasks' = Append(tasks, hop)
    /\ sig' = Tail(sig)
    /\ UNCHANGED <<driverVars, audio, mainVars, open, historyVars, events>>

-----------------------------------------------------------------------------

UiThread ==
    \/ Discarded
    \/ HandleOffer \/ HandleAnswer \/ HandleIce \/ HandleBye \/ HandleRequestRenegotiate
    \/ HopHandleRenegotiationNeeded \/ HopHandleCreateOfferSuccess
    \/ HopHandleSetLocalDescriptionComplete \/ HopHandleSetRemoteDescriptionComplete
    \/ HopHandleFailure \/ HopHandleIceConnectionChange \/ HopHandleIceCandidate
    \/ RearmTask \/ ClearTask

Next ==
    \/ UiThread
    \/ SignalingThread
    \/ StartNativeSession \/ OnConnected \/ ChannelDrops \/ GraceElapsed
    \/ Shutdown \/ OnGpuPermanentDeath \/ PostMainMessageLoopRun \/ Exited
    \/ EnvelopeArrives \/ PcObserves

Spec == Init /\ [][Next]_vars

\* Both threads run whatever is queued.
FairSpec == Spec /\ WF_vars(UiThread) /\ WF_vars(SignalingThread)

-----------------------------------------------------------------------------

(***************************************************************************)
(* Properties.                                                             *)
(***************************************************************************)

Queued(q, whats) == \E i \in 1..Len(q) : q[i].what \in whats /\ q[i].e = pc

\* A re-arm in the queue that rearming_ will not swallow.
RearmQueued ==
    \E i \in 1..Len(tasks) :
        /\ tasks[i].what \in {"rearmBye", "rearmQuiet"}
        /\ ~rearming \/ \E j \in 1..(i - 1) : tasks[j].what = "clear"

(***************************************************************************)
(* A running worker is never mute: it is not failed, a closed session has  *)
(* a re-arm queued that the re-entrancy guard will let through, the guard  *)
(* itself is about to be cleared, and every state of the negotiation that  *)
(* waits for libwebrtc has its call or its hop under way on the current    *)
(* connection.  (RearmOrShutdown, RearmSession and the Hop* handlers.)     *)
(***************************************************************************)
NeverMute ==
    life = "running" =>
        /\ state # "kFailed"
        /\ state = "kClosed" => RearmQueued
        /\ rearming => \E i \in 1..Len(tasks) : tasks[i].what = "clear"
        /\ state = "kCreatingPc" /\ ~VideoMayFail =>
              Queued(sig, {"negotiationNeeded"}) \/ Queued(tasks, {"negotiationNeeded"})
        /\ state = "kCreatingOffer" =>
              \/ Queued(sig, {"createOffer"})
              \/ Queued(tasks, {"offerCreated", "createFailed"})
              \/ pending_local_offer = pc /\ ~ws_connected
        /\ state = "kSettingLocal" =>
              Queued(sig, {"setLocal"}) \/ Queued(tasks, {"localSet", "localFailed"})
        /\ state = "kSettingRemote" =>
              Queued(sig, {"setRemote"}) \/ Queued(tasks, {"remoteSet", "remoteFailed"})

\* The states in which an offer of this session is on the wire.
OfferOut == state \in {"kSettingLocal", "kAwaitingAnswer", "kSettingRemote", "kIceInFlight"}

\* The offer a viewer is negotiating with was made by the connection the worker
\* now has, never by one it dropped in a re-arm, and a new session starts with
\* nothing buffered from the last; the candidates held back are this session's, and
\* none is left behind once the answer is applied (Rearm's InvalidateWeakPtrs and
\* resets, FlushPendingRemoteIce).
LiveOffer ==
    /\ OfferOut => offerPc = pc
    /\ pending_local_offer \in {0, pc}
    /\ state = "kCreatingPc" => pending_local_offer = 0 /\ pending_early_answer = 0
    /\ \A i \in DOMAIN pending_remote_ice : pending_remote_ice[i] = pc
    /\ pending_remote_ice # <<>> => state \notin Terminal \cup {"kCreatingPc", "kIceInFlight"}

\* Each re-arm has a cause outside the worker: the OnClosed that a re-arm fires
\* itself never leads to another one (rearming_ and the order of its posts).
NoSelfRearm == pc <= 1 + events

\* A request_renegotiate about to be handled by a driver that is not in the
\* middle of sending an offer.
Asking ==
    /\ life = "running" /\ tasks # <<>> /\ Head(tasks).what = "request_renegotiate"
    /\ state \in {"kCreatingPc", "kAwaitingAnswer", "kIceInFlight"}

\* A viewer that asks for an offer gets one made after it asked, unless the
\* channel drops (which may lose the request; a redial re-arms) or the process
\* is recycled.
\* (HandleRequestRenegotiateEnvelope: a request an unanswered offer meets must
\* re-arm the session, not wait for an answer that cannot come.)
AskedIsOffered ==
    \A n \in 0..MaxEvents :
        (Asking /\ offers = n) ~> (offers > n \/ ~open \/ life # "running")

-----------------------------------------------------------------------------
(***************************************************************************)
(* What the source says and the model refutes (no run; see the README).    *)
(***************************************************************************)

\* Every session has audio: once the worker makes an offer, the audio lifecycle
\* has adopted that session's bindings (RearmSession, step 3b).
AudioArmed ==
    life = "running" /\ (OfferOut \/ state = "kCreatingOffer") => audio \in {"kArmed", "kActive"}

\* The answer being applied, or applied, answers the current offer
\* (HandleAnswerEnvelope).
AnswersCurrentOffer == state \in {"kSettingRemote", "kIceInFlight"} => answered = offers
====
